----------------------------- MODULE AdminTable -----------------------------
(***************************************************************************)
(* The list pages: a table of what the dashboard answered, ticked rows,    *)
(* and the operations on one row or on the ticked ones.                    *)
(*                                                                         *)
(* The table knows its rows by their index.  An answer, or another page of *)
(* a list that is paged, puts other entries under the ticks; the buttons   *)
(* in the header, and the confirmation they opened, act on the entries     *)
(* under the ticks when they are pressed.  Dialogs in the rows are made    *)
(* anew with the rows and close.                                           *)
(***************************************************************************)
EXTENDS Integers, Sequences, FiniteSets, SequencesExt

CONSTANTS
  Entry,      \* what the list holds
  MaxChanges, \* bound: changes made elsewhere
  PageSize,   \* entries on a page of a list that is paged
  MaxPages    \* bound: pages the numbers are computed for

TableAssumption ==
  /\ IsFiniteSet(Entry) /\ MaxChanges \in Nat /\ PageSize \in Nat \ {0} /\ MaxPages \in Nat
  /\ Entry \intersect {"no", "update", "delete", "block", "move", "config"} = {}

VARIABLES
  table,    \* the page
  admin,    \* the user is an administrator
  store,    \* the entries at the dashboard, in the order it lists them
  fresh,    \* entries that were not created yet
  elsewhere, \* changes made elsewhere so far
  number,   \* the page number
  rows,     \* the entries shown
  failing,  \* the last answer was an error
  fetch,    \* the list request: none, asked, or read and what it will bring
  picked,   \* the ticked rows, by index
  ticked,   \* history: the entries the user ticked
  turned,   \* history: rows under a tick were replaced
  asking,   \* an open confirmation: of an entry's row, of the ticked rows, or none
  op        \* the operation under way; once performed, ids are what it took out

tableVars == <<table, admin>>
storeVars == <<store, fresh, elsewhere>>
rowVars   == <<rows, failing>>
pickVars  == <<picked, ticked, turned>>
vars == <<tableVars, storeVars, number, rowVars, fetch, pickVars, asking, op>>

-----------------------------------------------------------------------------
(* The pages: operations on a row and on the ticked rows, whether the list is  *)
(* asked again when the window gets the focus, whether it is paged.            *)

Plain(row, batch) == [row |-> row, batch |-> batch, refocus |-> TRUE, paged |-> FALSE]

ServerTable ==
  [row |-> {"delete"}, batch |-> {"delete", "update", "move", "config"},
   refocus |-> FALSE, paged |-> FALSE]
ServiceTable == Plain({"delete"}, {"delete"})
CronTable == Plain({"delete", "run"}, {"delete"})
NotificationTable == Plain({"delete"}, {"delete"})
AlertRuleTable == Plain({"delete"}, {"delete"})
DDNSTable == Plain({"delete"}, {"delete"})
NATTable == Plain({"delete"}, {"delete"})
ServerGroupTable == Plain({"delete"}, {"delete"})
NotificationGroupTable == Plain({"delete"}, {"delete"})
UserTable == Plain({"delete"}, {"delete"})
WAFTable == [row |-> {"delete"}, batch |-> {"delete"}, refocus |-> TRUE, paged |-> TRUE]
OnlineUserTable == [row |-> {"block"}, batch |-> {"block"}, refocus |-> TRUE, paged |-> TRUE]

Tables ==
  {ServerTable, ServiceTable, CronTable, NotificationTable, AlertRuleTable, DDNSTable,
   NATTable, ServerGroupTable, NotificationGroupTable, UserTable, WAFTable, OnlineUserTable}

\* Administrators alone have operations on the lists that are paged.
MayAct == ~table.paged \/ admin

\* Operations the user confirms; "run" and "update" are sent at the click, "move"
\* and "config" have a form in their dialog.
Confirmed == {"delete", "block", "move", "config"}

\* After these the page asks for the list again, whether they succeeded or not.
Refreshing == {"delete", "block", "run"}

-----------------------------------------------------------------------------
(* Rows and pages *)

\* A list some entries are taken out of.
Without(list, gone) ==
  LET upto[n \in 0..Len(list)] ==
        IF n = 0 THEN <<>>
        ELSE IF list[n] \in gone THEN upto[n - 1] ELSE Append(upto[n - 1], list[n])
  IN upto[Len(list)]

\* What the list request is answered with: offset and limit of the page.
Listed(n) ==
  IF table.paged
  THEN SubSeq(store, (n - 1) * PageSize + 1,
              IF n * PageSize < Len(store) THEN n * PageSize ELSE Len(store))
  ELSE store

Pages(total) == (total + PageSize - 1) \div PageSize

\* Mutant of PageNumbers: the last page is left to the arrows.
PageNumbersOpen(n, pages) == (1..pages) \intersect ({1} \union (n - 1)..(n + 1))

\* Links to the first page, the last, and those around the current one; gaps
\* between them are shown as an ellipsis.
PageNumbers(n, pages) ==
  IF pages <= 5 THEN 1..pages
  ELSE LET from == IF n > 3 /\ n >= pages - 2 THEN pages - 3 ELSE IF n - 1 > 2 THEN n - 1 ELSE 2
           upto == IF n <= 3 THEN 4 ELSE IF n + 1 < pages - 1 THEN n + 1 ELSE pages - 1
       IN {1, pages} \union from..upto

\* handlePageChange: pages that are.
CanTurnTo(n, pages) == n \in 1..pages

-----------------------------------------------------------------------------
(* The operations *)

\* Mutant of Under: rows are counted from 1.
UnderNext == {rows[i] : i \in {k + 1 : k \in picked} \intersect 1..Len(rows)}

\* getSelectedRowModel: the entries under the ticks.
Under == {rows[i] : i \in picked \intersect 1..Len(rows)}

NoOp == [at |-> "idle", kind |-> "none", ids |-> {}, row |-> FALSE, done |-> FALSE]

NoFetch == [at |-> "no", list |-> <<>>]
Asked   == [at |-> "asked", list |-> <<>>]

Init ==
  /\ table \in Tables /\ admin \in BOOLEAN
  /\ \E n \in 0..Cardinality(Entry) :
       store = SubSeq(SetToSeq(Entry), 1, n) /\ fresh = Entry \ Range(store)
  /\ elsewhere = 0 /\ number = 1
  /\ rows = <<>> /\ failing = FALSE /\ fetch = Asked
  /\ picked = {} /\ ticked = {} /\ turned = FALSE
  /\ asking = "no" /\ op = NoOp

\* A dialog is modal.
Free == asking = "no"

\* Mutant of Tick: the row's index is taken for its number.
TickZero(i) ==
  /\ Free /\ i \in 1..Len(rows)
  /\ picked' = picked \union {i - 1} /\ ticked' = ticked \union {rows[i]}
  /\ UNCHANGED <<tableVars, storeVars, number, rowVars, fetch, turned, asking, op>>

Tick(i) ==
  /\ Free /\ i \in 1..Len(rows)
  /\ IF i \in picked
     THEN picked' = picked \ {i} /\ ticked' = ticked \ {rows[i]}
     ELSE picked' = picked \union {i} /\ ticked' = ticked \union {rows[i]}
  /\ UNCHANGED <<tableVars, storeVars, number, rowVars, fetch, turned, asking, op>>

\* toggleAllPageRowsSelected keeps the ticks of rows that are not there.
TickAll ==
  /\ Free /\ rows # <<>>
  /\ IF 1..Len(rows) \subseteq picked
     THEN picked' = picked \ 1..Len(rows) /\ ticked' = ticked \ Range(rows)
     ELSE picked' = picked \union 1..Len(rows) /\ ticked' = ticked \union Range(rows)
  /\ UNCHANGED <<tableVars, storeVars, number, rowVars, fetch, turned, asking, op>>

\* Mutant of AskBatch: asked about no row as well.
AskBatchAlways(kind) ==
  /\ Free /\ MayAct /\ kind \in table.batch \intersect Confirmed
  /\ asking' = kind
  /\ UNCHANGED <<tableVars, storeVars, number, rowVars, fetch, pickVars, op>>

\* With no row ticked the buttons answer "no rows are selected".
AskBatch(kind) ==
  /\ Free /\ MayAct /\ kind \in table.batch \intersect Confirmed
  /\ Under # {}
  /\ asking' = kind
  /\ UNCHANGED <<tableVars, storeVars, number, rowVars, fetch, pickVars, op>>

AskRow(e) ==
  /\ Free /\ MayAct /\ table.row \intersect Confirmed # {}
  /\ e \in Range(rows)
  /\ asking' = e
  /\ UNCHANGED <<tableVars, storeVars, number, rowVars, fetch, pickVars, op>>

Cancel ==
  /\ ~Free
  /\ asking' = "no"
  /\ UNCHANGED <<tableVars, storeVars, number, rowVars, fetch, pickVars, op>>

Send(kind, ids, row) ==
  /\ op.at = "idle"
  /\ op' = [NoOp EXCEPT !.at = "sent", !.kind = kind, !.ids = ids, !.row = row]
  /\ UNCHANGED <<tableVars, storeVars, number, rowVars, fetch, pickVars>>

\* The ids are those of the last rendering; the dialogs of "move" and "config" stay
\* until their answer.
ConfirmBatch ==
  /\ asking \in table.batch
  /\ Send(asking, Under, FALSE)
  /\ asking' = IF asking \in {"move", "config"} THEN asking ELSE "no"

ConfirmRow ==
  /\ asking \in Entry
  /\ \E kind \in table.row \intersect Confirmed : Send(kind, {asking}, TRUE)
  /\ asking' = "no"

\* forceUpdateServer, runCron: no question.
SendAtOnce ==
  /\ Free /\ UNCHANGED asking
  /\ \/ "update" \in table.batch /\ Under # {} /\ Send("update", Under, FALSE)
     \/ "run" \in table.row /\ \E e \in Range(rows) : Send("run", {e}, TRUE)

\* The dashboard takes the entries out: deleted, blocked, or moved to another
\* user's list, which an administrator sees too.
Gone(o) ==
  IF o.kind \in {"delete", "block"} \/ (o.kind = "move" /\ ~admin) THEN o.ids ELSE {}

Perform ==
  /\ op.at = "sent"
  /\ \E done \in BOOLEAN :
       /\ op' = [op EXCEPT !.at = "answered", !.done = done, !.row = FALSE,
                           !.ids = IF done THEN Gone(op) ELSE {}]
       /\ store' = IF done THEN Without(store, Gone(op)) ELSE store
  /\ UNCHANGED <<tableVars, fresh, elsewhere, number, rowVars, fetch, pickVars, asking>>

\* Mutant of Finish: mutate takes the answer under way.
FinishJoining ==
  /\ op.at = "answered"
  /\ fetch' = IF op.kind \in Refreshing /\ fetch.at = "no" THEN Asked ELSE fetch
  /\ op' = IF op.kind \in Refreshing THEN [op EXCEPT !.at = "mutating"] ELSE NoOp
  /\ asking' = IF asking = op.kind /\ op.done THEN "no" ELSE asking
  /\ UNCHANGED <<tableVars, storeVars, number, rowVars, pickVars>>

\* Toasts; then mutate, where the page does: an answer under way is not waited for.
Finish ==
  /\ op.at = "answered"
  /\ fetch' = IF op.kind \in Refreshing THEN Asked ELSE fetch
  /\ op' = IF op.kind \in Refreshing THEN [op EXCEPT !.at = "mutating"] ELSE NoOp
  /\ asking' = IF asking = op.kind /\ op.done THEN "no" ELSE asking
  /\ UNCHANGED <<tableVars, storeVars, number, rowVars, pickVars>>

-----------------------------------------------------------------------------
(* The list request *)

\* The window gets the focus, the network comes back, or an error is tried again.
Refocus ==
  /\ table.refocus \/ failing
  /\ fetch.at = "no"
  /\ fetch' = Asked
  /\ UNCHANGED <<tableVars, storeVars, number, rowVars, pickVars, asking, op>>

ReadList ==
  /\ fetch.at = "asked"
  /\ fetch' = [at |-> "read", list |-> Listed(number)]
  /\ UNCHANGED <<tableVars, storeVars, number, rowVars, pickVars, asking, op>>

Replaced(q) == \E i \in picked : i <= Len(q) /\ (i > Len(rows) \/ rows[i] # q[i])

\* Mutant of Show: a row's dialog survives the rendering.
ShowKeeping(q, error) ==
  /\ rows' = q /\ failing' = error
  /\ turned' = (turned \/ Replaced(q))
  /\ UNCHANGED <<picked, ticked, asking>>

\* A rendering with other rows, or another error: the ticks stay where they are,
\* dialogs in the rows close, and the header's if no entry is under a tick now.
Show(q, error) ==
  /\ rows' = q /\ failing' = error
  /\ turned' = (turned \/ Replaced(q))
  /\ asking' = CASE asking \in Entry -> IF q # rows \/ error # failing \/ error THEN "no" ELSE asking
                 [] asking = "no" -> "no"
                 [] OTHER -> IF picked \intersect 1..Len(q) = {} THEN "no" ELSE asking
  /\ UNCHANGED <<picked, ticked>>

EndMutate == op' = IF op.at = "mutating" THEN NoOp ELSE op

ListAnswered ==
  /\ fetch.at = "read"
  /\ Show(fetch.list, FALSE) /\ EndMutate
  /\ fetch' = NoFetch
  /\ UNCHANGED <<tableVars, storeVars, number>>

ListFailed ==
  /\ fetch.at # "no"
  /\ Show(rows, TRUE) /\ EndMutate
  /\ fetch' = NoFetch
  /\ UNCHANGED <<tableVars, storeVars, number>>

\* Another page of the list: another request, no rows until it is answered, the
\* ticks kept.
TurnPage(n) ==
  /\ Free /\ table.paged
  /\ n # number /\ CanTurnTo(n, Pages(Len(store)))
  /\ number' = n
  /\ rows' = <<>> /\ fetch' = Asked /\ EndMutate
  /\ UNCHANGED <<tableVars, storeVars, failing, pickVars, asking>>

\* Others, agents or the user's own forms.
Created(e) ==
  /\ elsewhere < MaxChanges /\ elsewhere' = elsewhere + 1
  /\ e \in fresh
  /\ fresh' = fresh \ {e}
  /\ \E k \in 1..Len(store) + 1 : store' = InsertAt(store, k, e)
  /\ UNCHANGED <<tableVars, number, rowVars, fetch, pickVars, asking, op>>

DeletedElsewhere(e) ==
  /\ elsewhere < MaxChanges /\ elsewhere' = elsewhere + 1
  /\ e \in Range(store)
  /\ store' = Without(store, {e})
  /\ UNCHANGED <<tableVars, fresh, number, rowVars, fetch, pickVars, asking, op>>

Next ==
  \/ TickAll \/ Cancel \/ ConfirmBatch \/ ConfirmRow \/ SendAtOnce \/ Perform \/ Finish
  \/ Refocus \/ ReadList \/ ListAnswered \/ ListFailed
  \/ \E i \in 1..Cardinality(Entry) : Tick(i) \/ TurnPage(i)
  \/ \E e \in Entry : AskRow(e) \/ Created(e) \/ DeletedElsewhere(e)
  \/ \E kind \in Confirmed : AskBatch(kind)

Spec == Init /\ [][Next]_vars

-----------------------------------------------------------------------------
TypeOK ==
  /\ table \in Tables /\ admin \in BOOLEAN
  /\ {store, rows, fetch.list} \subseteq Seq(Entry) /\ IsInjective(store) /\ elsewhere \in 0..MaxChanges
  /\ fresh \subseteq Entry \ Range(store)
  /\ number \in Nat \ {0}
  /\ failing \in BOOLEAN /\ fetch.at \in {"no", "asked", "read"}
  /\ picked \subseteq Nat \ {0} /\ ticked \subseteq Entry /\ turned \in BOOLEAN
  /\ asking \in {"no"} \union Confirmed \union Entry
  /\ op \in [at : {"idle", "sent", "answered", "mutating"},
             kind : {"none", "run", "update"} \union Confirmed,
             ids : SUBSET Entry, row : BOOLEAN, done : BOOLEAN]

\* A batch that is sent hits what the user ticked and nothing else, unless other
\* entries came under the ticks by an answer or another page: nothing takes the
\* ticks away, not even after the ticked entries were deleted.
BatchIsWhatWasTicked ==
  [][ op.at = "idle" /\ op'.at = "sent" /\ ~op'.row /\ ~turned => op'.ids \subseteq ticked ]_vars

\* No operation is sent for no entry: a confirmation goes when the last entry under
\* a tick does.
BatchesAreNotEmpty == op.at = "sent" => op.ids # {}

\* A row's confirmation names an entry the page shows: the rows were not replaced
\* under it.
RowDialogsAreAboutTheirRow == asking \in Entry => asking \in Range(rows)

\* Of a paged list every page can be reached: the current one, if it exists, and
\* both ends have links, neighbours of the current one too, and from behind the
\* end (the last entries were deleted) a link leads back.
LinksLead(n, pages) ==
  LET links == PageNumbers(n, pages) IN
    /\ links \subseteq 1..pages /\ {1, pages} \subseteq links
    /\ n \in 1..pages => (n - 1)..(n + 1) \intersect 1..pages \subseteq links
    /\ \E m \in links : m # n \/ pages = 1
PagesAreReachable ==
  table.paged /\ fetch = NoFetch =>
    {} = {c \in (1..MaxPages + 2) \X (1..MaxPages) : ~LinksLead(c[1], c[2])}

\* When a delete or a block has ended, the page no longer shows what it took out:
\* no answer read before it is shown after it, unless the request failed and the
\* page keeps its rows.
TakenOutLeaves ==
  [][ op.at = "mutating" /\ op'.at = "idle" /\ op.done /\ ~failing' =>
        op.ids \intersect Range(rows') = {} ]_vars

\* What is asked, and where the page leads, is about the rows that are there.
DialogsFollowRows == BatchesAreNotEmpty /\ RowDialogsAreAboutTheirRow /\ PagesAreReachable

\* A batch hits the entries it was meant for, and shows that they are gone.
BatchesHit == BatchIsWhatWasTicked /\ TakenOutLeaves

\* Why it holds.  A confirmation about ticked rows is open only over ticked rows; ticks
\* are on what was ticked until rows are turned; what was taken out comes back neither
\* from the list nor by an answer that is still under way.
AskedIsTicked == asking \in Confirmed => picked \intersect 1..Len(rows) # {}

TicksAreMeant == ~turned => \A i \in picked \intersect 1..Len(rows) : rows[i] \in ticked

GoneStaysAway ==
  /\ IsInjective(rows) /\ IsInjective(fetch.list)
  /\ fresh \intersect (Range(rows) \union Range(fetch.list) \union op.ids) = {}
  /\ op.at \in {"answered", "mutating"} => op.ids \intersect Range(store) = {}
  /\ op.at = "mutating" => op.ids \intersect Range(fetch.list) = {}

TableIInv ==
  /\ TypeOK /\ AskedIsTicked /\ TicksAreMeant /\ GoneStaysAway
  /\ BatchesAreNotEmpty /\ RowDialogsAreAboutTheirRow
=============================================================================
