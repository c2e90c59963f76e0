----------------------------- MODULE EditDialog -----------------------------
(***************************************************************************)
(* One field of one form of the admin pages, from the stored entry to the  *)
(* page that shows it, the form's draft and back.                          *)
(*                                                                         *)
(* The page holds an answer of the list request.  Its columns are made     *)
(* anew whenever it renders, so a new answer, an error of the request, the *)
(* groups it shows beside, or a ticked row replaces every card in the      *)
(* rows: an open dialog closes and its draft is gone.  A card in the       *)
(* header stays.  Requests that were sent go on, and act on the card they  *)
(* came from if it is still there.                                         *)
(***************************************************************************)
EXTENDS FormFields, Naturals, Sequences

CONSTANTS
  Job,        \* submissions that may be under way at once
  MaxChanges, \* bound: changes made elsewhere
  MaxLoads    \* bound: submissions handed to the agent and not applied yet

DialogAssumption == MaxChanges \in Nat /\ MaxLoads \in Nat

VARIABLES
  field,      \* which field: where its form stands, check, codec, input
  entry,      \* the stored value
  by_form,    \* history: this form wrote the stored value
  changes,    \* changes made elsewhere so far
  page,       \* the value the page, or the dialog that asks, was last given
  page_error, \* the last answer was an error
  request,    \* the request for it: "no", "asked" or the value it will bring
  loading,    \* the dialog that asks has no answer yet
  groups,     \* the groups that the page shows beside are still to come
  opened,     \* the dialog is open
  start,      \* the values the form resets to
  draft,      \* the form's values
  shown,      \* what the input shows
  overtaken,  \* history: a reset changed the draft under an open dialog
  job,        \* the submissions
  applying    \* configurations handed to the agent

pageVars == <<page, page_error, request, loading>>
cardVars == <<opened, start, draft, shown, overtaken>>
vars == <<field, groups, entry, by_form, changes, pageVars, cardVars, job, applying>>

Row    == field.place = "row"
Header == field.place = "header"
Server == field.place = "server"
Page   == field.place = "page"
Ask    == field.place = "ask"
InTable == Row \/ Server

\* The pages of the servers and of the notifiers take groups from a context, which
\* fetches them after the first rendering.
Grouped == Server \/ \E x \in DOMAIN NotifierForm.checks : field = Trait(NotifierForm, "row", x)

\* These take a defaultValue when they are mounted and keep a state of their own.
KeepsItself == field.input \in {"select", "multi", "combo"}

Accepts(d) == d \notin Refused[field.check]

\* What can be entered.
Typed ==
  CASE field.input = "number" -> {"none", "one", "two", "odd"}
    [] field.input = "checkbox" -> {"none", "one"}
    [] field.input \in {"select", "chosen"} -> {"one", "two"}
    [] field.input \in {"multi", "combo"} -> {"none", "one", "two"}
    [] OTHER -> {"none", "one", "two"}
         \union (IF field.codec \in {"numbers", "names"} \/ field.check \in {"url", "optional_url", "json"}
                 THEN {"junk"} ELSE {})
         \union (IF field.codec = "shape" \/ field.check = "least" THEN {"odd"} ELSE {})

\* Mutant of Kept: a choice that was not made is stored as 0.
KeptZero(d) == IF field.check = "optional_least" /\ d = "none" THEN "odd" ELSE d

\* Mutant of Kept: what is no number stays in the list.
KeptRaw(d) == d

\* What the store or the agent holds after the values were sent: numbers that are
\* none are sent as null and left out, empty parts of a list of names too; JSON of
\* another shape is stored and read back as nothing.
Kept(d) ==
  CASE field.codec \in {"numbers", "names"} /\ d = "junk" -> "one"
    [] field.codec = "shape" /\ d = "odd" -> "none"
    [] field.codec = "merged" /\ d = "none" -> entry
    [] field.codec = "merged_keys" /\ (d = "none" \/ entry = "two") -> entry
    [] OTHER -> d

Stored ==
  CASE field.check = "filled" -> {"one", "two"}
    [] field.check = "flag" -> {"none", "one"}
    [] StoredOdd(field.check, field.codec) -> {"none", "one", "two", "odd"}
    [] OTHER -> {"none", "one", "two"}

\* A form that creates starts with the least value where a choice must be made.
Blank == IF field.check = "least" /\ field.input # "text" THEN "one" ELSE "none"

\* from is the page's value under a draft that was not touched.
Idle == [at |-> "idle", value |-> "none", from |-> "touched", mounted |-> FALSE]

Init ==
  /\ field \in Traits
  /\ entry \in Stored /\ by_form = FALSE /\ changes = 0
  /\ page = (IF InTable THEN entry ELSE "unread")
  /\ page_error = FALSE
  /\ groups \in BOOLEAN /\ (groups => Grouped)
  /\ request = (IF Page THEN "asked" ELSE "no")
  /\ loading = Ask
  /\ opened = Page
  /\ start = (IF InTable THEN Load(field.codec, entry) ELSE Blank)
  /\ draft = start /\ shown = start /\ overtaken = FALSE
  /\ job = [j \in Job |-> Idle]
  /\ applying = <<>>

-----------------------------------------------------------------------------
(* The card *)

\* form.reset under an input: one that keeps a state of its own does not follow.
Reset(v) ==
  /\ draft' = v
  /\ shown' = IF opened /\ KeepsItself THEN shown ELSE v
  /\ overtaken' = (overtaken \/ (opened /\ KeepsItself /\ shown # v))

\* The card is made anew from the page: closed, its submissions on their own.
Remount(v) ==
  /\ opened' = FALSE /\ overtaken' = FALSE
  /\ start' = v /\ draft' = v /\ shown' = v

Orphaned == [j \in Job |-> [job[j] EXCEPT !.mounted = FALSE]]

\* Mutant of OpenDialog: the content stays mounted while the dialog is closed.
OpenDialogMounted ==
  /\ ~opened
  /\ Ask => request = "no"
  /\ opened' = TRUE
  /\ draft' = IF Server THEN Load(field.codec, page) ELSE draft
  /\ start' = IF Server THEN draft' ELSE start
  /\ request' = IF Ask THEN "asked" ELSE request
  /\ UNCHANGED <<field, groups, entry, by_form, changes, page, page_error, loading, shown, overtaken,
                 job, applying>>

\* The content of a closed dialog is not mounted: inputs start from the draft.  The
\* server's card resets its form first; the dialog that asks sends its request.
OpenDialog ==
  /\ ~opened
  /\ Ask => request = "no"
  /\ opened' = TRUE /\ overtaken' = FALSE
  /\ draft' = IF Server THEN Load(field.codec, page) ELSE draft
  /\ start' = IF Server THEN draft' ELSE start
  /\ shown' = draft'
  /\ request' = IF Ask THEN "asked" ELSE request
  /\ UNCHANGED <<field, groups, entry, by_form, changes, page, page_error, loading, job, applying>>

\* The draft stays in the form.
CloseDialog ==
  /\ opened /\ ~Page
  /\ opened' = FALSE
  /\ UNCHANGED <<field, groups, entry, by_form, changes, pageVars, start, draft, shown, overtaken,
                 job, applying>>

Edit(v) ==
  /\ opened /\ ~loading
  /\ v \in Typed /\ v # shown
  /\ draft' = v /\ shown' = v
  /\ UNCHANGED <<field, groups, entry, by_form, changes, pageVars, opened, start, overtaken, job, applying>>

\* A row is ticked, or the first or the last row of the selection: the rows'
\* cards, or the header's, are made anew.  An open dialog keeps the mouse to itself.
Tick ==
  /\ ~opened /\ ~Ask
  /\ draft # start \/ \E j \in Job : job[j].mounted
  /\ Remount(IF Header THEN Blank ELSE Load(field.codec, page))
  /\ job' = Orphaned
  /\ UNCHANGED <<field, groups, entry, by_form, changes, pageVars, applying>>

-----------------------------------------------------------------------------
(* onSubmit *)

\* The values pass the schema, are converted and sent.  Nothing disables the
\* button while an earlier submission is under way.
Press(j) ==
  /\ opened /\ ~loading
  /\ Accepts(draft)
  /\ job[j].at = "idle"
  /\ job' = [job EXCEPT ![j] = [at |-> "sent", value |-> draft,
                                from |-> IF draft = start THEN page ELSE "touched",
                                mounted |-> TRUE]]
  /\ UNCHANGED <<field, groups, entry, by_form, changes, pageVars, cardVars, applying>>

\* The answer is under way; it says no more than whether it went well.
Landed(j) ==
  job' = [job EXCEPT ![j] = [Idle EXCEPT !.at = "landed", !.mounted = job[j].mounted]]
Failed(j) == job' = [job EXCEPT ![j] = Idle]

\* updateX or createX at the dashboard; a header's entry is the one created.  The
\* answer may still be lost: a toast, the draft stays.
Land(j) ==
  /\ ~Ask /\ job[j].at = "sent"
  /\ Landed(j) \/ Failed(j)
  /\ entry' = Kept(job[j].value)
  /\ by_form' = (by_form \/ entry' # entry)
  /\ UNCHANGED <<field, groups, changes, pageVars, cardVars, applying>>

Fail(j) ==
  /\ job[j].at = "sent"
  /\ Failed(j)
  /\ UNCHANGED <<field, groups, entry, by_form, changes, pageVars, cardVars, applying>>

\* setServerConfig answers when the task was dispatched, or stored ...
Dispatch(j) ==
  /\ Ask /\ Len(applying) < MaxLoads
  /\ job[j].at = "sent" /\ Landed(j)
  /\ applying' = Append(applying, [job[j] EXCEPT !.mounted = FALSE])
  /\ UNCHANGED <<field, groups, entry, by_form, changes, pageVars, cardVars>>

\* ... the agent applies it, or refuses it to itself.
AgentApplies ==
  /\ applying # <<>>
  /\ applying' = Tail(applying)
  /\ entry' \in {Kept(Head(applying).value), entry}
  /\ by_form' = (by_form \/ entry' # entry)
  /\ UNCHANGED <<field, groups, changes, pageVars, cardVars, job>>

\* The dialog is told, closes and asks the page to fetch; a card that was replaced
\* meanwhile sets its own, forgotten state.  The settings page resets to what it
\* had before it fetches.
Succeed(j) ==
  /\ job[j].at = "landed"
  /\ job' = [job EXCEPT ![j] = IF InTable \/ Header THEN [@ EXCEPT !.at = "mutating"] ELSE Idle]
  /\ opened' = (opened /\ (Page \/ ~job[j].mounted))
  /\ IF (Page \/ Ask) /\ job[j].mounted
     THEN /\ draft' = start
          /\ shown' = IF Page /\ KeepsItself THEN shown ELSE start
          /\ overtaken' = (Page /\ (overtaken \/ (KeepsItself /\ shown # start)))
     ELSE UNCHANGED <<draft, shown, overtaken>>
  /\ request' = IF Ask THEN request ELSE "asked"
  /\ UNCHANGED <<field, groups, entry, by_form, changes, page, page_error, loading, start, applying>>

-----------------------------------------------------------------------------
(* The page's request *)

\* The window gets the focus or the network comes back (not on the server page),
\* or an error is tried again.
Revalidate ==
  /\ Row \/ Page \/ page_error
  /\ request = "no"
  /\ request' = "asked"
  /\ UNCHANGED <<field, groups, entry, by_form, changes, page, page_error, loading, cardVars, job, applying>>

ReadEntry ==
  /\ request = "asked"
  /\ request' = entry
  /\ UNCHANGED <<field, groups, entry, by_form, changes, page, page_error, loading, cardVars, job, applying>>

Waiting(j) == job[j].at = "mutating"
Settled == [j \in Job |-> IF Waiting(j) THEN Idle ELSE job[j]]

\* Mutant of RowsAnswered: the cards survive a render.
RowsAnsweredKeeping(v, failed) ==
  /\ job' = Settled
  /\ UNCHANGED cardVars

\* Mutant of RowsAnswered: every answer renders the rows again.
RowsAnsweredAlways(v, failed) ==
  /\ Remount(Load(field.codec, v))
  /\ job' = [j \in Job |-> IF Waiting(j) THEN Idle ELSE Orphaned[j]]

\* The rows are rendered again if the data or the error changed; otherwise the
\* cards whose submissions waited for it are reset.
RowsAnswered(v, failed) ==
  IF v # page \/ failed # page_error \/ failed
  THEN /\ Remount(Load(field.codec, v))
       /\ job' = [j \in Job |-> IF Waiting(j) THEN Idle ELSE Orphaned[j]]
  ELSE /\ job' = Settled
       /\ IF \E j \in Job : Waiting(j) /\ job[j].mounted
          THEN Reset(start) /\ UNCHANGED <<opened, start>>
          ELSE UNCHANGED cardVars

HeaderAnswered ==
  /\ job' = Settled
  /\ IF \E j \in Job : Waiting(j) /\ job[j].mounted
     THEN Reset(start) /\ UNCHANGED <<opened, start>>
     ELSE UNCHANGED cardVars

Answered ==
  /\ request \in Value
  /\ request' = "no"
  /\ page_error' = FALSE /\ loading' = FALSE
  /\ page' = IF Header THEN page ELSE request
  /\ CASE InTable -> RowsAnswered(request, FALSE)
       [] Header -> HeaderAnswered
       \* the effect on a configuration that changed; a dialog that asked always
       \* gets a new object
       [] OTHER ->
            /\ job' = Settled
            /\ IF Ask \/ request # page
               THEN /\ start' = Load(field.codec, request)
                    /\ Reset(start')
                    /\ UNCHANGED opened
               ELSE UNCHANGED cardVars
  /\ UNCHANGED <<field, groups, entry, by_form, changes, applying>>

RequestFailed ==
  /\ request \in Value \union {"asked"}
  /\ request' = "no"
  /\ page_error' = InTable /\ loading' = FALSE
  /\ CASE InTable -> RowsAnswered(page, TRUE)
       [] Header -> HeaderAnswered
       [] OTHER -> /\ job' = Settled
                   /\ opened' = (opened /\ Page)
                   /\ UNCHANGED <<start, draft, shown, overtaken>>
  /\ UNCHANGED <<field, groups, entry, by_form, changes, page, applying>>

\* The groups came, or their error: the rows are rendered again, but for an error
\* where there were none.
GroupsAnswered ==
  /\ groups /\ groups' = FALSE
  /\ \/ Remount(Load(field.codec, page)) /\ job' = Orphaned
     \/ UNCHANGED <<cardVars, job>>
  /\ UNCHANGED <<field, entry, by_form, changes, pageVars, applying>>

\* Another admin, another page, an API client.
ChangeElsewhere ==
  /\ changes < MaxChanges
  /\ changes' = changes + 1
  /\ \E v \in Stored \ {entry} : entry' = v
  /\ by_form' = FALSE
  /\ UNCHANGED <<field, groups, pageVars, cardVars, job, applying>>

Next ==
  \/ OpenDialog \/ CloseDialog \/ Tick \/ Revalidate \/ ReadEntry \/ Answered
  \/ RequestFailed \/ GroupsAnswered \/ ChangeElsewhere \/ AgentApplies
  \/ \E v \in Value : Edit(v)
  \/ \E j \in Job : \/ Press(j) \/ Land(j) \/ Fail(j) \/ Dispatch(j) \/ Succeed(j)

Spec == Init /\ [][Next]_vars

-----------------------------------------------------------------------------
JobAt == {"idle", "sent", "landed", "mutating"}
JobType ==
  [at : JobAt, value : Value, from : Value \union {"unread", "touched"},
   mounted : BOOLEAN]

TypeOK ==
  /\ field \in Traits
  /\ entry \in Stored /\ by_form \in BOOLEAN /\ changes \in 0..MaxChanges
  /\ page \in Stored \union {"unread"} /\ page_error \in BOOLEAN /\ loading \in BOOLEAN
  /\ request \in Stored \union {"no", "asked"}
  /\ groups \in BOOLEAN /\ (groups => InTable)
  /\ opened \in BOOLEAN /\ overtaken \in BOOLEAN
  /\ {start, draft, shown} \subseteq Value
  /\ job \in [Job -> JobType]
  /\ applying \in Seq(JobType) /\ Len(applying) <= MaxLoads

\* What a form stored, the same form accepts when it is loaded into it again: no
\* entry is locked by its own dialog.
OwnValuesAreAccepted == by_form => Accepts(Load(field.codec, entry))

\* What an open dialog shows is what it sends, unless a reset, of the submission
\* before or of a late answer, changed the draft under an input with a state of
\* its own.
ShownIsSent ==
  opened /\ shown # draft => KeepsItself /\ overtaken

\* A submission in which nothing was entered changes the entry only where the page
\* had not been given the value it overwrites, or where a FALSE flag becomes TRUE.
Landing(j) == job[j].at = "sent" /\ job'[j].at # "sent" /\ ~Ask
Overwrites(s) ==
  entry' # entry /\ s.from # "touched" =>
    s.from # entry \/ (field.codec = "flags" /\ entry = "odd")
UntouchedKeeps ==
  [][ /\ \A j \in Job : Landing(j) /\ ~Header => Overwrites(job[j])
      /\ AgentApplies => Overwrites(Head(applying)) ]_vars

\* An open dialog loses what was entered only to its user, to news (other data, an
\* error that comes or goes), to the groups the page fetches when it was opened, to
\* the end of a submission of its own, or, where it asks for the values, to their
\* late arrival.
Lost == opened /\ draft # start /\ ~(opened' /\ draft' = draft)
DraftsGoWithNews ==
  [][ Lost =>
        \/ CloseDialog \/ \E v \in Value : Edit(v)
        \/ page' # page \/ page_error' # page_error \/ (page_error /\ page_error')
        \/ groups /\ ~groups'
        \/ \E j \in Job : job[j].mounted /\ job[j].at # "idle" /\ job'[j].at # job[j].at
        \/ Ask /\ request # "no" /\ request' = "no" ]_vars

\* A dialog keeps what its form stores and shows what it sends.
DialogsKeep == OwnValuesAreAccepted /\ ShownIsSent

\* Nothing is changed that was not meant, and nothing meant is dropped, but for
\* the reasons that are named.
EditsAreKept == UntouchedKeeps /\ DraftsGoWithNews

\* Why it holds.  A draft was typed, or the form was loaded with it; an untouched one is
\* what the page was last given, and that is so of every submission until it lands.
Drafts == Typed \union {Load(field.codec, v) : v \in Stored} \union {Blank}

Sendable(s) ==
  /\ s.value \in Drafts /\ Accepts(s.value)
  /\ s.from \notin {"touched", "unread"} => s.value = Load(field.codec, s.from)

StartIsOfThePage ==
  /\ {start, draft} \subseteq Drafts
  /\ Header => page = "unread"
  /\ InTable => page # "unread"
  /\ ~Header /\ page # "unread" => start = Load(field.codec, page)
  /\ Page => opened

SubmissionsAreSendable ==
  /\ \A j \in Job : job[j].at = "sent" => Sendable(job[j])
  /\ \A i \in 1..Len(applying) : Sendable(applying[i])

DialogIInv == TypeOK /\ DialogsKeep /\ StartIsOfThePage /\ SubmissionsAreSendable
=============================================================================
