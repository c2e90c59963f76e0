------------------------------- MODULE MCAdmin --------------------------------
(* The admin pages for TLC: AdminSession, EditDialog, AdminTable,            *)
(* PublicNoteEditor and RuleEditor.  They share no state that a model of two *)
(* of them would tell apart; a behaviour is one of them, the others stay in  *)
(* one of their first states.                                                *)
EXTENDS AdminSession, Sequences

CONSTANTS Job, MaxChanges, MaxLoads, Entry, PageSize, MaxPages, MaxRules,
          MaxWaits

VARIABLES
  scene, \* which of them goes on
  field, groups, entry, by_form, changes, page, page_error, request, loading, opened, start, draft,
  shown, overtaken, job, applying,
  table, admin, store, fresh, elsewhere, number, rows, failing, fetch, picked, ticked, turned, asking, op,
  leaf, note, dialog, mode, raw, obj, meant, lossy, by,
  creates, shows, began, sent, awaited, rules, text, choices, shifted, touched, behind

dialogVars  == <<field, groups, entry, by_form, changes, page, page_error, request, loading, opened,
                 start, draft, shown, overtaken, job, applying>>
tableVars   == <<table, admin, store, fresh, elsewhere, number, rows, failing, fetch, picked, ticked,
                 turned, asking, op>>
noteVars    == <<leaf, note, dialog, mode, raw, obj, meant, lossy, by>>
rulesVars   == <<creates, shows, began, sent, awaited, rules, text, choices, shifted, touched, behind>>
adminVars   == <<scene, vars, dialogVars, tableVars, noteVars, rulesVars>>

Dialog  == INSTANCE EditDialog
List    == INSTANCE AdminTable
Notes   == INSTANCE PublicNoteEditor
Rules   == INSTANCE RuleEditor

ASSUME AdminAssumption ==
  SessionAssumption /\ Dialog!DialogAssumption /\ List!TableAssumption /\ Rules!RulesAssumption

AdminInit ==
  /\ scene \in {"session", "dialog", "table", "note", "rules"}
  /\ Init
  /\ scene = "session" \/ (cookie = NoUser /\ ~readable)
  /\ Dialog!Init
  /\ \/ scene = "dialog"
     \/ /\ ~groups
        /\ field = (CHOOSE f \in Dialog!Traits : TRUE)
        /\ entry = (CHOOSE v \in Dialog!Stored : TRUE)
  /\ List!Init
  \* elsewhere it makes no difference whose list it is
  /\ table.paged \/ "move" \in table.batch \/ ~admin
  /\ scene = "table" \/ (table = List!ServerTable /\ ~admin /\ store = <<>>)
  /\ Notes!Init
  /\ scene = "note" \/ (leaf = Notes!StartDate /\ note = Notes!NoNote)
  /\ Rules!Init
  /\ scene = "rules" \/ creates

AdminNext ==
  \/ /\ scene = "session" /\ Next
     /\ UNCHANGED <<scene, dialogVars, tableVars, noteVars, rulesVars>>
  \/ /\ scene = "dialog" /\ Dialog!Next
     /\ UNCHANGED <<scene, vars, tableVars, noteVars, rulesVars>>
  \/ /\ scene = "table" /\ List!Next
     /\ UNCHANGED <<scene, vars, dialogVars, noteVars, rulesVars>>
  \/ /\ scene = "note" /\ Notes!Next
     /\ UNCHANGED <<scene, vars, dialogVars, tableVars, rulesVars>>
  \/ /\ scene = "rules" /\ Rules!Next
     /\ UNCHANGED <<scene, vars, dialogVars, tableVars, noteVars>>

AdminSpec == AdminInit /\ [][AdminNext]_adminVars

\* Bound: a second submission of rules while one is under way is that of the card that
\* creates, whose rows could be sent again, and of one row.
SecondCreates == sent + awaited <= 1 \/ (creates /\ Len(rules) <= 1)

\* The variables of the five have their types: what is under way was sent with the
\* cookie, every kind of value has a codec, ticks are rows, notes fit their schema,
\* every rule has a row; and the invariants of each that its properties rest on hold.
\* What does not go on is in a first state, and needs no look.
AdminTypeOK ==
  CASE scene = "session" -> SessionIInv
    [] scene = "dialog" -> Dialog!DialogIInv
    [] scene = "table" -> List!TableIInv
    [] scene = "note" -> Notes!NoteIInv
    [] scene = "rules" -> Rules!RulesIInv

\* EditDialog, PublicNoteEditor and RuleEditor: a form accepts what it stored when it
\* is loaded into it again, and shows what it sends.
EditorsKeep == Dialog!DialogsKeep /\ Notes!FieldsDoNotLock /\ Rules!RowsAreRules

\* EditDialog: nothing is changed that was not meant, nothing meant is dropped.
EditsAreKept == Dialog!EditsAreKept

\* AdminTable: what is asked is about rows that are there; every page is reachable.
DialogsFollowRows == scene = "table" => List!DialogsFollowRows

\* AdminTable: a batch hits what was ticked, and shows that it is gone.
BatchesHit == List!BatchesHit

\* PublicNoteEditor and RuleEditor: what is stored is what was meant, and what was
\* left over from the last entry is not sent again by itself.
StoredIsMeant == Notes!StoredIsMeant /\ Rules!LastRowsWait
=============================================================================
