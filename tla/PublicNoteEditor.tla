-------------------------- MODULE PublicNoteEditor --------------------------
(***************************************************************************)
(* The public note in the dialog of a server: one stored string with two   *)
(* editors, the text itself and a form for the fields of its JSON.  Each   *)
(* editor has a state of its own, and a click moves between them.          *)
(*                                                                         *)
(* One field of the note is followed, whichever it is.  Its value is       *)
(* "absent", "empty", one of two that stand for themselves, "plain" (a     *)
(* date not in the form the dialog writes), "never" (no expiry), "odd" (a  *)
(* string the field does not allow) or "wrong" (no string).                *)
(***************************************************************************)
VARIABLES
  leaf,   \* the field that is followed
  note,   \* the stored note, which the page was given
  dialog, \* the dialog is open
  mode,   \* "structured" or "raw"
  raw,    \* the text
  obj,    \* the fields
  meant,  \* history: the note the user's entries ask for
  lossy,  \* history: a change of the editor lost part of it
  by      \* history: who wrote the stored note: the dialog's "text", its "fields", "other"

vars == <<leaf, note, dialog, mode, raw, obj, meant, lossy, by>>

-----------------------------------------------------------------------------
(* The fields: what their inputs enter, what validatePublicNote refuses.    *)

Leaf(enters, refused, date) ==
  [enters |-> enters, refused |-> refused, date |-> date]

\* Clear and the calendar; the button of the end date toggles "no expiry".
StartDate == Leaf({"absent", "one", "two"}, {"odd"}, TRUE)
EndDate   == Leaf({"absent", "one", "two", "never", "empty"}, {"odd"}, TRUE)

\* The switch of the renewal, the choice of the cycle, the text of the amount.
BillingFields ==
  {Leaf({"absent", "one"}, {"odd"}, FALSE), Leaf({"absent", "one", "two"}, {"odd"}, FALSE),
   Leaf({"empty", "one", "two"}, {}, FALSE)}

\* Texts, the choice of the traffic type, the switches of IPv4 and IPv6.
PlanFields ==
  {Leaf({"empty", "one", "two"}, {}, FALSE), Leaf({"absent", "one", "two"}, {"odd"}, FALSE),
   Leaf({"one", "two"}, {"odd", "empty"}, FALSE)}

Leaves == {StartDate, EndDate} \union BillingFields \union PlanFields

\* toggleEndNoExpiry alone enters "never", and "empty" after it.
Enters(from) ==
  {v \in leaf.enters : v = "empty" /\ leaf.date => from = "never"}

-----------------------------------------------------------------------------
(* lib/public-note.ts *)

\* A text that is no JSON object, an object without the group of the field, or an
\* object with it; keys the schema does not know stand inside a group or beside.
Note(kind, value, unknown) == [kind |-> kind, value |-> value, unknown |-> unknown]
NoNote == Note("empty", "absent", "none")
Object(value, unknown) == Note("object", value, unknown)

Notes ==
  LET values == {"absent", "empty", "one", "two", "never", "odd", "wrong"}
                \union (IF leaf.date THEN {"plain"} ELSE {})
  IN {NoNote, Note("text", "absent", "none"), Note("bare", "absent", "none")}
     \union {Object(v, "none") : v \in values}
     \union {Object("one", u) : u \in {"nested", "top"}}

FitsSchema(n) == n.kind \in {"object", "bare"} /\ n.value # "wrong"

\* Mutant of Parse: an object is taken as it is.
ParseUnchecked(n) == [group |-> n.kind = "object", value |-> n.value]

\* parsePublicNote: what does not fit the schema is the empty note, unknown keys
\* are dropped.
Parse(n) ==
  [group |-> FitsSchema(n) /\ n.kind = "object",
   value |-> IF FitsSchema(n) THEN n.value ELSE "absent"]

\* detectPublicNoteMode: unknown keys beside the groups make it a text.
ModeOf(n) == IF FitsSchema(n) /\ n.unknown # "top" THEN "structured" ELSE "raw"

\* normalizeISO.
Normal(v) ==
  IF ~leaf.date THEN v
  ELSE CASE v = "empty" -> "absent" [] v = "plain" -> "one" [] OTHER -> v

Serial(o) == IF o.group THEN Object(Normal(o.value), "none") ELSE NoNote

\* The form's schema looks at the note the form was given, not at the editors.
FormTakes(n) == n.kind # "object" \/ n.value # "wrong"

-----------------------------------------------------------------------------
(* The dialog.  What other cards, late answers and errors do to an open dialog *)
(* is EditDialog's matter: here the page has the stored note.                  *)

\* Both editors start from the note; the fields may not hold all of it.
Start(n) == mode' = ModeOf(n) /\ raw' = n /\ obj' = Parse(n)
Lossless(n) == ModeOf(n) = "raw" \/ Serial(Parse(n)) = n

Closed == dialog' = FALSE /\ meant' = NoNote /\ lossy' = FALSE

Init ==
  /\ leaf \in Leaves
  /\ note \in Notes
  /\ mode = ModeOf(note) /\ raw = note /\ obj = Parse(note)
  /\ dialog = FALSE /\ meant = NoNote /\ lossy = FALSE /\ by = "other"

\* Mutant of OpenCard: the fields are not read again.
OpenCardKeeping ==
  /\ ~dialog /\ dialog' = TRUE
  /\ mode' = ModeOf(note) /\ raw' = note
  /\ meant' = note /\ lossy' = ~Lossless(note)
  /\ UNCHANGED <<leaf, note, obj, by>>

\* handleOpenChange.
OpenCard ==
  /\ ~dialog /\ dialog' = TRUE
  /\ Start(note)
  /\ meant' = note /\ lossy' = ~Lossless(note)
  /\ UNCHANGED <<leaf, note, by>>

CloseCard ==
  /\ dialog /\ Closed
  /\ UNCHANGED <<leaf, note, mode, raw, obj, by>>

\* "Custom fields" reads the text; "Raw text" shows the text as it was.
ToFields ==
  /\ dialog
  /\ mode' = "structured" /\ obj' = Parse(raw)
  /\ lossy' = (lossy \/ Serial(obj') # (IF mode = "raw" THEN raw ELSE Serial(obj)))
  /\ UNCHANGED <<leaf, note, dialog, raw, meant, by>>
ToText ==
  /\ dialog
  /\ mode' = "raw"
  /\ lossy' = (lossy \/ (mode = "structured" /\ Serial(obj) # raw))
  /\ UNCHANGED <<leaf, note, dialog, raw, obj, meant, by>>

EnterText(n) ==
  /\ dialog /\ mode = "raw"
  /\ raw' = n /\ meant' = n /\ lossy' = FALSE
  /\ UNCHANGED <<leaf, note, dialog, mode, obj, by>>

\* applyPublicNotePatch, applyPublicNoteDate: the group of the field is made.
EnterField(v) ==
  /\ dialog /\ mode = "structured" /\ v \in Enters(obj.value)
  /\ obj' = [group |-> TRUE, value |-> v]
  /\ meant' = Serial(obj')
  /\ UNCHANGED <<leaf, note, dialog, mode, raw, lossy, by>>

\* Mutant of Passes: the fields are sent as they are.
PassesFields == FormTakes(note)

\* What onSubmit sends, after the form's schema and the mode's own check.
Passes == FormTakes(note) /\ (mode = "structured" => obj.value \notin leaf.refused)
Sent   == IF mode = "raw" THEN raw ELSE Serial(obj)

\* updateServer succeeds: the dialog closes, the page fetches and its new rows
\* have new cards.
Submit ==
  /\ dialog /\ Passes
  /\ note' = Sent /\ by' = (IF mode = "raw" THEN "text" ELSE "fields")
  /\ Closed /\ Start(note')
  /\ UNCHANGED leaf

Next ==
  \/ OpenCard \/ CloseCard \/ ToFields \/ ToText \/ Submit
  \/ \E n \in Notes : EnterText(n)
  \/ \E v \in leaf.enters : EnterField(v)

Spec == Init /\ [][Next]_vars

-----------------------------------------------------------------------------
TypeOK ==
  /\ \A n \in {note, raw, meant} :
       n.kind \in {"empty", "text", "bare", "object"} /\ n.unknown \in {"none", "nested", "top"}
  /\ mode \in {"structured", "raw"}
  /\ obj.group \in BOOLEAN /\ obj.value # "wrong"
  /\ {dialog, lossy} \subseteq BOOLEAN /\ by \in {"text", "fields", "other"}

\* A note that the fields stored opens in the fields again and can be submitted
\* again; only a note written as a text, or elsewhere, can lock the card of its
\* server, whose schema refuses a note that it does not show as its error and that
\* the dialog cannot replace.
FieldsDoNotLock ==
  by = "fields" =>
    /\ FormTakes(note)
    /\ note # NoNote => ModeOf(note) = "structured" /\ Parse(note).value \notin leaf.refused

\* What is stored is what was last entered, or the note the dialog was opened with,
\* unless the fields could not hold all of it or the editor was changed over
\* entries that the other one does not know.
StoredIsMeant ==
  [][ dialog /\ Submit => note' = meant \/ lossy ]_vars

\* Why it holds: what would be sent is what was meant, until an editor lost part of it.
NoteIInv ==
  /\ TypeOK /\ leaf \in Leaves /\ FieldsDoNotLock
  /\ dialog /\ ~lossy => Sent = meant
=============================================================================
