----------------------------- MODULE RuleEditor -----------------------------
(***************************************************************************)
(* The rules of an alert in its dialog: rows with an input per field, and  *)
(* the same rules as JSON in a text below.  What is sent is the text; an   *)
(* effect writes the rows into it whenever they change, and a text that is *)
(* a list replaces the rows.                                               *)
(* News that mount the card anew are EditDialog's matter, and end this     *)
(* card's life; a request that is refused leaves the dialog as it was.     *)
(* After a success the dialog closes, the list is awaited, and the form is *)
(* reset: under the rows, and under a dialog that was opened again.        *)
(*                                                                         *)
(* The choices in a row take a value when the row is mounted and keep a    *)
(* state of their own, and rows are known by their index.                  *)
(***************************************************************************)
EXTENDS Naturals, Sequences, SequencesExt

CONSTANTS
  MaxRules, \* bound: rows
  MaxWaits  \* bound: submissions under way at once

RulesAssumption == MaxRules \in Nat \ {0} /\ MaxWaits \in Nat \ {0}

VARIABLES
  creates, \* the card in the header, which creates
  shows,   \* the dialog is open
  began,   \* the rules the card was mounted with, of its form's defaultValues
  sent,    \* submissions that are not answered
  awaited, \* submissions whose list is awaited
  rules,   \* rulesUI
  text,    \* rules_raw
  choices, \* the choices shown in the rows: type, and unit of a cycle
  shifted, \* history: other rules came under the choices
  touched, \* history: the rules were changed since the last success
  behind   \* history: a row's form was reset, and its rules were not changed since

vars == <<creates, shows, began, sent, awaited, rules, text, choices, shifted, touched, behind>>

-----------------------------------------------------------------------------
\* The type, the unit of a cycle, and one value that stands for the threshold, the
\* duration, the cover, the servers and the other fields of a cycle.
Types == {"unset", "metric", "offline", "cycle"}
Units == {"absent", "hour", "month"}
Rule  == [type : Types, unit : Units, value : {"absent", "one"}]

\* Texts: the JSON of a list, other JSON, something else, or nothing.
Json(kind, list) == [kind |-> kind, list |-> list]
Same(list) == Json("list", list)

\* Lists that are typed.
Typed ==
  {<<>>} \union {<<r>> : r \in [type : {"metric", "cycle"}, unit : {"absent", "hour"}, value : {"one"}]}

\* The dashboard takes lists of rules with a type and, but for "offline", a threshold.
Valid(list) ==
  \A i \in DOMAIN list : list[i].type # "unset"
                         /\ (list[i].type # "offline" => list[i].value # "absent")

\* A cycle without a unit is shown as one of months.
Default(unit) == IF unit = "absent" THEN "month" ELSE unit

Unit(rule, was) ==
  IF rule.type # "cycle" THEN "none" ELSE IF was = "none" THEN Default(rule.unit) ELSE was

\* Mutant of Rendered: choices of rows that went stay.
RenderedLong(list, before) ==
  [i \in DOMAIN list \union DOMAIN before |->
     IF i \in DOMAIN before THEN before[i]
     ELSE [type |-> list[i].type, unit |-> Unit(list[i], "none")]]

\* The choices after a rendering: of rows that stay, and of new ones.
Rendered(list, before) ==
  [i \in DOMAIN list |->
     IF i \in DOMAIN before
     THEN [type |-> before[i].type, unit |-> Unit(list[i], before[i].unit)]
     ELSE [type |-> list[i].type, unit |-> Unit(list[i], "none")]]

\* setRulesUI, and the effect that follows.
SetRules(list, before) ==
  /\ rules' = list /\ text' = Same(list)
  /\ choices' = Rendered(list, before)
  /\ touched' = TRUE /\ behind' = FALSE

Init ==
  /\ creates \in BOOLEAN /\ shows = FALSE
  /\ began \in IF creates THEN {<<>>} ELSE {<<r>> : r \in {q \in Rule : Valid(<<q>>)}}
  /\ sent = 0 /\ awaited = 0 /\ rules = began /\ text = Same(rules)
  /\ choices = <<>> /\ shifted = FALSE /\ touched = FALSE /\ behind = FALSE

-----------------------------------------------------------------------------
(* The dialog *)

\* The rows are mounted when the dialog opens.
OpenRules ==
  /\ ~shows /\ shows' = TRUE
  /\ choices' = Rendered(rules, <<>>) /\ shifted' = FALSE
  /\ UNCHANGED <<creates, began, sent, awaited, rules, text, touched, behind>>

CloseRules ==
  /\ shows /\ shows' = FALSE
  /\ choices' = <<>> /\ shifted' = FALSE
  /\ UNCHANGED <<creates, began, sent, awaited, rules, text, touched, behind>>

\* Mutant of ChangeType: the row is taken from an earlier rendering.
ChangeTypeFirst(i, type) ==
  /\ shows /\ i \in DOMAIN rules /\ type # choices[i].type
  /\ SetRules([rules EXCEPT ![1].type = type], [choices EXCEPT ![i].type = type])
  /\ UNCHANGED <<creates, shows, began, sent, awaited, shifted>>

\* A choice tells when it changes what it shows.  Fields of a cycle go with it.
ChangeType(i, type) ==
  /\ shows /\ i \in DOMAIN rules /\ type # choices[i].type
  /\ SetRules([rules EXCEPT ![i].type = type,
                            ![i].unit = IF type = "cycle" THEN @ ELSE "absent"],
              [choices EXCEPT ![i].type = type])
  /\ UNCHANGED <<creates, shows, began, sent, awaited, shifted>>

\* Number inputs: empty is no value.
EnterNumber(i, value) ==
  /\ shows /\ i \in DOMAIN rules
  /\ SetRules([rules EXCEPT ![i].value = value], choices)
  /\ UNCHANGED <<creates, shows, began, sent, awaited, shifted>>

\* The cover and the servers, as JSON; what is no JSON changes nothing.
EnterServers(i, value) ==
  /\ shows /\ i \in DOMAIN rules
  /\ SetRules([rules EXCEPT ![i].value = IF value = "junk" THEN @ ELSE value], choices)
  /\ UNCHANGED <<creates, shows, began, sent, awaited, shifted>>

\* Start, interval and unit of a cycle.
EnterCycle(i, unit) ==
  /\ shows /\ i \in DOMAIN rules /\ rules[i].type = "cycle"
  /\ unit # choices[i].unit
  /\ SetRules([rules EXCEPT ![i].unit = unit], [choices EXCEPT ![i].unit = unit])
  /\ UNCHANGED <<creates, shows, began, sent, awaited, shifted>>

\* The last row goes, whichever rule does.
DeleteRule(i) ==
  /\ shows /\ i \in DOMAIN rules
  /\ SetRules(RemoveAt(rules, i), choices)
  /\ shifted' = (shifted \/ i < Len(rules))
  /\ UNCHANGED <<creates, shows, began, sent, awaited>>

AddRule ==
  /\ shows /\ Len(rules) < MaxRules
  /\ SetRules(Append(rules, [type |-> "unset", unit |-> "absent", value |-> "one"]), choices)
  /\ UNCHANGED <<creates, shows, began, sent, awaited, shifted>>

\* Mutant of EditText: the rows do not follow.
EditTextAlone(list) ==
  /\ shows
  /\ text' = Same(list) /\ touched' = TRUE
  /\ UNCHANGED <<creates, shows, began, sent, awaited, rules, choices, shifted, behind>>

EditText(list) ==
  /\ shows
  /\ SetRules(list, choices)
  /\ shifted' = TRUE
  /\ UNCHANGED <<creates, shows, began, sent, awaited>>

\* JSON that is no list, and what is no JSON, stay in the text.
EditOther(kind) ==
  /\ shows
  /\ text' = Json(kind, <<>>) /\ touched' = TRUE
  /\ UNCHANGED <<creates, shows, began, sent, awaited, rules, choices, shifted, behind>>

\* The text must be JSON.  When the dashboard has taken the rules the dialog closes;
\* rows and text stay.  Nothing disables the button while a submission is under way.
SubmitRules ==
  /\ shows /\ text.kind = "list" /\ Valid(text.list)
  /\ sent + awaited < MaxWaits /\ sent' = sent + 1
  /\ UNCHANGED <<creates, shows, began, awaited, rules, text, choices, shifted, touched, behind>>

RulesTaken ==
  /\ sent > 0 /\ sent' = sent - 1 /\ awaited' = awaited + 1
  /\ shows' = FALSE /\ choices' = <<>> /\ shifted' = FALSE /\ touched' = FALSE
  /\ UNCHANGED <<creates, began, rules, text, behind>>

RulesLost ==
  /\ sent > 0 /\ sent' = sent - 1
  /\ UNCHANGED <<creates, shows, began, awaited, rules, text, choices, shifted, touched, behind>>

\* Mutant of FormReset: the text of the rows.
FormResetRows == text' = Same(rules)

\* form.reset: to the text of the defaultValues, of the create card to none at all.
FormReset == text' = IF creates THEN Json("none", <<>>) ELSE Same(began)

\* The list came, without news for the card: whether the dialog is open or not, the
\* form is reset, and the rows stay.
ListAwaited ==
  /\ awaited > 0 /\ awaited' = awaited - 1
  /\ FormReset /\ behind' = ~creates
  /\ UNCHANGED <<creates, shows, began, sent, rules, choices, shifted, touched>>

Next ==
  \/ OpenRules \/ CloseRules \/ AddRule \/ SubmitRules \/ RulesTaken \/ RulesLost
  \/ ListAwaited
  \/ \E list \in Typed : EditText(list)
  \/ \E kind \in {"other", "junk"} : EditOther(kind)
  \/ \E i \in 1..MaxRules :
       \/ DeleteRule(i)
       \/ \E type \in Types \ {"unset"} : ChangeType(i, type)
       \/ \E value \in {"absent", "one"} : EnterNumber(i, value)
       \/ \E value \in {"absent", "one", "junk"} : EnterServers(i, value)
       \/ \E unit \in {"hour", "month"} : EnterCycle(i, unit)

Spec == Init /\ [][Next]_vars

-----------------------------------------------------------------------------
TypeOK ==
  /\ {creates, shows, shifted, touched, behind} \subseteq BOOLEAN
  /\ {sent, awaited} \subseteq 0..MaxWaits /\ sent + awaited <= MaxWaits /\ began \in Seq(Rule)
  /\ rules \in Seq(Rule) /\ Len(rules) <= MaxRules
  /\ text.kind \in {"list", "other", "junk", "none"} /\ text.list \in Seq(Rule)
  /\ choices \in Seq([type : Types, unit : {"none", "hour", "month"}])
  /\ shows => Len(choices) = Len(rules)

\* The two editors hold the same rules, whenever the text is a list: what is sent is
\* what the rows hold.  Only the reset that follows a submission parts them, under
\* rows that were changed: then the text is that of the rules the card began with,
\* until the rows are changed again.
EditorsAgree ==
  text.kind = "list" => text.list = rules \/ (behind /\ text.list = began)

\* The rows show the types and units of the rules, unless a rule was deleted above
\* them or the text was edited while the dialog was open: then the choices are
\* those of the rules that were there before.  A cycle whose unit was not chosen
\* shows months; the dashboard counts hours.
ChoicesAreRules ==
  \A i \in DOMAIN choices :
    \/ shifted
    \/ /\ choices[i].type = rules[i].type
       /\ rules[i].type = "cycle" =>
            choices[i].unit = rules[i].unit \/ (rules[i].unit = "absent" /\ choices[i].unit = "month")

\* The create dialog opens with the rows of the entry created last; once the form was
\* reset they are not sent again before one of the inputs was used.  While the list is
\* awaited the form still holds them, and sends them.
LastRowsWait ==
  [][ shows /\ SubmitRules /\ creates /\ awaited = 0 => touched \/ rules = <<>> ]_vars

\* The rows, their choices and the text are the same rules, but for the cases that
\* are named.
RowsAreRules == EditorsAgree /\ ChoicesAreRules

\* Why it holds.
RulesIInv ==
  /\ TypeOK /\ RowsAreRules
  /\ ~shows => choices = <<>>
  /\ ~shifted => \A i \in DOMAIN choices : rules[i].type # "cycle" => choices[i].unit = "none"
  /\ creates /\ ~touched /\ awaited = 0 => text.kind # "list" \/ rules = <<>>
=============================================================================
