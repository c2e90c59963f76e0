----------------------------- MODULE AdminProofs ------------------------------
(***************************************************************************)
(* Proofs about the admin pages.  AdminSession, for any users and any      *)
(* lifetime of a token: the pages are those of the cookie.  EditDialog,    *)
(* for any submissions and changes elsewhere, AdminTable, for any entries  *)
(* and sizes of pages, PublicNoteEditor and RuleEditor, for any rules:     *)
(* what is sent is what was meant, and what is asked is about the rows     *)
(* shown.                                                                  *)
(***************************************************************************)
EXTENDS MCAdmin, FiniteSetTheorems, SequenceTheorems, WellFoundedInduction,
        TLAPS

-----------------------------------------------------------------------------
(* AdminSession *)

\* A tab that is opened has no request under way.
LEMMA SessionInit == SessionAssumption /\ Init => SessionIInv
<1> SUFFICES ASSUME SessionAssumption, Init PROVE SessionIInv
  OBVIOUS
<1> USE DEF SessionAssumption, Caller, NoCall, Long
<1>1. TypeOK
  <2>1. /\ [at |-> "profile", user |-> cookie] \in [at : {"no", "login", "profile"},
                                                    user : User \union {NoUser}]
        /\ NoCall \in [at : {"no", "login", "profile"}, user : User \union {NoUser}]
    BY DEF Init
  <2>2. call \in [Caller -> [at : {"no", "login", "profile"}, user : User \union {NoUser}]]
    BY <2>1 DEF Init
  <2>3. /\ {cookie, refresh, profile} \subseteq User \union {NoUser}
        /\ age \in 0..Timeout - 1 /\ since \in 0..Long
        /\ path \in {"login", "pages"} /\ (path = "pages" => profile # NoUser)
    BY DEF Init
  <2>4. {readable, crossed} \subseteq BOOLEAN
    BY DEF Init
  <2> QED BY <2>2, <2>3, <2>4 DEF TypeOK
<1>2. CallsAreWhole
  BY DEF Init, CallsAreWhole
<1>3. SentWithTheCookie
  BY DEF Init, SentWithTheCookie
<1> QED BY <1>1, <1>2, <1>3 DEF SessionIInv

\* Every step keeps the types, and a request's stages and their contents together.
LEMMA SessionTypeStep ==
  ASSUME SessionAssumption, TypeOK, CallsAreWhole, [Next]_vars
  PROVE  TypeOK' /\ CallsAreWhole'
<1> USE DEF SessionAssumption, TypeOK, CallsAreWhole, Caller, NoCall, Token, Fetched, Show,
            Long
<1>1. CASE UsePages
  BY <1>1 DEF UsePages
<1>2. CASE Refreshed
  BY <1>2 DEF Refreshed
<1>3. CASE RefreshLost
  BY <1>3 DEF RefreshLost
<1>4. CASE Tick
  <2>1. /\ {cookie', refresh', profile'} \subseteq User \union {NoUser}
        /\ age' \in 0..Timeout - 1 /\ since' \in 0..Long
    BY <1>4 DEF Tick
  <2>2. {readable', crossed'} \subseteq BOOLEAN
    BY <1>4 DEF Tick
  <2>3. path' = path /\ profile' = profile /\ call' = call
    BY <1>4 DEF Tick
  <2> QED BY <2>1, <2>2, <2>3
<1>5. CASE Reload
  <2>1. /\ [at |-> "profile", user |-> cookie] \in [at : {"no", "login", "profile"},
                                                    user : User \union {NoUser}]
        /\ [at |-> "no", user |-> NoUser] \in [at : {"no", "login", "profile"},
                                               user : User \union {NoUser}]
    OBVIOUS
  <2>2. call' \in [Caller -> [at : {"no", "login", "profile"}, user : User \union {NoUser}]]
    BY <1>5, <2>1 DEF Reload
  <2>3. CallsAreWhole'
    BY <1>5 DEF Reload
  <2>4. {readable', crossed'} \subseteq BOOLEAN
    BY <1>5 DEF Reload
  <2>5. /\ {cookie', refresh', profile'} \subseteq User \union {NoUser}
        /\ age' \in 0..Timeout - 1 /\ since' \in 0..Long
        /\ path' = path /\ profile' = profile
    BY <1>5 DEF Reload
  <2> QED BY <2>2, <2>3, <2>4, <2>5
<1>6. CASE LoginTaken
  BY <1>6 DEF LoginTaken
<1>7. CASE AskProfile
  BY <1>7 DEF AskProfile
<1>8. CASE LogOut
  BY <1>8 DEF LogOut
<1>9. ASSUME NEW u \in User, LogIn(u) PROVE TypeOK' /\ CallsAreWhole'
  BY <1>9 DEF LogIn
<1>10. ASSUME NEW u \in User, OtherTab(u) PROVE TypeOK' /\ CallsAreWhole'
  BY <1>10 DEF OtherTab
<1>11. ASSUME NEW c \in Caller, ProfileAnswered(c) PROVE TypeOK' /\ CallsAreWhole'
  <2>1. call[c].user \in User /\ call[c].user # NoUser
    BY <1>11 DEF ProfileAnswered
  <2>2. call' \in [Caller -> [at : {"no", "login", "profile"}, user : User \union {NoUser}]]
    BY <1>11 DEF ProfileAnswered
  <2>3. CallsAreWhole'
    BY <1>11 DEF ProfileAnswered
  <2>4. {readable', crossed'} \subseteq BOOLEAN
    BY <1>11 DEF ProfileAnswered
  <2>5. {refresh'} \subseteq User \union {NoUser} /\ since' \in 0..Long
    BY <1>11 DEF ProfileAnswered
  <2>6. /\ profile' = call[c].user /\ path' \in {"login", "pages"}
        /\ cookie' = cookie /\ age' = age
    BY <1>11 DEF ProfileAnswered
  <2> QED BY <2>1, <2>2, <2>3, <2>4, <2>5, <2>6
<1>12. ASSUME NEW c \in Caller, ProfileFailed(c) PROVE TypeOK' /\ CallsAreWhole'
  BY <1>12 DEF ProfileFailed
<1>13. ASSUME NEW p \in {"login", "pages"}, Navigate(p) PROVE TypeOK' /\ CallsAreWhole'
  BY <1>13 DEF Navigate
<1>14. CASE UNCHANGED vars
  BY <1>14 DEF vars
<1> QED BY <1>1, <1>2, <1>3, <1>4, <1>5, <1>6, <1>7, <1>8, <1>9, <1>10, <1>11, <1>12,
           <1>13, <1>14 DEF Next

\* Requests carry the present cookie's user, unless the cookie changed under them.
LEMMA SentStep ==
  ASSUME SessionAssumption, SessionIInv, [Next]_vars
  PROVE  SentWithTheCookie'
<1>0. TypeOK /\ CallsAreWhole /\ SentWithTheCookie
  BY DEF SessionIInv
<1> USE DEF SessionAssumption, TypeOK, CallsAreWhole, SentWithTheCookie, Caller, NoCall,
            Token, Fetched, Show
<1>1. CASE UsePages
  BY <1>0, <1>1 DEF UsePages
<1>2. CASE Refreshed
  BY <1>0, <1>2 DEF Refreshed
<1>3. CASE RefreshLost
  BY <1>0, <1>3 DEF RefreshLost
<1>4. CASE Tick
  BY <1>0, <1>4 DEF Tick
<1>5. CASE Reload
  BY <1>0, <1>5 DEF Reload
<1>6. CASE LoginTaken
  BY <1>0, <1>6 DEF LoginTaken
<1>7. CASE AskProfile
  BY <1>0, <1>7 DEF AskProfile
<1>8. CASE LogOut
  BY <1>0, <1>8 DEF LogOut
<1>9. ASSUME NEW u \in User, LogIn(u) PROVE SentWithTheCookie'
  BY <1>0, <1>9 DEF LogIn
<1>10. ASSUME NEW u \in User, OtherTab(u) PROVE SentWithTheCookie'
  BY <1>0, <1>10 DEF OtherTab
<1>11. ASSUME NEW c \in Caller, ProfileAnswered(c) PROVE SentWithTheCookie'
  BY <1>0, <1>11 DEF ProfileAnswered
<1>12. ASSUME NEW c \in Caller, ProfileFailed(c) PROVE SentWithTheCookie'
  BY <1>0, <1>12 DEF ProfileFailed
<1>13. ASSUME NEW p \in {"login", "pages"}, Navigate(p) PROVE SentWithTheCookie'
  BY <1>0, <1>13 DEF Navigate
<1>14. CASE UNCHANGED vars
  BY <1>0, <1>14 DEF vars
<1> QED BY <1>1, <1>2, <1>3, <1>4, <1>5, <1>6, <1>7, <1>8, <1>9, <1>10, <1>11, <1>12,
           <1>13, <1>14 DEF Next

\* Every step of the tab, of the dashboard and of other tabs keeps the invariant.
LEMMA SessionStep == SessionAssumption /\ SessionIInv /\ [Next]_vars => SessionIInv'
  BY SessionTypeStep, SentStep DEF SessionIInv

\* useAuth keeps tab and cookie together: when nothing is under way the profile shown
\* is that of the cookie's user, but for the changes of the cookie the module names.
THEOREM ProfileFollowsTheCookie ==
  ASSUME SessionAssumption PROVE Spec => []ProfileIsOfTheCookie
<1>1. Init => SessionIInv
  BY SessionInit
<1>2. SessionIInv /\ [Next]_vars => SessionIInv'
  BY SessionStep
<1>3. SessionIInv => ProfileIsOfTheCookie
  BY DEF SessionIInv, SentWithTheCookie, ProfileIsOfTheCookie, Quiet, Caller
<1> QED BY <1>1, <1>2, <1>3, PTL DEF Spec

-----------------------------------------------------------------------------
(* PublicNoteEditor *)

\* One field is followed; a date refuses "odd" alone, and no input enters what is no string.
LEMMA LeafFacts ==
  ASSUME NEW l \in Notes!Leaves
  PROVE  /\ l.date => l.refused = {"odd"}
         /\ "wrong" \notin l.enters
BY DEF Notes!Leaves, Notes!StartDate, Notes!EndDate, Notes!BillingFields, Notes!PlanFields,
       Notes!Leaf

\* What parsing makes of any note are fields that can be built again.
LEMMA ParseFacts ==
  /\ \A n : Notes!Parse(n).group \in BOOLEAN /\ Notes!Parse(n).value # "wrong"
  /\ \A n : Notes!ModeOf(n) \in {"structured", "raw"}
  /\ Notes!NoNote.kind = "empty" /\ Notes!NoNote.unknown = "none"
BY DEF Notes!Parse, Notes!FitsSchema, Notes!ModeOf, Notes!NoNote, Notes!Note

\* An editor that was not opened has the empty note.
LEMMA NoteInit == Notes!Init => Notes!NoteIInv
<1> SUFFICES ASSUME Notes!Init PROVE Notes!NoteIInv
  OBVIOUS
<1>1. note.kind \in {"empty", "text", "bare", "object"} /\ note.unknown \in {"none", "nested", "top"}
  BY DEF Notes!Init, Notes!Notes, Notes!NoNote, Notes!Note, Notes!Object
<1>2. Notes!TypeOK
  BY <1>1, ParseFacts DEF Notes!Init, Notes!TypeOK
<1> QED BY <1>2 DEF Notes!Init, Notes!NoteIInv, Notes!FieldsDoNotLock

\* Every step of the note editor keeps its invariant.
LEMMA NoteStep == Notes!NoteIInv /\ [Notes!Next]_noteVars => Notes!NoteIInv'
<1> SUFFICES ASSUME Notes!NoteIInv, [Notes!Next]_noteVars PROVE Notes!NoteIInv'
  OBVIOUS
<1>0. Notes!TypeOK /\ leaf \in Notes!Leaves /\ Notes!FieldsDoNotLock
      /\ (dialog /\ ~lossy => Notes!Sent = meant)
  BY DEF Notes!NoteIInv
<1> USE DEF Notes!NoteIInv, Notes!TypeOK, Notes!FieldsDoNotLock
<1>1. CASE Notes!OpenCard
  <2>1. Notes!TypeOK' /\ leaf' \in Notes!Leaves /\ Notes!FieldsDoNotLock'
    BY <1>0, <1>1 DEF Notes!OpenCard, Notes!Start, Notes!ModeOf, Notes!Parse, Notes!FitsSchema,
                      Notes!FormTakes
  <2>2. ~lossy' => Notes!Sent' = meant'
    BY <1>1 DEF Notes!OpenCard, Notes!Start, Notes!Sent, Notes!Lossless, Notes!Serial, Notes!Normal,
                Notes!ModeOf
  <2> QED BY <2>1, <2>2
<1>2. CASE Notes!CloseCard
  <2>1. Notes!TypeOK' /\ ~dialog' /\ leaf' = leaf
    BY <1>0, <1>2, ParseFacts DEF Notes!CloseCard, Notes!Closed
  <2>2. Notes!FieldsDoNotLock'
    BY <1>0, <1>2 DEF Notes!CloseCard, Notes!ModeOf, Notes!Parse, Notes!FitsSchema, Notes!FormTakes
  <2> QED BY <1>0, <2>1, <2>2
<1>3. CASE Notes!ToFields
  <2>1. Notes!TypeOK' /\ leaf' \in Notes!Leaves /\ Notes!FieldsDoNotLock'
    BY <1>0, <1>3 DEF Notes!ToFields, Notes!ModeOf, Notes!Parse, Notes!FitsSchema, Notes!FormTakes
  <2>2. ~lossy' => Notes!Sent' = meant'
    BY <1>0, <1>3 DEF Notes!ToFields, Notes!Sent, Notes!Serial, Notes!Normal
  <2> QED BY <2>1, <2>2
<1>4. CASE Notes!ToText
  <2>1. Notes!TypeOK' /\ leaf' \in Notes!Leaves /\ Notes!FieldsDoNotLock'
    BY <1>0, <1>4 DEF Notes!ToText, Notes!ModeOf, Notes!Parse, Notes!FitsSchema, Notes!FormTakes
  <2>2. ~lossy' => Notes!Sent' = meant'
    BY <1>0, <1>4 DEF Notes!ToText, Notes!Sent
  <2> QED BY <2>1, <2>2
<1>5. CASE Notes!Submit
  <2>1. leaf' \in Notes!Leaves /\ dialog' = FALSE /\ Notes!Passes
        /\ note' = Notes!Sent /\ raw' = note' /\ obj' = Notes!Parse(note') /\ mode' = Notes!ModeOf(note')
        /\ meant' = Notes!NoNote /\ lossy' = FALSE /\ leaf' = leaf
        /\ by' = IF mode = "raw" THEN "text" ELSE "fields"
    BY <1>0, <1>5 DEF Notes!Submit, Notes!Closed, Notes!Start
  <2>2. note'.kind \in {"empty", "text", "bare", "object"} /\ note'.unknown \in {"none", "nested", "top"}
    BY <1>0, <2>1 DEF Notes!Sent, Notes!Serial, Notes!NoNote, Notes!Note, Notes!Object
  <2>3. Notes!TypeOK'
    BY <1>0, <1>5, <2>1, <2>2, ParseFacts
  <2>4. Notes!FieldsDoNotLock'
    <3>1. SUFFICES ASSUME mode = "structured" PROVE Notes!FieldsDoNotLock'
      BY <1>0, <2>1
    <3>2. obj.value \notin leaf.refused /\ obj.value # "wrong" /\ note' = Notes!Serial(obj)
      BY <1>0, <2>1, <3>1 DEF Notes!Passes, Notes!Sent
    <3>3. Notes!Normal(obj.value) \notin leaf.refused /\ Notes!Normal(obj.value) # "wrong"
      BY <1>0, <3>2, LeafFacts DEF Notes!Normal
    <3>4. CASE ~obj.group
      <4>1. note' = Notes!NoNote
        BY <3>2, <3>4 DEF Notes!Serial
      <4> QED BY <4>1 DEF Notes!NoNote, Notes!Note, Notes!FormTakes
    <3>5. CASE obj.group
      <4>1. note' = [kind |-> "object", value |-> Notes!Normal(obj.value), unknown |-> "none"]
        BY <3>2, <3>5 DEF Notes!Serial, Notes!Object, Notes!Note
      <4> QED BY <2>1, <3>3, <4>1 DEF Notes!ModeOf, Notes!Parse, Notes!FitsSchema, Notes!FormTakes
    <3> QED BY <3>4, <3>5
  <2> QED BY <2>1, <2>3, <2>4
<1>6. ASSUME NEW n \in Notes!Notes, Notes!EnterText(n) PROVE Notes!NoteIInv'
  <2>1. n.kind \in {"empty", "text", "bare", "object"} /\ n.unknown \in {"none", "nested", "top"}
    BY DEF Notes!Notes, Notes!NoNote, Notes!Note, Notes!Object
  <2>2. Notes!TypeOK' /\ leaf' \in Notes!Leaves /\ Notes!FieldsDoNotLock'
    BY <1>0, <1>6, <2>1 DEF Notes!EnterText, Notes!ModeOf, Notes!Parse, Notes!FitsSchema, Notes!FormTakes
  <2> QED BY <1>0, <1>6, <2>2 DEF Notes!EnterText, Notes!Sent
<1>7. ASSUME NEW v \in leaf.enters, Notes!EnterField(v) PROVE Notes!NoteIInv'
  <2>1. v # "wrong"
    BY <1>0, LeafFacts
  <2>2. obj' = [group |-> TRUE, value |-> v] /\ meant' = Notes!Serial(obj')
        /\ UNCHANGED <<leaf, note, dialog, mode, raw, lossy, by>> /\ mode = "structured"
    BY <1>7 DEF Notes!EnterField, Notes!Serial, Notes!Normal
  <2>3. meant' = Notes!Object(Notes!Normal(v), "none")
    BY <2>2 DEF Notes!Serial
  <2>4. Notes!TypeOK' /\ leaf' \in Notes!Leaves /\ Notes!FieldsDoNotLock'
    BY <1>0, <2>1, <2>2, <2>3 DEF Notes!Object, Notes!Note, Notes!ModeOf, Notes!Parse, Notes!FitsSchema, Notes!FormTakes
  <2>5. Notes!Sent' = meant'
    BY <1>0, <2>2 DEF Notes!Sent, Notes!Serial, Notes!Normal
  <2> QED BY <2>4, <2>5
<1>8. CASE UNCHANGED noteVars
  BY <1>0, <1>8 DEF noteVars, Notes!Sent, Notes!Serial, Notes!Normal, Notes!FormTakes, Notes!ModeOf,
                    Notes!Parse, Notes!FitsSchema
<1> QED BY <1>1, <1>2, <1>3, <1>4, <1>5, <1>6, <1>7, <1>8 DEF Notes!Next

\* What is submitted was meant, unless a change of mode lost part of it.
LEMMA NoteSent ==
  ASSUME Notes!NoteIInv, dialog, Notes!Submit
  PROVE  note' = meant \/ lossy
BY DEF Notes!NoteIInv, Notes!Submit

-----------------------------------------------------------------------------
(* RuleEditor *)

\* What the choice of a row shows is the rule of the row, or follows it.
Shown(choice, rule) ==
  /\ choice.type = rule.type
  /\ rule.type = "cycle" => \/ choice.unit \in {"none", rule.unit}
                            \/ rule.unit = "absent" /\ choice.unit = "month"

Choice == [type : Rules!Types, unit : {"none", "hour", "month"}]

\* A type and a unit are a choice.
LEMMA ChoiceOf ==
  ASSUME NEW type \in Rules!Types, NEW unit \in {"none", "hour", "month"}
  PROVE  [type |-> type, unit |-> unit] \in Choice
BY DEF Choice

\* A select keeps what it shows where its row was there before, and else shows its rule.
LEMMA RenderedRows ==
  ASSUME NEW list \in Seq(Rules!Rule), NEW before \in Seq(Choice),
         NEW new, new = Rules!Rendered(list, before)
  PROVE  /\ new \in Seq(Choice) /\ Len(new) = Len(list) /\ DOMAIN new = DOMAIN list
         /\ \A i \in DOMAIN list :
              (i \in DOMAIN before => Shown(before[i], list[i])) =>
                /\ new[i].type = list[i].type
                /\ list[i].type = "cycle" =>
                     new[i].unit = list[i].unit \/ (list[i].unit = "absent" /\ new[i].unit = "month")
         /\ \A i \in DOMAIN list : list[i].type # "cycle" => new[i].unit = "none"
<1>1. /\ DOMAIN list = 1..Len(list) /\ Len(list) \in Nat
      /\ \A i \in DOMAIN list : list[i] \in Rules!Rule
      /\ \A i \in DOMAIN before : before[i] \in Choice
  OBVIOUS
<1>2. ASSUME NEW i \in DOMAIN list
      PROVE  /\ i \in DOMAIN before =>
                  /\ new[i].type = before[i].type
                  /\ new[i].unit = Rules!Unit(list[i], before[i].unit)
                  /\ new[i] = [type |-> before[i].type, unit |-> Rules!Unit(list[i], before[i].unit)]
             /\ i \notin DOMAIN before =>
                  /\ new[i].type = list[i].type
                  /\ new[i].unit = Rules!Unit(list[i], "none")
                  /\ new[i] = [type |-> list[i].type, unit |-> Rules!Unit(list[i], "none")]
  BY DEF Rules!Rendered
<1>3. ASSUME NEW r \in Rules!Rule, NEW was \in {"none", "hour", "month"}
      PROVE  Rules!Unit(r, was) \in {"none", "hour", "month"}
  BY DEF Rules!Unit, Rules!Default, Rules!Rule, Rules!Units
<1>4. ASSUME NEW i \in DOMAIN list PROVE new[i] \in Choice
  <2>1. CASE i \in DOMAIN before
    <3>1. before[i].type \in Rules!Types /\ before[i].unit \in {"none", "hour", "month"}
      BY <1>1, <2>1 DEF Choice
    <3>2. Rules!Unit(list[i], before[i].unit) \in {"none", "hour", "month"}
      BY <1>1, <1>3, <3>1
    <3>3. new[i] = [type |-> before[i].type, unit |-> Rules!Unit(list[i], before[i].unit)]
      BY <1>2, <2>1
    <3> QED BY <3>1, <3>2, <3>3, ChoiceOf
  <2>2. CASE i \notin DOMAIN before
    <3>1. list[i].type \in Rules!Types
      BY <1>1 DEF Rules!Rule
    <3>2. Rules!Unit(list[i], "none") \in {"none", "hour", "month"}
      BY <1>1, <1>3
    <3>3. new[i] = [type |-> list[i].type, unit |-> Rules!Unit(list[i], "none")]
      BY <1>2, <2>2
    <3> QED BY <3>1, <3>2, <3>3, ChoiceOf
  <2> QED BY <2>1, <2>2
<1>5. new = [i \in DOMAIN list |-> new[i]]
  BY DEF Rules!Rendered
<1>6. new \in [1..Len(list) -> Choice]
  BY <1>1, <1>4, <1>5
<1>7. new \in Seq(Choice) /\ Len(new) = Len(list) /\ DOMAIN new = DOMAIN list
  BY <1>1, <1>6
<1>8. ASSUME NEW i \in DOMAIN list, i \in DOMAIN before => Shown(before[i], list[i])
      PROVE  /\ new[i].type = list[i].type
             /\ list[i].type = "cycle" =>
                  new[i].unit = list[i].unit \/ (list[i].unit = "absent" /\ new[i].unit = "month")
  <2>1. CASE i \in DOMAIN before
    BY <1>2, <1>8, <2>1 DEF Shown, Rules!Unit, Rules!Default
  <2>2. CASE i \notin DOMAIN before
    BY <1>2, <2>2 DEF Rules!Unit, Rules!Default
  <2> QED BY <2>1, <2>2
<1>9. ASSUME NEW i \in DOMAIN list, list[i].type # "cycle" PROVE new[i].unit = "none"
  BY <1>2, <1>9 DEF Rules!Unit
<1> QED BY <1>7, <1>8, <1>9

\* Rows that are set are rendered with the choices they are given, which show them unless
\* other rules came under them.
LEMMA SetRulesStep ==
  ASSUME Rules!RulesIInv, NEW list \in Seq(Rules!Rule), Len(list) <= MaxRules,
         NEW before \in Seq(Choice), Rules!SetRules(list, before),
         shows, UNCHANGED <<creates, shows, began, sent, awaited>>, shifted' \in BOOLEAN,
         ~shifted' => \A i \in DOMAIN list \intersect DOMAIN before : Shown(before[i], list[i])
  PROVE  Rules!RulesIInv'
<1> DEFINE new == Rules!Rendered(list, before)
<1>1. /\ rules' = list /\ text' = [kind |-> "list", list |-> list] /\ choices' = new /\ touched' = TRUE
      /\ behind' = FALSE
  BY DEF Rules!SetRules, Rules!Same, Rules!Json
<1>2. /\ new \in Seq(Choice) /\ Len(new) = Len(list) /\ DOMAIN new = DOMAIN list
      /\ \A i \in DOMAIN list :
           (i \in DOMAIN before => Shown(before[i], list[i])) =>
             /\ new[i].type = list[i].type
             /\ list[i].type = "cycle" =>
                  new[i].unit = list[i].unit \/ (list[i].unit = "absent" /\ new[i].unit = "month")
      /\ \A i \in DOMAIN list : list[i].type # "cycle" => new[i].unit = "none"
  <2> HIDE DEF new
  <2>1. new = Rules!Rendered(list, before)
    BY DEF new
  <2> QED BY <2>1, RenderedRows
<1> HIDE DEF new
<1>3. Rules!TypeOK'
  BY <1>1, <1>2 DEF Rules!RulesIInv, Rules!TypeOK, Choice
<1>4. Rules!RowsAreRules'
  BY <1>1, <1>2 DEF Rules!RowsAreRules, Rules!EditorsAgree, Rules!ChoicesAreRules
<1> QED BY <1>1, <1>2, <1>3, <1>4 DEF Rules!RulesIInv

\* An editor that was not opened has no rows.
LEMMA RulesInit == Rules!RulesAssumption /\ Rules!Init => Rules!RulesIInv
<1> SUFFICES ASSUME Rules!RulesAssumption, Rules!Init PROVE Rules!RulesIInv
  OBVIOUS
<1>1. <<>> \in Seq(Rules!Rule) /\ Len(<<>>) = 0 /\ <<>> \in Seq(Choice) /\ DOMAIN <<>> = {}
  OBVIOUS
<1>2. rules \in Seq(Rules!Rule) /\ Len(rules) <= 1 /\ (creates => rules = <<>>) /\ began = rules
  <2>1. CASE creates
    BY <1>1, <2>1 DEF Rules!Init
  <2>2. CASE ~creates
    <3>1. PICK r \in Rules!Rule : rules = <<r>> /\ began = rules
      BY <2>2 DEF Rules!Init
    <3> QED BY <2>2, <3>1
  <2> QED BY <2>1, <2>2
<1>3. Rules!TypeOK
  <2>1. Len(rules) \in Nat /\ Len(rules) <= MaxRules
    BY <1>2 DEF Rules!RulesAssumption
  <2>2. text = [kind |-> "list", list |-> rules]
    BY DEF Rules!Init, Rules!Same, Rules!Json
  <2>3. /\ creates \in BOOLEAN /\ shows = FALSE /\ shifted = FALSE /\ touched = FALSE /\ choices = <<>>
        /\ behind = FALSE /\ sent = 0 /\ awaited = 0
    BY DEF Rules!Init
  <2>4. /\ {creates, shows, shifted, touched, behind} \subseteq BOOLEAN
        /\ {sent, awaited} \subseteq 0..MaxWaits /\ sent + awaited <= MaxWaits
    <3>1. MaxWaits \in Nat /\ 0 \in 0..MaxWaits /\ 0 <= MaxWaits
      BY DEF Rules!RulesAssumption
    <3>2. {sent, awaited} \subseteq 0..MaxWaits /\ sent + awaited <= MaxWaits
      BY <2>3, <3>1
    <3>3. {creates, shows, shifted, touched, behind} \subseteq BOOLEAN
      BY <2>3
    <3> QED BY <3>2, <3>3
  <2>5. text.kind \in {"list", "other", "junk", "none"} /\ text.list \in Seq(Rules!Rule)
    BY <1>2, <2>2
  <2> QED BY <1>1, <1>2, <2>1, <2>3, <2>4, <2>5 DEF Rules!TypeOK, Choice
<1>4. Rules!RowsAreRules
  BY <1>1 DEF Rules!Init, Rules!RowsAreRules, Rules!EditorsAgree, Rules!ChoicesAreRules, Rules!Same, Rules!Json
<1> QED BY <1>1, <1>2, <1>3, <1>4 DEF Rules!Init, Rules!RulesIInv

\* Each of two numbers is within a bound of their sum.
LEMMA WithinSum == \A a, b, m \in Nat : a + b <= m => a \in 0..m /\ b \in 0..m
OBVIOUS

\* Every step of the rule editor keeps its invariant.
LEMMA RulesStep ==
  Rules!RulesAssumption /\ Rules!RulesIInv /\ [Rules!Next]_rulesVars => Rules!RulesIInv'
<1> SUFFICES ASSUME Rules!RulesAssumption, Rules!RulesIInv, [Rules!Next]_rulesVars
             PROVE  Rules!RulesIInv'
  OBVIOUS
<1>0. Rules!TypeOK /\ Rules!RowsAreRules
  BY DEF Rules!RulesIInv
<1>a. /\ rules \in Seq(Rules!Rule) /\ Len(rules) \in Nat /\ Len(rules) <= MaxRules
      /\ DOMAIN rules = 1..Len(rules)
      /\ choices \in Seq(Choice) /\ (shows => DOMAIN choices = DOMAIN rules)
      /\ {creates, shows, shifted, touched, behind} \subseteq BOOLEAN
      /\ sent \in Nat /\ awaited \in Nat /\ sent + awaited <= MaxWaits /\ MaxWaits \in Nat
      /\ began \in Seq(Rules!Rule)
  BY <1>0 DEF Rules!TypeOK, Choice, Rules!RulesAssumption
<1>b. <<>> \in Seq(Rules!Rule) /\ Len(<<>>) = 0 /\ <<>> \in Seq(Choice) /\ DOMAIN <<>> = {}
  OBVIOUS
<1>c. \A i \in DOMAIN choices : shifted \/ Shown(choices[i], rules[i])
  BY <1>0 DEF Rules!RowsAreRules, Rules!ChoicesAreRules, Shown
<1>d. \A i \in DOMAIN rules : rules[i] \in Rules!Rule
  BY <1>a
<1>1. CASE Rules!OpenRules
  <2>1. /\ ~shows /\ shows' = TRUE /\ choices' = Rules!Rendered(rules, <<>>) /\ shifted' = FALSE
        /\ UNCHANGED <<creates, began, sent, awaited, rules, text, touched, behind>>
    BY <1>1 DEF Rules!OpenRules
  <2> DEFINE new == Rules!Rendered(rules, <<>>)
  <2>2. /\ new \in Seq(Choice) /\ Len(new) = Len(rules) /\ DOMAIN new = DOMAIN rules
        /\ \A i \in DOMAIN rules :
             /\ new[i].type = rules[i].type
             /\ rules[i].type = "cycle" =>
                  new[i].unit = rules[i].unit \/ (rules[i].unit = "absent" /\ new[i].unit = "month")
        /\ \A i \in DOMAIN rules : rules[i].type # "cycle" => new[i].unit = "none"
    <3> HIDE DEF new
    <3>1. PICK none : none = <<>>
      OBVIOUS
    <3>2. new = Rules!Rendered(rules, none)
      BY <3>1 DEF new
    <3>3. none \in Seq(Choice) /\ DOMAIN none = {}
      BY <1>b, <3>1
    <3>4. /\ new \in Seq(Choice) /\ Len(new) = Len(rules) /\ DOMAIN new = DOMAIN rules
          /\ \A i \in DOMAIN rules :
               (i \in DOMAIN none => Shown(none[i], rules[i])) =>
                 /\ new[i].type = rules[i].type
                 /\ rules[i].type = "cycle" =>
                      new[i].unit = rules[i].unit \/ (rules[i].unit = "absent" /\ new[i].unit = "month")
          /\ \A i \in DOMAIN rules : rules[i].type # "cycle" => new[i].unit = "none"
      <4>1. rules \in Seq(Rules!Rule)
        BY <1>a
      <4>2. PICK list : list = rules
        OBVIOUS
      <4>3. list \in Seq(Rules!Rule) /\ none \in Seq(Choice) /\ new = Rules!Rendered(list, none)
        BY <3>2, <3>3, <4>1, <4>2
      <4>4. /\ new \in Seq(Choice) /\ Len(new) = Len(list) /\ DOMAIN new = DOMAIN list
            /\ \A i \in DOMAIN list :
                 (i \in DOMAIN none => Shown(none[i], list[i])) =>
                   /\ new[i].type = list[i].type
                   /\ list[i].type = "cycle" =>
                        new[i].unit = list[i].unit \/ (list[i].unit = "absent" /\ new[i].unit = "month")
            /\ \A i \in DOMAIN list : list[i].type # "cycle" => new[i].unit = "none"
        BY <4>3, RenderedRows
      <4> QED BY <4>2, <4>4
    <3> QED BY <3>3, <3>4
  <2> HIDE DEF new
  <2>3. Rules!TypeOK'
    BY <1>0, <2>1, <2>2 DEF Rules!TypeOK, Choice, new
  <2>4. Rules!RowsAreRules'
    BY <1>0, <2>1, <2>2 DEF Rules!RowsAreRules, Rules!EditorsAgree, Rules!ChoicesAreRules, new
  <2> QED BY <2>1, <2>2, <2>3, <2>4 DEF Rules!RulesIInv, new
<1>2. CASE Rules!CloseRules
  <2>1. /\ shows' = FALSE /\ choices' = <<>> /\ shifted' = FALSE
        /\ UNCHANGED <<creates, began, sent, awaited, rules, text, touched, behind>>
    BY <1>2 DEF Rules!CloseRules
  <2>2. Rules!TypeOK'
    BY <1>0, <1>b, <2>1 DEF Rules!TypeOK, Choice
  <2>3. Rules!RowsAreRules'
    BY <1>0, <1>b, <2>1 DEF Rules!RowsAreRules, Rules!EditorsAgree, Rules!ChoicesAreRules
  <2> QED BY <1>b, <2>1, <2>2, <2>3 DEF Rules!RulesIInv
<1>3. CASE Rules!SubmitRules \/ Rules!RulesLost
  <2>1. /\ UNCHANGED <<creates, shows, began, awaited, rules, text, choices, shifted, touched, behind>>
        /\ sent' \in Nat /\ sent' + awaited <= MaxWaits
    BY <1>3, <1>a DEF Rules!SubmitRules, Rules!RulesLost
  <2>2. {sent', awaited'} \subseteq 0..MaxWaits /\ sent' + awaited' <= MaxWaits
    BY <1>a, <2>1
  <2>3. Rules!TypeOK'
    BY <1>0, <2>1, <2>2 DEF Rules!TypeOK
  <2>4. Rules!RowsAreRules'
    BY <1>0, <2>1 DEF Rules!RowsAreRules, Rules!EditorsAgree, Rules!ChoicesAreRules
  <2> QED BY <2>1, <2>3, <2>4 DEF Rules!RulesIInv
<1>15. CASE Rules!RulesTaken
  <2>1. /\ shows' = FALSE /\ choices' = <<>> /\ shifted' = FALSE /\ touched' = FALSE
        /\ UNCHANGED <<creates, began, rules, text, behind>>
        /\ sent' \in Nat /\ awaited' = awaited + 1 /\ sent' + awaited' = sent + awaited
    BY <1>15, <1>a DEF Rules!RulesTaken
  <2>2. {sent', awaited'} \subseteq 0..MaxWaits /\ sent' + awaited' <= MaxWaits /\ awaited' # 0
    BY <1>a, <2>1
  <2>3. Rules!TypeOK'
    BY <1>0, <1>b, <2>1, <2>2 DEF Rules!TypeOK, Choice
  <2>4. Rules!RowsAreRules'
    BY <1>0, <1>b, <2>1 DEF Rules!RowsAreRules, Rules!EditorsAgree, Rules!ChoicesAreRules
  <2> QED BY <1>b, <2>1, <2>2, <2>3, <2>4 DEF Rules!RulesIInv
<1>16. CASE Rules!ListAwaited
  <2>1. /\ UNCHANGED <<creates, shows, began, sent, rules, choices, shifted, touched>>
        /\ sent' \in Nat /\ awaited' \in Nat /\ sent' + awaited' <= MaxWaits /\ behind' = ~creates
        /\ text' = IF creates THEN [kind |-> "none", list |-> <<>>] ELSE [kind |-> "list", list |-> began]
    BY <1>16, <1>a DEF Rules!ListAwaited, Rules!FormReset, Rules!Json, Rules!Same
  <2>2. {sent', awaited'} \subseteq 0..MaxWaits /\ sent' + awaited' <= MaxWaits
    <3>1. sent' \in Nat /\ awaited' \in Nat /\ sent' + awaited' <= MaxWaits /\ MaxWaits \in Nat
      BY <1>a, <2>1
    <3>2. sent' \in 0..MaxWaits /\ awaited' \in 0..MaxWaits
      BY <3>1, WithinSum
    <3> QED BY <3>1, <3>2
  <2>3. /\ text'.kind \in {"list", "none"} /\ text'.list \in Seq(Rules!Rule)
        /\ creates => text'.kind = "none"
        /\ ~creates => text'.list = began
    <3>1. CASE creates
      BY <1>b, <2>1, <3>1
    <3>2. CASE ~creates
      BY <1>a, <2>1, <3>2
    <3> QED BY <3>1, <3>2
  <2>4. Rules!TypeOK'
    BY <1>0, <1>a, <2>1, <2>2, <2>3 DEF Rules!TypeOK
  <2>5. Rules!RowsAreRules'
    BY <1>0, <2>1, <2>3 DEF Rules!RowsAreRules, Rules!EditorsAgree, Rules!ChoicesAreRules
  <2> QED BY <2>1, <2>3, <2>4, <2>5 DEF Rules!RulesIInv
<1>4. CASE Rules!AddRule
  <2> DEFINE r == [type |-> "unset", unit |-> "absent", value |-> "one"]
             list == Append(rules, r)
  <2>1. r \in Rules!Rule
    BY DEF Rules!Rule, Rules!Types, Rules!Units
  <2> HIDE DEF r
  <2>2. /\ list \in Seq(Rules!Rule) /\ Len(list) = Len(rules) + 1
        /\ \A i \in DOMAIN rules : list[i] = rules[i]
    BY <1>a, <2>1
  <2>3. shows /\ Len(rules) < MaxRules /\ Rules!SetRules(list, choices) /\ UNCHANGED <<creates, shows, began, sent, awaited, shifted>>
    BY <1>4 DEF Rules!AddRule, r
  <2>4. Len(list) <= MaxRules
    BY <1>a, <2>2, <2>3 DEF Rules!RulesAssumption
  <2>5. ~shifted' => \A i \in DOMAIN list \intersect DOMAIN choices : Shown(choices[i], list[i])
    BY <1>a, <1>c, <2>2, <2>3
  <2> HIDE DEF list
  <2> QED BY <1>a, <2>2, <2>3, <2>4, <2>5, SetRulesStep
<1>5. ASSUME NEW list \in Rules!Typed, Rules!EditText(list) PROVE Rules!RulesIInv'
  <2>1. list \in Seq(Rules!Rule) /\ Len(list) <= 1
    <3>1. CASE list = <<>>
      BY <1>b, <3>1
    <3>2. CASE \E r \in Rules!Rule : list = <<r>>
      BY <3>2
    <3>3. list = <<>> \/ \E r \in Rules!Rule : list = <<r>>
      BY DEF Rules!Typed, Rules!Rule, Rules!Types, Rules!Units
    <3> QED BY <3>1, <3>2, <3>3
  <2>2. Len(list) <= MaxRules
    BY <2>1 DEF Rules!RulesAssumption
  <2>3. shows /\ Rules!SetRules(list, choices) /\ shifted' = TRUE /\ UNCHANGED <<creates, shows, began, sent, awaited>>
    BY <1>5 DEF Rules!EditText
  <2> QED BY <1>a, <2>1, <2>2, <2>3, SetRulesStep
<1>6. ASSUME NEW kind \in {"other", "junk"}, Rules!EditOther(kind) PROVE Rules!RulesIInv'
  <2>1. /\ text' = [kind |-> kind, list |-> <<>>] /\ touched' = TRUE
        /\ UNCHANGED <<creates, shows, began, sent, awaited, rules, choices, shifted, behind>>
    BY <1>6 DEF Rules!EditOther, Rules!Json
  <2>2. Rules!TypeOK'
    BY <1>0, <1>b, <2>1 DEF Rules!TypeOK
  <2>3. Rules!RowsAreRules'
    BY <1>0, <2>1 DEF Rules!RowsAreRules, Rules!EditorsAgree, Rules!ChoicesAreRules
  <2> QED BY <2>1, <2>2, <2>3 DEF Rules!RulesIInv
<1>7. ASSUME NEW i \in 1..MaxRules, Rules!DeleteRule(i) PROVE Rules!RulesIInv'
  <2> DEFINE list == SubSeq(rules, 1, i - 1) \o SubSeq(rules, i + 1, Len(rules))
  <2>1. /\ shows /\ i \in DOMAIN rules /\ Rules!SetRules(list, choices)
        /\ shifted' = (shifted \/ i < Len(rules)) /\ UNCHANGED <<creates, shows, began, sent, awaited>>
    BY <1>7 DEF Rules!DeleteRule, Rules!RemoveAt
  <2>2. i \in Nat /\ 1 <= i /\ i <= Len(rules)
    BY <1>a, <2>1
  <2>3. /\ SubSeq(rules, 1, i - 1) \in Seq(Rules!Rule) /\ Len(SubSeq(rules, 1, i - 1)) = i - 1
        /\ \A k \in 1..i - 1 : SubSeq(rules, 1, i - 1)[k] = rules[k]
    <3>1. 1 \in 1..Len(rules) + 1 /\ i - 1 \in 1 - 1..Len(rules) /\ (i - 1) - 1 + 1 = i - 1
      BY <1>a, <2>2
    <3> QED BY <1>a, <2>2, <3>1, SubSeqProperties
  <2>4. /\ SubSeq(rules, i + 1, Len(rules)) \in Seq(Rules!Rule)
        /\ Len(SubSeq(rules, i + 1, Len(rules))) = Len(rules) - i
    <3>1. PICK m, n : m = i + 1 /\ n = Len(rules)
      OBVIOUS
    <3>2. m \in 1..Len(rules) + 1 /\ n \in m - 1..Len(rules) /\ n - m + 1 = n - i
      BY <1>a, <2>2, <3>1
    <3>3. SubSeq(rules, m, n) \in Seq(Rules!Rule) /\ Len(SubSeq(rules, m, n)) = n - m + 1
      BY <1>a, <3>2, SubSeqProperties
    <3> QED BY <3>1, <3>2, <3>3
  <2>5. /\ list \in Seq(Rules!Rule) /\ Len(list) = Len(rules) - 1
        /\ \A k \in 1..i - 1 : list[k] = rules[k]
    <3> DEFINE front == SubSeq(rules, 1, i - 1)
               back == SubSeq(rules, i + 1, Len(rules))
    <3> HIDE DEF front, back
    <3>1. list = front \o back
      BY DEF front, back
    <3>2. /\ front \in Seq(Rules!Rule) /\ back \in Seq(Rules!Rule)
          /\ Len(front) = i - 1 /\ Len(back) = Len(rules) - i
          /\ \A k \in 1..i - 1 : front[k] = rules[k]
      BY <2>3, <2>4 DEF front, back
    <3> HIDE DEF list
    <3>3. (i - 1) + (Len(rules) - i) = Len(rules) - 1
      BY <1>a, <2>2
    <3>4. list \in Seq(Rules!Rule) /\ Len(list) = Len(rules) - 1
      <4>1. list \in Seq(Rules!Rule) /\ Len(list) = Len(front) + Len(back)
        BY <3>1, <3>2, ConcatProperties
      <4> QED BY <3>2, <3>3, <4>1
    <3>5. ASSUME NEW k \in 1..i - 1 PROVE list[k] = rules[k]
      <4>1. k \in 1..Len(front) + Len(back) /\ k <= Len(front)
        BY <1>a, <2>2, <3>2
      <4>2. list[k] = front[k]
        BY <3>1, <3>2, <4>1, ConcatProperties
      <4> QED BY <3>2, <4>2
    <3> QED BY <3>4, <3>5
  <2> HIDE DEF list
  <2>6. Len(list) <= MaxRules
    <3>1. MaxRules \in Nat /\ Len(rules) \in Nat /\ Len(rules) <= MaxRules
      BY <1>a DEF Rules!RulesAssumption
    <3> QED BY <2>5, <3>1
  <2>7. ~shifted' => \A k \in DOMAIN list \intersect DOMAIN choices : Shown(choices[k], list[k])
    <3> SUFFICES ASSUME ~shifted', NEW k \in DOMAIN list, k \in DOMAIN choices
                 PROVE  Shown(choices[k], list[k])
      OBVIOUS
    <3>1. ~(i < Len(rules)) /\ ~shifted
      BY <2>1
    <3>2. k \in 1..Len(list) /\ Len(list) = i - 1
      <4>1. PICK n : n = Len(rules)
        OBVIOUS
      <4>2. n \in Nat /\ i \in Nat /\ i <= n /\ ~(i < n)
        BY <1>a, <2>2, <3>1, <4>1
      <4>3. n - 1 = i - 1
        BY <4>2
      <4>4. Len(list) = i - 1 /\ DOMAIN list = 1..Len(list)
        BY <2>5, <4>1, <4>3
      <4> QED BY <4>4
    <3> QED BY <1>c, <2>5, <3>1, <3>2
  <2>8. shifted' \in BOOLEAN
    BY <2>1
  <2> QED BY <1>a, <2>1, <2>5, <2>6, <2>7, <2>8, SetRulesStep
\* The other entries change one rule in its place.
<1>8. ASSUME NEW i \in DOMAIN rules, NEW r \in Rules!Rule, NEW before \in Seq(Choice), shows,
             Rules!SetRules([rules EXCEPT ![i] = r], before), UNCHANGED <<creates, shows, began, sent, awaited, shifted>>,
             DOMAIN before = DOMAIN choices, \A k \in DOMAIN choices : k # i => before[k] = choices[k],
             ~shifted => Shown(before[i], r)
      PROVE  Rules!RulesIInv'
  <2> DEFINE list == [rules EXCEPT ![i] = r]
  <2>1. /\ list \in Seq(Rules!Rule) /\ Len(list) = Len(rules) /\ DOMAIN list = DOMAIN rules
        /\ list[i] = r /\ \A k \in DOMAIN rules : k # i => list[k] = rules[k]
    BY <1>a, <1>8
  <2> HIDE DEF list
  <2>2. ~shifted' => \A k \in DOMAIN list \intersect DOMAIN before : Shown(before[k], list[k])
    BY <1>a, <1>c, <1>8, <2>1
  <2>3. Rules!SetRules(list, before)
    BY <1>8 DEF list
  <2>4. Len(list) <= MaxRules /\ shifted' \in BOOLEAN
    BY <1>a, <1>8, <2>1
  <2> QED BY <1>8, <2>1, <2>2, <2>3, <2>4, SetRulesStep
<1>9. ASSUME NEW i \in 1..MaxRules, NEW type \in Rules!Types \ {"unset"}, Rules!ChangeType(i, type)
      PROVE  Rules!RulesIInv'
  <2> DEFINE r == [rules[i] EXCEPT !.type = type,
                                   !.unit = IF type = "cycle" THEN @ ELSE "absent"]
             before == [choices EXCEPT ![i].type = type]
  <2>1. shows /\ i \in DOMAIN rules /\ i \in DOMAIN choices /\ UNCHANGED <<creates, shows, began, sent, awaited, shifted>>
    BY <1>9, <1>a DEF Rules!ChangeType
  <2>2. rules[i] \in Rules!Rule /\ choices[i] \in Choice
    BY <1>a, <2>1
  <2>3. r \in Rules!Rule /\ r.type = type /\ r.unit = IF type = "cycle" THEN rules[i].unit ELSE "absent"
    BY <2>2 DEF Rules!Rule, Rules!Units
  <2>4. [rules EXCEPT ![i].type = type, ![i].unit = IF type = "cycle" THEN @ ELSE "absent"]
          = [rules EXCEPT ![i] = r]
    BY <1>a, <2>1, <2>2 DEF Rules!Rule
  <2>5. before = [choices EXCEPT ![i] = [choices[i] EXCEPT !.type = type]]
        /\ [choices[i] EXCEPT !.type = type] \in Choice
    BY <1>a, <2>1, <2>2 DEF Choice
  <2>6. /\ before \in Seq(Choice) /\ DOMAIN before = DOMAIN choices
        /\ before[i].type = type /\ before[i].unit = choices[i].unit
        /\ \A k \in DOMAIN choices : k # i => before[k] = choices[k]
    <3>1. before[i] = [choices[i] EXCEPT !.type = type]
      BY <2>1, <2>5
    <3> QED BY <1>a, <2>1, <2>2, <2>5, <3>1 DEF Choice
  <2>7. Rules!SetRules([rules EXCEPT ![i] = r], before) /\ type # choices[i].type
    BY <1>9, <2>4 DEF Rules!ChangeType
  <2>8. ~shifted => Shown(before[i], r)
    <3> SUFFICES ASSUME ~shifted, type = "cycle" PROVE before[i].unit = "none"
      BY <2>3, <2>6 DEF Shown
    <3>1. rules[i].type # "cycle"
      BY <1>c, <2>1, <2>7 DEF Shown
    <3> QED BY <2>1, <2>6, <3>1 DEF Rules!RulesIInv
  <2> HIDE DEF r, before
  <2> QED BY <1>8, <2>1, <2>3, <2>6, <2>7, <2>8
<1>10. ASSUME NEW i \in 1..MaxRules, NEW value \in {"absent", "one"}, shows, i \in DOMAIN rules,
              Rules!SetRules([rules EXCEPT ![i].value = value], choices),
              UNCHANGED <<creates, shows, began, sent, awaited, shifted>>
       PROVE  Rules!RulesIInv'
  <2> DEFINE r == [rules[i] EXCEPT !.value = value]
  <2>1. r \in Rules!Rule /\ r.type = rules[i].type /\ r.unit = rules[i].unit
    BY <1>d, <1>10 DEF Rules!Rule
  <2>2. Rules!SetRules([rules EXCEPT ![i] = r], choices)
    BY <1>10
  <2>3. ~shifted => Shown(choices[i], r)
    BY <1>a, <1>c, <1>10, <2>1 DEF Shown
  <2> HIDE DEF r
  <2> QED BY <1>8, <1>10, <1>a, <2>1, <2>2, <2>3
<1>11. ASSUME NEW i \in 1..MaxRules, NEW unit \in {"hour", "month"}, Rules!EnterCycle(i, unit)
       PROVE  Rules!RulesIInv'
  <2> DEFINE r == [rules[i] EXCEPT !.unit = unit]
             before == [choices EXCEPT ![i] = [choices[i] EXCEPT !.unit = unit]]
  <2>1. shows /\ i \in DOMAIN rules /\ i \in DOMAIN choices /\ UNCHANGED <<creates, shows, began, sent, awaited, shifted>>
    BY <1>11, <1>a DEF Rules!EnterCycle
  <2>2. rules[i] \in Rules!Rule /\ choices[i] \in Choice
    BY <1>a, <2>1
  <2>3. r \in Rules!Rule /\ r.type = rules[i].type /\ r.unit = unit
    BY <2>2 DEF Rules!Rule, Rules!Units
  <2>4. Rules!SetRules([rules EXCEPT ![i] = r], before)
    BY <1>11 DEF Rules!EnterCycle
  <2>5. [choices[i] EXCEPT !.unit = unit] \in Choice
    BY <2>2 DEF Choice
  <2>6. /\ before \in Seq(Choice) /\ DOMAIN before = DOMAIN choices
        /\ before[i].type = choices[i].type /\ before[i].unit = unit
        /\ \A k \in DOMAIN choices : k # i => before[k] = choices[k]
    <3>1. before[i] = [choices[i] EXCEPT !.unit = unit]
      BY <2>1
    <3> QED BY <1>a, <2>1, <2>2, <2>5, <3>1 DEF Choice
  <2>7. ~shifted => Shown(before[i], r)
    BY <1>c, <2>1, <2>3, <2>6 DEF Shown
  <2> HIDE DEF r, before
  <2> QED BY <1>8, <2>1, <2>3, <2>4, <2>6, <2>7
<1>12. ASSUME NEW i \in 1..MaxRules, NEW value \in {"absent", "one"}, Rules!EnterNumber(i, value)
       PROVE  Rules!RulesIInv'
  BY <1>10, <1>12 DEF Rules!EnterNumber
<1>13. ASSUME NEW i \in 1..MaxRules, NEW value \in {"absent", "one", "junk"}, Rules!EnterServers(i, value)
       PROVE  Rules!RulesIInv'
  <2> DEFINE after == IF value = "junk" THEN rules[i].value ELSE value
  <2>1. shows /\ i \in DOMAIN rules /\ UNCHANGED <<creates, shows, began, sent, awaited, shifted>>
        /\ Rules!SetRules([rules EXCEPT ![i].value = after], choices)
    BY <1>13 DEF Rules!EnterServers
  <2>2. after \in {"absent", "one"}
    BY <1>d, <2>1 DEF Rules!Rule
  <2> HIDE DEF after
  <2> QED BY <1>10, <2>1, <2>2
<1>14. CASE UNCHANGED rulesVars
  BY <1>14, <1>0 DEF rulesVars, Rules!RulesIInv, Rules!TypeOK, Rules!RowsAreRules, Rules!EditorsAgree,
                     Rules!ChoicesAreRules
<1> QED BY <1>1, <1>2, <1>3, <1>4, <1>5, <1>6, <1>7, <1>9, <1>11, <1>12, <1>13, <1>14, <1>15, <1>16
        DEF Rules!Next

\* An untouched dialog submits no rule.
LEMMA RulesSent ==
  ASSUME Rules!RulesIInv, Rules!SubmitRules, creates, awaited = 0
  PROVE  touched \/ rules = <<>>
BY DEF Rules!RulesIInv, Rules!SubmitRules

-----------------------------------------------------------------------------
(* AdminTable *)

\* Of numbers up to n that are some, one is the least.
LEMMA LeastOf ==
  ASSUME NEW T, T \subseteq Nat, T # {}
  PROVE  \E x \in T : \A y \in T : x <= y
<1> DEFINE R == OpToRel(<, Nat)
<1>1. IsWellFoundedOn(R, Nat)
  BY NatLessThanWellFounded
<1>2. \A x, y \in Nat : x < y => <<x, y>> \in R
  BY DEF OpToRel
<1> HIDE DEF R
<1>3. PICK x \in T : \A y \in T : <<y, x>> \notin R
  BY <1>1, WFMin
<1>4. ASSUME NEW y \in T PROVE x <= y
  <2>1. x \in Nat /\ y \in Nat /\ ~(y < x)
    BY <1>2, <1>3
  <2> QED BY <2>1
<1> QED BY <1>4

\* The entries that stay of the first k of a list.
LEMMA WithoutSteps ==
  ASSUME NEW S, NEW list \in Seq(S), NEW gone
  PROVE  \E F : /\ F = [n \in 0..Len(list) |->
                          IF n = 0 THEN <<>>
                          ELSE IF list[n] \in gone THEN F[n - 1] ELSE Append(F[n - 1], list[n])]
                /\ List!Without(list, gone) = F[Len(list)]
<1> DEFINE Of(F, n) == IF n = 0 THEN <<>>
                       ELSE IF list[n] \in gone THEN F[n - 1] ELSE Append(F[n - 1], list[n])
           Bad == {n \in 0..Len(list) : ~\E F : F = [k \in 0..n |-> Of(F, k)]}
<1>1. Len(list) \in Nat
  OBVIOUS
<1>2. Bad = {}
  <2> SUFFICES ASSUME Bad # {} PROVE FALSE
    OBVIOUS
  <2>0. Bad \subseteq 0..Len(list) /\ \A n \in 0..Len(list) : n \in Bad <=> ~\E F : F = [k \in 0..n |-> Of(F, k)]
    OBVIOUS
  <2> HIDE DEF Bad
  <2>1. PICK m \in Bad : \A n \in Bad : m <= n
    <3>1. Bad \subseteq Nat
      BY <1>1, <2>0
    <3> QED BY <3>1, LeastOf
  <2>2. m \in 0..Len(list) /\ ~\E F : F = [k \in 0..m |-> Of(F, k)]
    BY <2>0
  <2>3. m # 0
    <3> SUFFICES ASSUME m = 0 PROVE FALSE
      OBVIOUS
    <3> DEFINE F == [k \in 0..0 |-> <<>>]
    <3>1. F = [k \in 0..m |-> Of(F, k)]
      OBVIOUS
    <3> QED BY <2>2, <3>1
  <2>4. m - 1 \in 0..Len(list) /\ m - 1 < m
    BY <1>1, <2>2, <2>3
  <2>5. m - 1 \notin Bad
    <3>1. m \in Nat /\ m - 1 \in Nat /\ ~(m <= m - 1)
      BY <1>1, <2>2, <2>4
    <3> QED BY <2>1, <3>1
  <2>6. PICK F : F = [k \in 0..m - 1 |-> Of(F, k)]
    BY <2>0, <2>4, <2>5
  <2> DEFINE G == [k \in 0..m |-> IF k = m THEN Of(F, m) ELSE F[k]]
  <2>7. ASSUME NEW k \in 0..m PROVE G[k] = Of(G, k)
    <3>1. CASE k = 0
      BY <2>3, <2>4, <2>6, <3>1
    <3>2. CASE k # 0 /\ k # m
      <4>1. k \in 0..m - 1 /\ k - 1 \in 0..m - 1 /\ k - 1 \in 0..m /\ k - 1 # m
        BY <2>2, <3>2
      <4>2. G[k] = F[k] /\ G[k - 1] = F[k - 1] /\ F[k] = Of(F, k)
        BY <2>6, <3>2, <4>1
      <4> QED BY <3>2, <4>2
    <3>3. CASE k = m
      <4>1. m - 1 \in 0..m /\ m - 1 # m
        BY <2>2, <2>3
      <4>2. G[m] = Of(F, m) /\ G[m - 1] = F[m - 1]
        BY <2>2, <4>1
      <4> QED BY <2>3, <3>3, <4>2
    <3> QED BY <3>1, <3>2, <3>3
  <2>8. G = [k \in 0..m |-> Of(G, k)]
    <3> DEFINE H == [k \in 0..m |-> Of(G, k)]
    <3>1. \A k \in 0..m : G[k] = H[k]
      BY <2>7
    <3> QED BY <3>1
  <2> QED BY <2>2, <2>8
<1>3. Len(list) \in 0..Len(list)
  BY <1>1
<1>4. \E F : F = [k \in 0..Len(list) |-> Of(F, k)]
  BY <1>2, <1>3
<1> DEFINE U == CHOOSE F : F = [k \in 0..Len(list) |-> Of(F, k)]
<1>5. U = [k \in 0..Len(list) |-> Of(U, k)]
  BY <1>4
<1>6. List!Without(list, gone) = U[Len(list)]
  BY DEF List!Without
<1> QED BY <1>5, <1>6

\* Elements and injectivity of a sequence, by its indices.
LEMMA RangeOf ==
  ASSUME NEW S, NEW list \in Seq(S)
  PROVE  /\ List!Range(list) \subseteq S
         /\ \A x : x \in List!Range(list) <=> \E i \in 1..Len(list) : x = list[i]
         /\ List!IsInjective(list) <=> \A i, j \in 1..Len(list) : list[i] = list[j] => i = j
<1>1. Len(list) \in Nat /\ DOMAIN list = 1..Len(list) /\ \A i \in 1..Len(list) : list[i] \in S
  OBVIOUS
<1> QED BY <1>1 DEF List!Range, List!IsInjective

\* An entry at the end of a list is one more element.
LEMMA RangeOfAppend ==
  ASSUME NEW S, NEW list \in Seq(S), NEW e \in S
  PROVE  /\ Append(list, e) \in Seq(S)
         /\ List!Range(Append(list, e)) = List!Range(list) \union {e}
         /\ List!IsInjective(list) /\ e \notin List!Range(list) => List!IsInjective(Append(list, e))
<1> DEFINE long == Append(list, e)
<1>1. /\ long \in Seq(S) /\ Len(long) = Len(list) + 1 /\ Len(list) \in Nat
      /\ long[Len(list) + 1] = e /\ \A i \in 1..Len(list) : long[i] = list[i]
  OBVIOUS
<1> HIDE DEF long
<1>2. \A i : i \in 1..Len(long) <=> i \in 1..Len(list) \/ i = Len(list) + 1
  BY <1>1
<1>3. ASSUME NEW x PROVE x \in List!Range(long) <=> x \in List!Range(list) \union {e}
  <2>1. x \in List!Range(long) <=> \E i \in 1..Len(long) : x = long[i]
    BY <1>1, RangeOf
  <2>2. x \in List!Range(list) <=> \E i \in 1..Len(list) : x = list[i]
    BY RangeOf
  <2> QED BY <1>1, <1>2, <2>1, <2>2
<1>4. ASSUME List!IsInjective(list), e \notin List!Range(list) PROVE List!IsInjective(long)
  <2>1. \A i, j \in 1..Len(list) : list[i] = list[j] => i = j
    BY <1>4, RangeOf
  <2>2. \A i \in 1..Len(list) : list[i] # e
    BY <1>4, RangeOf
  <2>3. \A i, j \in 1..Len(long) : long[i] = long[j] => i = j
    BY <1>1, <1>2, <2>1, <2>2
  <2> QED BY <1>1, <2>3, RangeOf
<1> QED BY <1>1, <1>3, <1>4 DEF long

\* What is taken out goes, the rest stays in its order.
LEMMA WithoutProperties ==
  ASSUME NEW S, NEW list \in Seq(S), NEW gone
  PROVE  /\ List!Without(list, gone) \in Seq(S)
         /\ List!Range(List!Without(list, gone)) = List!Range(list) \ gone
         /\ List!IsInjective(list) => List!IsInjective(List!Without(list, gone))
<1>1. Len(list) \in Nat /\ \A i \in 1..Len(list) : list[i] \in S
  OBVIOUS
<1>2. PICK F : /\ F = [n \in 0..Len(list) |->
                          IF n = 0 THEN <<>>
                          ELSE IF list[n] \in gone THEN F[n - 1] ELSE Append(F[n - 1], list[n])]
               /\ List!Without(list, gone) = F[Len(list)]
  BY WithoutSteps
<1>3. F[0] = <<>>
  BY <1>1, <1>2
<1>4. ASSUME NEW n \in 1..Len(list)
      PROVE  F[n] = IF list[n] \in gone THEN F[n - 1] ELSE Append(F[n - 1], list[n])
  <2>1. n \in 0..Len(list) /\ n # 0
    BY <1>1
  <2>2. \A x \in 0..Len(list) :
          F[x] = IF x = 0 THEN <<>>
                 ELSE IF list[x] \in gone THEN F[x - 1] ELSE Append(F[x - 1], list[x])
    BY <1>2
  <2> QED BY <2>1, <2>2
<1> DEFINE First(n) == {list[i] : i \in 1..n}
           Good(n) == /\ F[n] \in Seq(S)
                      /\ List!Range(F[n]) = First(n) \ gone
                      /\ List!IsInjective(list) => List!IsInjective(F[n])
           Bad == {n \in 0..Len(list) : ~Good(n)}
<1>5. Bad \subseteq 0..Len(list) /\ \A n \in 0..Len(list) : n \in Bad <=> ~Good(n)
  OBVIOUS
<1>6. Good(0)
  <2>1. F[0] \in Seq(S) /\ Len(F[0]) = 0
    BY <1>3
  <2>2. \A x : x \notin List!Range(F[0])
    <3>1. 1..0 = {}
      OBVIOUS
    <3> QED BY <2>1, <3>1, RangeOf
  <2>3. List!IsInjective(F[0])
    BY <1>3 DEF List!IsInjective
  <2>4. First(0) = {}
    OBVIOUS
  <2> QED BY <2>1, <2>2, <2>3, <2>4
<1>7. ASSUME NEW n \in 1..Len(list), Good(n - 1) PROVE Good(n)
  <2>1. n - 1 \in 0..Len(list) /\ list[n] \in S /\ \A i : i \in 1..n <=> i \in 1..n - 1 \/ i = n
    BY <1>1
  <2>2. First(n) = First(n - 1) \union {list[n]}
    BY <2>1
  <2> HIDE DEF First
  <2>3. CASE list[n] \in gone
    <3>1. F[n] = F[n - 1]
      BY <1>4, <2>3
    <3> QED BY <1>7, <2>2, <2>3, <3>1
  <2>4. CASE list[n] \notin gone
    <3>1. F[n] = Append(F[n - 1], list[n])
      BY <1>4, <2>4
    <3>2. F[n] \in Seq(S) /\ List!Range(F[n]) = List!Range(F[n - 1]) \union {list[n]}
      BY <1>7, <2>1, <3>1, RangeOfAppend
    <3>3. List!Range(F[n]) = First(n) \ gone
      BY <1>7, <2>2, <2>4, <3>2
    <3>4. List!IsInjective(list) => list[n] \notin List!Range(F[n - 1])
      <4> SUFFICES ASSUME List!IsInjective(list), list[n] \in First(n - 1) PROVE FALSE
        BY <1>7
      <4>1. PICK i \in 1..n - 1 : list[i] = list[n]
        BY DEF First
      <4>2. i \in 1..Len(list) /\ i # n
        BY <1>1
      <4> QED BY <4>1, <4>2, RangeOf
    <3>5. List!IsInjective(list) => List!IsInjective(F[n])
      BY <1>7, <2>1, <3>1, <3>4, RangeOfAppend
    <3> QED BY <3>2, <3>3, <3>5
  <2> QED BY <2>3, <2>4
<1> HIDE DEF Bad, Good
<1>8. Bad = {}
  <2> SUFFICES ASSUME Bad # {} PROVE FALSE
    OBVIOUS
  <2>1. PICK m \in Bad : \A n \in Bad : m <= n
    <3>1. Bad \subseteq Nat
      BY <1>1, <1>5
    <3> QED BY <3>1, LeastOf
  <2>2. m \in 1..Len(list) /\ ~Good(m)
    <3>1. m \in 0..Len(list) /\ ~Good(m)
      BY <1>5
    <3>2. m # 0
      BY <1>6, <3>1
    <3> QED BY <1>1, <3>1, <3>2
  <2>3. m - 1 \notin Bad
    <3>1. m \in Nat /\ m - 1 \in Nat /\ ~(m <= m - 1)
      BY <1>1, <2>2
    <3> QED BY <2>1, <3>1
  <2>4. m - 1 \in 0..Len(list)
    BY <1>1, <2>2
  <2> QED BY <1>5, <1>7, <2>2, <2>3, <2>4
<1>9. Good(Len(list))
  <2>1. Len(list) \in 0..Len(list)
    BY <1>1
  <2> QED BY <1>5, <1>8, <2>1
<1>10. First(Len(list)) = List!Range(list)
  BY RangeOf
<1> QED BY <1>2, <1>9, <1>10 DEF Good

\* The entries, in some order.
LEMMA Listing ==
  ASSUME NEW S, List!IsFiniteSet(S)
  PROVE  /\ List!Cardinality(S) \in Nat
         /\ List!SetToSeq(S) \in Seq(S)
         /\ Len(List!SetToSeq(S)) = List!Cardinality(S)
         /\ List!IsInjective(List!SetToSeq(S))
<1>1. List!IsFiniteSet(S) = IsFiniteSet(S)
  BY DEF List!IsFiniteSet, IsFiniteSet
<1>2. List!Cardinality(S) = Cardinality(S)
  BY DEF List!Cardinality, Cardinality
<1>3. PICK n \in Nat : ExistsBijection(1..n, S)
  BY <1>1, FS_NatBijection
<1>4. Cardinality(S) = n
  BY <1>3, FS_CountingElements
<1>5. PICK f \in [1..n -> S] : \A a, b \in 1..n : f[a] = f[b] => a = b
  BY <1>3 DEF ExistsBijection, Bijection, Injection, IsInjective
<1>6. List!IsInjective(f)
  BY <1>5 DEF List!IsInjective
<1> DEFINE q == List!SetToSeq(S)
<1>7. q \in [1..n -> S] /\ List!IsInjective(q)
  BY <1>2, <1>4, <1>5, <1>6 DEF List!SetToSeq
<1> HIDE DEF q
<1>8. q \in Seq(S) /\ Len(q) = n
  BY <1>7
<1> QED BY <1>2, <1>4, <1>7, <1>8 DEF q

\* A part of a list has some of its entries, each once.
LEMMA PartOf ==
  ASSUME NEW S, NEW list \in Seq(S), NEW m \in Nat \ {0}, NEW n \in Nat, n <= Len(list)
  PROVE  /\ SubSeq(list, m, n) \in Seq(S)
         /\ List!Range(SubSeq(list, m, n)) \subseteq List!Range(list)
         /\ List!IsInjective(list) => List!IsInjective(SubSeq(list, m, n))
<1> DEFINE part == SubSeq(list, m, n)
<1>1. Len(list) \in Nat /\ \A i \in 1..Len(list) : list[i] \in S
  OBVIOUS
<1>2. \A i \in m..n : i \in 1..Len(list)
  BY <1>1
<1>3. /\ part \in Seq(S) /\ Len(part) = IF m <= n THEN n - m + 1 ELSE 0
      /\ \A i \in 1..n - m + 1 : part[i] = list[m + i - 1]
  <2>1. \A i \in m..n : list[i] \in S
    BY <1>1, <1>2
  <2>2. m \in Int /\ n \in Int
    OBVIOUS
  <2> QED BY <2>1, <2>2, SubSeqProperties
<1> HIDE DEF part
<1>4. ASSUME NEW i \in 1..Len(part) PROVE part[i] = list[m + i - 1] /\ m + i - 1 \in 1..Len(list)
  <2>1. i \in 1..n - m + 1 /\ m + i - 1 \in 1..Len(list)
    BY <1>1, <1>3
  <2> QED BY <1>3, <2>1
<1>5. List!Range(part) \subseteq List!Range(list)
  <2> SUFFICES ASSUME NEW x \in List!Range(part) PROVE x \in List!Range(list)
    OBVIOUS
  <2>1. PICK i \in 1..Len(part) : x = part[i]
    BY <1>3, RangeOf
  <2> QED BY <1>4, <2>1, RangeOf
<1>6. ASSUME List!IsInjective(list) PROVE List!IsInjective(part)
  <2> SUFFICES ASSUME NEW i \in 1..Len(part), NEW j \in 1..Len(part), part[i] = part[j] PROVE i = j
    BY <1>3, RangeOf
  <2>1. \A a, b \in 1..Len(list) : list[a] = list[b] => a = b
    BY <1>6, RangeOf
  <2>2. m + i - 1 = m + j - 1
    BY <1>4, <2>1
  <2>3. Len(part) \in Nat
    BY <1>3
  <2>4. i \in Nat /\ j \in Nat
    BY <2>3
  <2> QED BY <2>2, <2>4
<1> QED BY <1>3, <1>5, <1>6 DEF part

\* An entry that comes into a list.
LEMMA InsertedInto ==
  ASSUME NEW S, NEW list \in Seq(S), NEW e \in S, NEW k \in 1..Len(list) + 1,
         List!IsInjective(list), e \notin List!Range(list)
  PROVE  /\ List!InsertAt(list, k, e) \in Seq(S)
         /\ List!Range(List!InsertAt(list, k, e)) \subseteq List!Range(list) \union {e}
         /\ List!IsInjective(List!InsertAt(list, k, e))
<1> DEFINE front == SubSeq(list, 1, k - 1)
           back == SubSeq(list, k, Len(list))
           long == front \o <<e>> \o back
<1>1. Len(list) \in Nat /\ k \in Nat /\ 1 <= k /\ k <= Len(list) + 1 /\ k - 1 \in Nat
  OBVIOUS
<1>2. \A i \in 1..Len(list) : list[i] \in S
  OBVIOUS
<1>3. /\ front \in Seq(S) /\ Len(front) = k - 1 /\ \A i \in 1..k - 1 : front[i] = list[i]
  <2>1. \A i \in 1..k - 1 : list[i] \in S
    BY <1>1, <1>2
  <2>2. PICK n : n = k - 1
    OBVIOUS
  <2>3. n \in Int /\ 1 \in Int
    BY <1>1, <2>2
  <2>4. \A i \in 1..n : list[i] \in S
    BY <2>1, <2>2
  <2>5. /\ SubSeq(list, 1, n) \in Seq(S)
        /\ Len(SubSeq(list, 1, n)) = IF 1 <= n THEN n - 1 + 1 ELSE 0
        /\ \A i \in 1..n - 1 + 1 : SubSeq(list, 1, n)[i] = list[1 + i - 1]
    BY <2>3, <2>4, SubSeqProperties
  <2>6. n \in Nat /\ n - 1 + 1 = n /\ (~(1 <= n) => n = 0)
    BY <1>1, <2>2
  <2>7. \A i \in 1..n : 1 + i - 1 = i
    BY <2>6
  <2> QED BY <2>2, <2>5, <2>6, <2>7
<1>4. /\ back \in Seq(S) /\ Len(back) = Len(list) - (k - 1)
      /\ \A i \in 1..Len(list) - (k - 1) : back[i] = list[i + (k - 1)]
  <2>1. PICK n : n = Len(list)
    OBVIOUS
  <2>2. n \in Int /\ k \in Int /\ n \in Nat
    BY <1>1, <2>1
  <2>3. \A i \in k..n : list[i] \in S
    BY <1>1, <1>2, <2>1
  <2>4. /\ SubSeq(list, k, n) \in Seq(S)
        /\ Len(SubSeq(list, k, n)) = IF k <= n THEN n - k + 1 ELSE 0
        /\ \A i \in 1..n - k + 1 : SubSeq(list, k, n)[i] = list[k + i - 1]
    BY <2>2, <2>3, SubSeqProperties
  <2>5. n - k + 1 = n - (k - 1) /\ (~(k <= n) => n - (k - 1) = 0)
    BY <1>1, <2>1, <2>2
  <2>6. \A i \in 1..n - (k - 1) : k + i - 1 = i + (k - 1)
    BY <1>1, <2>2
  <2> QED BY <2>1, <2>4, <2>5, <2>6
<1> HIDE DEF front, back
<1>5. PICK m : m = k - 1
  OBVIOUS
<1>6. m \in Nat /\ m <= Len(list)
  BY <1>1, <1>5
<1>7. front \o <<e>> \in Seq(S) /\ Len(front \o <<e>>) = m + 1
      /\ \A i \in 1..m + 1 : (front \o <<e>>)[i] = IF i <= m THEN list[i] ELSE e
  <2>1. <<e>> \in Seq(S) /\ Len(<<e>>) = 1 /\ <<e>>[1] = e
    OBVIOUS
  <2>2. PICK one : one = <<e>>
    OBVIOUS
  <2>3. /\ front \o one \in Seq(S) /\ Len(front \o one) = Len(front) + Len(one)
        /\ \A i \in 1..Len(front) + Len(one) :
             (front \o one)[i] = IF i <= Len(front) THEN front[i] ELSE one[i - Len(front)]
    BY <1>3, <2>1, <2>2, ConcatProperties
  <2>4. \A i \in 1..m + 1 : (i <= m => i \in 1..m) /\ (~(i <= m) => i - m = 1)
    BY <1>6
  <2>5. Len(front) = m /\ Len(one) = 1 /\ one[1] = e /\ \A i \in 1..m : front[i] = list[i]
    BY <1>3, <1>5, <2>1, <2>2
  <2>6. \A i \in 1..m + 1 : (front \o one)[i] = IF i <= m THEN list[i] ELSE e
    BY <2>3, <2>4, <2>5
  <2> QED BY <2>2, <2>3, <2>5, <2>6
<1>8. PICK head : head = front \o <<e>>
  OBVIOUS
<1>9. /\ long \in Seq(S) /\ Len(long) = Len(list) + 1
      /\ \A i \in 1..Len(list) + 1 :
           long[i] = IF i <= m THEN list[i] ELSE IF i = m + 1 THEN e ELSE list[i - 1]
  <2>1. /\ head \o back \in Seq(S) /\ Len(head \o back) = Len(head) + Len(back)
        /\ \A i \in 1..Len(head) + Len(back) :
             (head \o back)[i] = IF i <= Len(head) THEN head[i] ELSE back[i - Len(head)]
    <3>1. head \in Seq(S)
      BY <1>7, <1>8
    <3> QED BY <1>4, <3>1, ConcatProperties
  <2>2. Len(head) = m + 1 /\ Len(back) = Len(list) - m /\ (m + 1) + (Len(list) - m) = Len(list) + 1
    BY <1>1, <1>4, <1>5, <1>6, <1>7, <1>8
  <2>3. ASSUME NEW i \in 1..Len(list) + 1
        PROVE  (head \o back)[i] = IF i <= m THEN list[i] ELSE IF i = m + 1 THEN e ELSE list[i - 1]
    <3>1. CASE i <= m + 1
      <4>1. i \in 1..m + 1 /\ (~(i <= m) => i = m + 1)
        BY <1>1, <1>6, <3>1
      <4>2. (head \o back)[i] = head[i]
        BY <2>1, <2>2, <3>1
      <4> QED BY <1>7, <1>8, <4>1, <4>2
    <3>2. CASE ~(i <= m + 1)
      <4>1. /\ i - (m + 1) \in 1..Len(list) - m /\ (i - (m + 1)) + m = i - 1
            /\ ~(i <= m) /\ i # m + 1
        BY <1>1, <1>6, <3>2
      <4>2. (head \o back)[i] = back[i - (m + 1)]
        BY <2>1, <2>2, <3>2
      <4>3. back[i - (m + 1)] = list[(i - (m + 1)) + m]
        BY <1>4, <1>5, <4>1
      <4> QED BY <4>1, <4>2, <4>3
    <3> QED BY <3>1, <3>2
  <2> QED BY <1>8, <2>1, <2>2, <2>3
<1> HIDE DEF long
<1>10. List!Range(long) \subseteq List!Range(list) \union {e}
  <2> SUFFICES ASSUME NEW x \in List!Range(long), x # e PROVE x \in List!Range(list)
    OBVIOUS
  <2>1. PICK i \in 1..Len(list) + 1 : x = long[i]
    BY <1>9, RangeOf
  <2>2. x = IF i <= m THEN list[i] ELSE list[i - 1]
    BY <1>9, <2>1
  <2>3. (i <= m => i \in 1..Len(list)) /\ (~(i <= m) /\ i # m + 1 => i - 1 \in 1..Len(list))
    BY <1>1, <1>6
  <2>4. i # m + 1
    BY <1>6, <1>9, <2>1
  <2> QED BY <2>2, <2>3, <2>4, RangeOf
<1>11. List!IsInjective(long)
  <2>1. \A i \in 1..Len(list) : list[i] # e
    BY RangeOf
  <2>2. \A i, j \in 1..Len(list) : list[i] = list[j] => i = j
    BY RangeOf
  <2>3. ASSUME NEW i \in 1..Len(list) + 1, NEW j \in 1..Len(list) + 1, long[i] = long[j] PROVE i = j
    <3> DEFINE At(x) == IF x <= m THEN x ELSE x - 1
    <3>1. \A x \in 1..Len(list) + 1 :
            /\ x # m + 1 => At(x) \in 1..Len(list)
            /\ \A y \in 1..Len(list) + 1 : x # m + 1 /\ y # m + 1 /\ At(x) = At(y) => x = y
      BY <1>1, <1>6
    <3>2. \A x \in 1..Len(list) + 1 : long[x] = IF x = m + 1 THEN e ELSE list[At(x)]
      BY <1>6, <1>9
    <3> HIDE DEF At
    <3> QED BY <2>1, <2>2, <2>3, <3>1, <3>2
  <2> QED BY <1>9, <2>3, RangeOf
<1> QED BY <1>9, <1>10, <1>11 DEF long, front, back, List!InsertAt

-----------------------------------------------------------------------------
(* AdminTable: its steps *)

\* What the invariant says, in the terms the steps use.
LEMMA TableFacts ==
  ASSUME List!TableAssumption, List!TableIInv
  PROVE  /\ store \in Seq(Entry) /\ rows \in Seq(Entry) /\ fetch.list \in Seq(Entry)
         /\ List!IsInjective(store) /\ List!IsInjective(rows) /\ List!IsInjective(fetch.list)
         /\ Len(rows) \in Nat /\ Len(store) \in Nat /\ number \in Nat \ {0} /\ PageSize \in Nat \ {0}
         /\ \A i \in 1..Len(rows) : rows[i] \in Entry
         /\ \A x : x \in List!Range(rows) <=> \E i \in 1..Len(rows) : x = rows[i]
         /\ \A i, j \in 1..Len(rows) : rows[i] = rows[j] => i = j
         /\ List!Range(rows) \subseteq Entry /\ List!Range(store) \subseteq Entry
         /\ List!Range(fetch.list) \subseteq Entry
         /\ fresh \subseteq Entry /\ fresh \intersect List!Range(store) = {}
         /\ fresh \intersect List!Range(rows) = {} /\ fresh \intersect List!Range(fetch.list) = {}
         /\ fresh \intersect op.ids = {} /\ op.ids \subseteq Entry
         /\ picked \subseteq Nat \ {0} /\ ticked \subseteq Entry
         /\ asking \in {"no"} \union List!Confirmed \union Entry
         /\ "no" \notin Entry /\ "no" \notin List!Confirmed /\ "update" \notin Entry
         /\ Entry \intersect List!Confirmed = {}
<1>1. List!TypeOK /\ List!GoneStaysAway
  BY DEF List!TableIInv
<1>2. store \in Seq(Entry) /\ rows \in Seq(Entry) /\ fetch.list \in Seq(Entry)
  BY <1>1 DEF List!TypeOK
<1>3. /\ List!IsInjective(store) /\ List!IsInjective(rows) /\ List!IsInjective(fetch.list)
      /\ fresh \subseteq Entry /\ fresh \intersect List!Range(store) = {}
      /\ fresh \intersect List!Range(rows) = {} /\ fresh \intersect List!Range(fetch.list) = {}
      /\ fresh \intersect op.ids = {} /\ op.ids \subseteq Entry
      /\ picked \subseteq Nat \ {0} /\ ticked \subseteq Entry
      /\ asking \in {"no"} \union List!Confirmed \union Entry /\ number \in Nat \ {0}
  BY <1>1 DEF List!TypeOK, List!GoneStaysAway
<1>4. Len(rows) \in Nat /\ Len(store) \in Nat /\ \A i \in 1..Len(rows) : rows[i] \in Entry
  BY <1>2
<1>5. /\ "no" \notin Entry /\ "no" \notin List!Confirmed /\ "update" \notin Entry
      /\ Entry \intersect List!Confirmed = {} /\ PageSize \in Nat \ {0}
  BY DEF List!TableAssumption, List!Confirmed
<1>6. /\ \A x : x \in List!Range(rows) <=> \E i \in 1..Len(rows) : x = rows[i]
      /\ \A i, j \in 1..Len(rows) : rows[i] = rows[j] => i = j
      /\ List!Range(rows) \subseteq Entry
  BY <1>2, <1>3, RangeOf
<1>7. List!Range(store) \subseteq Entry /\ List!Range(fetch.list) \subseteq Entry
  BY <1>2, RangeOf
<1> QED BY <1>2, <1>3, <1>4, <1>5, <1>6, <1>7

\* The list without entries.
LEMMA NoRows ==
  <<>> \in Seq(Entry) /\ Len(<<>>) = 0 /\ List!Range(<<>>) = {} /\ List!IsInjective(<<>>)
BY DEF List!Range, List!IsInjective

\* Entries under ticks are shown; there are some where a row is ticked.
LEMMA UnderIsShown ==
  ASSUME List!TableAssumption, List!TableIInv
  PROVE  /\ List!Under \subseteq List!Range(rows)
         /\ List!Under # {} <=> picked \intersect 1..Len(rows) # {}
BY TableFacts DEF List!Under

\* A list request answers with stored entries, each once.
LEMMA ListedProperties ==
  ASSUME List!TableAssumption, List!TableIInv
  PROVE  /\ List!Listed(number) \in Seq(Entry)
         /\ List!Range(List!Listed(number)) \subseteq List!Range(store)
         /\ List!IsInjective(List!Listed(number))
<1>0. /\ store \in Seq(Entry) /\ List!IsInjective(store) /\ Len(store) \in Nat
      /\ number \in Nat \ {0} /\ PageSize \in Nat \ {0}
  BY TableFacts
<1>1. CASE table.paged
  <2> DEFINE m == (number - 1) * PageSize + 1
             n == IF number * PageSize < Len(store) THEN number * PageSize ELSE Len(store)
  <2>1. (number - 1) * PageSize \in Nat /\ number * PageSize \in Nat
    BY <1>0
  <2>2. m \in Nat \ {0} /\ n \in Nat /\ n <= Len(store)
    BY <1>0, <2>1
  <2>3. List!Listed(number) = SubSeq(store, m, n)
    BY <1>1 DEF List!Listed
  <2> HIDE DEF m, n
  <2> QED BY <1>0, <2>2, <2>3, PartOf
<1>2. CASE ~table.paged
  BY <1>0, <1>2 DEF List!Listed
<1> QED BY <1>1, <1>2

Ops == [at : {"idle", "sent", "answered", "mutating"},
        kind : {"none", "run", "update"} \union List!Confirmed,
        ids : SUBSET Entry, row : BOOLEAN, done : BOOLEAN]

\* What an operation sends.
LEMMA SentOps ==
  ASSUME NEW kind \in {"none", "run", "update"} \union List!Confirmed, NEW ids \in SUBSET Entry,
         NEW row \in BOOLEAN, List!Send(kind, ids, row)
  PROVE  op' \in Ops /\ op'.at = "sent" /\ op'.ids = ids
BY DEF List!Send, List!NoOp, Ops

\* At rest no operation is under way.
LEMMA NoOps == List!NoOp \in Ops /\ List!NoOp.at = "idle" /\ List!NoOp.ids = {}
BY DEF List!NoOp, Ops

\* A table that is just shown asks nothing.
LEMMA TableInit == List!TableAssumption /\ List!Init => List!TableIInv
<1> SUFFICES ASSUME List!TableAssumption, List!Init PROVE List!TableIInv
  OBVIOUS
<1>1. PICK n \in 0..List!Cardinality(Entry) :
        store = SubSeq(List!SetToSeq(Entry), 1, n) /\ fresh = Entry \ List!Range(store)
  BY DEF List!Init
<1>2. /\ List!Cardinality(Entry) \in Nat /\ List!SetToSeq(Entry) \in Seq(Entry)
      /\ Len(List!SetToSeq(Entry)) = List!Cardinality(Entry) /\ List!IsInjective(List!SetToSeq(Entry))
  BY Listing DEF List!TableAssumption
<1>3. store \in Seq(Entry) /\ List!IsInjective(store)
  <2>1. n \in Nat /\ n <= Len(List!SetToSeq(Entry)) /\ 1 \in Nat \ {0}
    BY <1>2
  <2> QED BY <1>1, <1>2, <2>1, PartOf
<1>4. /\ table \in List!Tables /\ admin \in BOOLEAN
      /\ elsewhere = 0 /\ number = 1
      /\ rows = <<>> /\ failing = FALSE /\ fetch = [at |-> "asked", list |-> <<>>]
      /\ picked = {} /\ ticked = {} /\ turned = FALSE /\ asking = "no" /\ op = List!NoOp
  BY DEF List!Init, List!Asked
<1>5. List!TypeOK
  <2>1. {store, rows, fetch.list} \subseteq Seq(Entry)
    BY <1>3, <1>4, NoRows
  <2>2. op \in Ops
    BY <1>4, NoOps
  <2>3. elsewhere \in 0..MaxChanges /\ number \in Nat \ {0}
    BY <1>4 DEF List!TableAssumption
  <2>4. /\ fresh \subseteq Entry \ List!Range(store) /\ failing \in BOOLEAN
        /\ fetch.at \in {"no", "asked", "read"} /\ picked \subseteq Nat \ {0} /\ ticked \subseteq Entry
        /\ turned \in BOOLEAN /\ asking \in {"no"} \union List!Confirmed \union Entry
    BY <1>1, <1>4
  <2> QED BY <1>3, <1>4, <2>1, <2>2, <2>3, <2>4 DEF List!TypeOK, Ops
<1>6. List!AskedIsTicked /\ List!RowDialogsAreAboutTheirRow
  BY <1>4 DEF List!AskedIsTicked, List!RowDialogsAreAboutTheirRow, List!TableAssumption, List!Confirmed
<1>7. List!GoneStaysAway
  BY <1>4, NoRows, NoOps DEF List!GoneStaysAway
<1>8. List!TicksAreMeant /\ List!BatchesAreNotEmpty
  BY <1>4, NoOps DEF List!TicksAreMeant, List!BatchesAreNotEmpty
<1> QED BY <1>5, <1>6, <1>7, <1>8 DEF List!TableIInv

\* Every step of the page, the dashboard and others keeps the invariant.
LEMMA TableStep ==
  List!TableAssumption /\ List!TableIInv /\ [List!Next]_tableVars => List!TableIInv'
<1> SUFFICES ASSUME List!TableAssumption, List!TableIInv, [List!Next]_tableVars
             PROVE  List!TableIInv'
  OBVIOUS
<1> USE NoRows, NoOps
<1>0. /\ List!TypeOK /\ List!AskedIsTicked /\ List!TicksAreMeant /\ List!GoneStaysAway
      /\ List!BatchesAreNotEmpty /\ List!RowDialogsAreAboutTheirRow
  BY DEF List!TableIInv
<1>a. /\ \A i \in 1..Len(rows) : rows[i] \in Entry
      /\ \A x : x \in List!Range(rows) <=> \E i \in 1..Len(rows) : x = rows[i]
      /\ \A i, j \in 1..Len(rows) : rows[i] = rows[j] => i = j
      /\ "no" \notin Entry /\ "no" \notin List!Confirmed /\ "update" \notin Entry
      /\ Entry \intersect List!Confirmed = {} /\ Len(rows) \in Nat
      /\ asking \in {"no"} \union List!Confirmed \union Entry
      /\ List!Range(rows) \subseteq Entry
  BY TableFacts
\* What other steps leave alone.
<1>b. ASSUME UNCHANGED <<table, admin, store, fresh, elsewhere, number, rows, failing, fetch, turned, op>>,
             picked' \subseteq Nat \ {0}, ticked' \subseteq Entry,
             asking' \in {"no"} \union List!Confirmed \union Entry,
             asking' \in List!Confirmed => picked' \intersect 1..Len(rows) # {},
             asking' \in Entry => asking' \in List!Range(rows),
             ~turned => \A i \in picked' \intersect 1..Len(rows) : rows[i] \in ticked'
      PROVE  List!TableIInv'
  <2>1. List!TypeOK'
    BY <1>0, <1>b DEF List!TypeOK
  <2>2. List!AskedIsTicked' /\ List!TicksAreMeant' /\ List!RowDialogsAreAboutTheirRow'
    BY <1>b DEF List!AskedIsTicked, List!TicksAreMeant, List!RowDialogsAreAboutTheirRow
  <2>3. List!GoneStaysAway' /\ List!BatchesAreNotEmpty'
    BY <1>0, <1>b DEF List!GoneStaysAway, List!BatchesAreNotEmpty
  <2> QED BY <2>1, <2>2, <2>3 DEF List!TableIInv
\* What an operation changes when it is sent.
<1>c. ASSUME NEW kind \in {"run", "update"} \union List!Confirmed, NEW ids \in SUBSET List!Range(rows),
             NEW row \in BOOLEAN, ids # {}, List!Send(kind, ids, row), asking' = asking \/ asking' = "no"
      PROVE  List!TableIInv'
  <2>1. op' \in Ops /\ op'.at = "sent" /\ op'.ids = ids
    <3>1. kind \in {"none", "run", "update"} \union List!Confirmed /\ ids \in SUBSET Entry
      BY <1>a
    <3> QED BY <1>c, <3>1, SentOps
  <2>2. UNCHANGED <<table, admin, store, fresh, elsewhere, number, rows, failing, fetch, picked, ticked, turned>>
    BY <1>c DEF List!Send, List!tableVars, List!storeVars, List!rowVars, List!pickVars
  <2>3. List!TypeOK'
    BY <1>0, <1>c, <2>1, <2>2 DEF List!TypeOK, Ops
  <2>4. List!AskedIsTicked' /\ List!TicksAreMeant' /\ List!RowDialogsAreAboutTheirRow'
    BY <1>0, <1>a, <1>c, <2>2 DEF List!AskedIsTicked, List!TicksAreMeant, List!RowDialogsAreAboutTheirRow
  <2>5. List!GoneStaysAway'
    BY <1>0, <1>c, <2>1, <2>2 DEF List!GoneStaysAway
  <2>6. List!BatchesAreNotEmpty'
    BY <1>c, <2>1 DEF List!BatchesAreNotEmpty
  <2> QED BY <2>3, <2>4, <2>5, <2>6 DEF List!TableIInv
\* What rows and an answer change when they are shown.
<1>d. ASSUME NEW q \in {rows, fetch.list}, NEW error \in BOOLEAN, List!Show(q, error), List!EndMutate,
             fetch' = List!NoFetch, UNCHANGED <<table, admin, store, fresh, elsewhere, number>>
      PROVE  List!TableIInv'
  <2>1. /\ q \in Seq(Entry) /\ List!IsInjective(q) /\ fresh \intersect List!Range(q) = {} /\ Len(q) \in Nat
    BY TableFacts
  <2>2. /\ rows' = q /\ failing' = error /\ turned' = (turned \/ List!Replaced(q))
        /\ UNCHANGED <<picked, ticked>> /\ fetch' = [at |-> "no", list |-> <<>>]
    BY <1>d DEF List!Show, List!NoFetch
  <2>3. asking' = CASE asking \in Entry -> IF q # rows \/ error # failing \/ error THEN "no" ELSE asking
                    [] asking = "no" -> "no"
                    [] OTHER -> IF picked \intersect 1..Len(q) = {} THEN "no" ELSE asking
    BY <1>d DEF List!Show
  <2>4. op' \in Ops /\ (op' = List!NoOp \/ (op' = op /\ op.at # "mutating"))
    BY <1>0, <1>d DEF List!EndMutate, List!TypeOK, Ops
  <2>5. \/ asking' = "no"
        \/ asking' = asking /\ asking \in Entry /\ q = rows
        \/ asking' = asking /\ asking \in List!Confirmed /\ picked \intersect 1..Len(q) # {}
    BY <1>a, <2>3
  <2>6. List!TypeOK'
    <3>1. {store', rows', fetch'.list} \subseteq Seq(Entry)
      BY <1>0, <1>d, <2>1, <2>2 DEF List!TypeOK
    <3>2. turned' \in BOOLEAN
      BY <2>2
    <3>3. asking' \in {"no"} \union List!Confirmed \union Entry
      BY <2>5
    <3> QED BY <1>0, <1>d, <2>2, <2>4, <3>1, <3>2, <3>3 DEF List!TypeOK, Ops
  <2>7. List!AskedIsTicked'
    BY <1>a, <2>2, <2>5 DEF List!AskedIsTicked
  <2>8. List!RowDialogsAreAboutTheirRow'
    BY <1>0, <1>a, <2>2, <2>5 DEF List!RowDialogsAreAboutTheirRow
  <2>9. List!TicksAreMeant'
    <3> SUFFICES ASSUME ~turned', NEW i \in picked, i \in 1..Len(q) PROVE q[i] \in ticked
      BY <2>2 DEF List!TicksAreMeant
    <3>1. ~turned /\ ~List!Replaced(q)
      BY <2>2
    <3>2. i \in Nat \ {0} /\ i <= Len(q)
      BY <2>1
    <3>3. i <= Len(rows) /\ rows[i] = q[i]
      BY <1>a, <3>1, <3>2 DEF List!Replaced
    <3>4. i \in 1..Len(rows)
      BY <1>a, <3>2, <3>3
    <3> QED BY <1>0, <3>1, <3>3, <3>4 DEF List!TicksAreMeant
  <2>10. List!GoneStaysAway'
    BY <1>0, <1>d, <2>1, <2>2, <2>4 DEF List!GoneStaysAway
  <2>11. List!BatchesAreNotEmpty'
    BY <1>0, <2>4 DEF List!BatchesAreNotEmpty
  <2> QED BY <2>6, <2>7, <2>8, <2>9, <2>10, <2>11 DEF List!TableIInv
<1> USE DEF List!tableVars, List!storeVars, List!rowVars, List!pickVars
<1>1. ASSUME NEW i \in 1..List!Cardinality(Entry), List!Tick(i) PROVE List!TableIInv'
  <2>1. /\ asking = "no" /\ i \in 1..Len(rows) /\ i \in Nat \ {0} /\ rows[i] \in Entry
        /\ UNCHANGED <<table, admin, store, fresh, elsewhere, number, rows, failing, fetch, turned, asking, op>>
    BY <1>1, <1>a DEF List!Tick, List!Free
  <2>2. CASE i \in picked
    <3>1. picked' = picked \ {i} /\ ticked' = ticked \ {rows[i]}
      BY <1>1, <2>2 DEF List!Tick
    <3>2. ~turned => \A j \in picked' \intersect 1..Len(rows) : rows[j] \in ticked'
      BY <1>0, <1>a, <2>1, <3>1 DEF List!TicksAreMeant
    <3>3. picked' \subseteq Nat \ {0} /\ ticked' \subseteq Entry
      BY <1>0, <3>1 DEF List!TypeOK
    <3> QED BY <1>a, <1>b, <2>1, <3>2, <3>3
  <2>3. CASE i \notin picked
    <3>1. picked' = picked \union {i} /\ ticked' = ticked \union {rows[i]}
      BY <1>1, <2>3 DEF List!Tick
    <3>2. ~turned => \A j \in picked' \intersect 1..Len(rows) : rows[j] \in ticked'
      BY <1>0, <2>1, <3>1 DEF List!TicksAreMeant
    <3>3. picked' \subseteq Nat \ {0} /\ ticked' \subseteq Entry
      BY <1>0, <2>1, <3>1 DEF List!TypeOK
    <3> QED BY <1>a, <1>b, <2>1, <3>2, <3>3
  <2> QED BY <2>2, <2>3
<1>2. CASE List!TickAll
  <2>1. /\ asking = "no"
        /\ UNCHANGED <<table, admin, store, fresh, elsewhere, number, rows, failing, fetch, turned, asking, op>>
    BY <1>2 DEF List!TickAll, List!Free
  <2>2. \/ picked' = picked \ 1..Len(rows) /\ ticked' = ticked \ List!Range(rows)
        \/ picked' = picked \union 1..Len(rows) /\ ticked' = ticked \union List!Range(rows)
    BY <1>2 DEF List!TickAll
  <2>3. ~turned => \A j \in picked' \intersect 1..Len(rows) : rows[j] \in ticked'
    BY <1>a, <2>2
  <2>4. picked' \subseteq Nat \ {0} /\ ticked' \subseteq Entry
    <3>1. 1..Len(rows) \subseteq Nat \ {0}
      BY <1>a
    <3> QED BY <1>0, <1>a, <2>2, <3>1 DEF List!TypeOK
  <2> QED BY <1>a, <1>b, <2>1, <2>3, <2>4
<1>3. ASSUME NEW kind \in List!Confirmed, List!AskBatch(kind) PROVE List!TableIInv'
  <2>1. /\ asking' = kind /\ List!Under # {}
        /\ UNCHANGED <<table, admin, store, fresh, elsewhere, number, rows, failing, fetch, picked, ticked, turned, op>>
    BY <1>3 DEF List!AskBatch
  <2>2. picked \intersect 1..Len(rows) # {}
    BY <2>1, UnderIsShown
  <2> QED BY <1>0, <1>a, <1>b, <2>1, <2>2 DEF List!TypeOK, List!TicksAreMeant
<1>4. ASSUME NEW e \in Entry, List!AskRow(e) PROVE List!TableIInv'
  <2>1. /\ asking' = e /\ e \in List!Range(rows)
        /\ UNCHANGED <<table, admin, store, fresh, elsewhere, number, rows, failing, fetch, picked, ticked, turned, op>>
    BY <1>4 DEF List!AskRow
  <2> QED BY <1>0, <1>a, <1>b, <2>1 DEF List!TypeOK, List!TicksAreMeant
<1>5. CASE List!Cancel
  <2>1. /\ asking' = "no"
        /\ UNCHANGED <<table, admin, store, fresh, elsewhere, number, rows, failing, fetch, picked, ticked, turned, op>>
    BY <1>5 DEF List!Cancel
  <2> QED BY <1>0, <1>a, <1>b, <2>1 DEF List!TypeOK, List!TicksAreMeant
<1>6. CASE List!ConfirmBatch
  <2>1. /\ asking \in table.batch /\ List!Send(asking, List!Under, FALSE)
        /\ (asking' = asking \/ asking' = "no")
    BY <1>6 DEF List!ConfirmBatch
  <2>2. asking \in List!Confirmed
    <3>1. \A t \in List!Tables : t.batch \subseteq {"delete", "update", "move", "config", "block"}
      BY DEF List!Tables, List!Plain, List!ServerTable, List!ServiceTable, List!CronTable,
             List!NotificationTable, List!AlertRuleTable, List!DDNSTable, List!NATTable,
             List!ServerGroupTable, List!NotificationGroupTable, List!UserTable, List!WAFTable,
             List!OnlineUserTable
    <3>2. asking \in {"delete", "update", "move", "config", "block"}
      BY <1>0, <2>1, <3>1 DEF List!TypeOK
    <3>3. List!Confirmed = {"delete", "move", "config", "block"}
      BY DEF List!Confirmed
    <3> QED BY <1>a, <3>2, <3>3
  <2>3. List!Under # {} /\ List!Under \subseteq List!Range(rows)
    BY <1>0, <2>2, UnderIsShown DEF List!AskedIsTicked
  <2> QED BY <1>c, <2>1, <2>2, <2>3
<1>7. CASE List!ConfirmRow
  <2>1. PICK kind \in List!Confirmed : List!Send(kind, {asking}, TRUE)
    BY <1>7 DEF List!ConfirmRow
  <2>2. asking' = "no" /\ asking \in List!Range(rows)
    BY <1>0, <1>7 DEF List!ConfirmRow, List!RowDialogsAreAboutTheirRow
  <2> QED BY <1>c, <2>1, <2>2
<1>8. CASE List!SendAtOnce
  <2>1. CASE List!Under # {} /\ List!Send("update", List!Under, FALSE)
    <3>1. asking' = asking
      BY <1>8 DEF List!SendAtOnce
    <3> QED BY <1>c, <2>1, <3>1, UnderIsShown
  <2>2. CASE \E e \in List!Range(rows) : List!Send("run", {e}, TRUE)
    <3>1. asking' = asking
      BY <1>8 DEF List!SendAtOnce
    <3>2. PICK e \in List!Range(rows) : List!Send("run", {e}, TRUE)
      BY <2>2
    <3> QED BY <1>c, <3>1, <3>2
  <2> QED BY <1>8, <2>1, <2>2 DEF List!SendAtOnce
<1>9. CASE List!Perform
  <2>1. PICK done \in BOOLEAN :
          /\ op' = [op EXCEPT !.at = "answered", !.done = done, !.row = FALSE,
                              !.ids = IF done THEN List!Gone(op) ELSE {}]
          /\ store' = IF done THEN List!Without(store, List!Gone(op)) ELSE store
    BY <1>9 DEF List!Perform
  <2>2. UNCHANGED <<table, admin, fresh, elsewhere, number, rows, failing, fetch, picked, ticked, turned, asking>>
    BY <1>9 DEF List!Perform
  <2>3. op \in Ops /\ List!Gone(op) \subseteq op.ids /\ op.ids \subseteq Entry
    BY <1>0 DEF List!TypeOK, List!Gone, Ops
  <2>4. op' \in Ops /\ op'.at = "answered" /\ op'.ids = IF done THEN List!Gone(op) ELSE {}
    BY <2>1, <2>3 DEF Ops
  <2>5. /\ store' \in Seq(Entry) /\ List!IsInjective(store')
        /\ List!Range(store') = List!Range(store) \ op'.ids
    <3>1. store \in Seq(Entry) /\ List!IsInjective(store)
      BY TableFacts
    <3> QED BY <2>1, <2>4, <3>1, WithoutProperties
  <2>6. List!TypeOK'
    BY <1>0, <2>2, <2>4, <2>5 DEF List!TypeOK, Ops
  <2>7. List!GoneStaysAway'
    BY <1>0, <2>2, <2>3, <2>4, <2>5 DEF List!GoneStaysAway
  <2>8. List!AskedIsTicked' /\ List!TicksAreMeant' /\ List!RowDialogsAreAboutTheirRow' /\ List!BatchesAreNotEmpty'
    BY <1>0, <2>2, <2>4 DEF List!AskedIsTicked, List!TicksAreMeant, List!RowDialogsAreAboutTheirRow,
                            List!BatchesAreNotEmpty
  <2> QED BY <2>6, <2>7, <2>8 DEF List!TableIInv
<1>10. CASE List!Finish
  <2>1. UNCHANGED <<table, admin, store, fresh, elsewhere, number, rows, failing, picked, ticked, turned>>
        /\ (asking' = asking \/ asking' = "no") /\ op.at = "answered"
    BY <1>10 DEF List!Finish
  <2>2. \/ op' = [op EXCEPT !.at = "mutating"] /\ fetch' = [at |-> "asked", list |-> <<>>]
        \/ op' = List!NoOp /\ fetch' = fetch
    BY <1>10 DEF List!Finish, List!Asked
  <2>3. op' \in Ops /\ op'.at \in {"mutating", "idle"} /\ (op'.ids = op.ids \/ op'.ids = {})
    BY <1>0, <2>2 DEF List!TypeOK, Ops
  <2>4. List!TypeOK'
    <3>1. {store', rows', fetch'.list} \subseteq Seq(Entry) /\ fetch'.at \in {"no", "asked", "read"}
      <4>1. store \in Seq(Entry) /\ rows \in Seq(Entry) /\ fetch.list \in Seq(Entry)
            /\ fetch.at \in {"no", "asked", "read"}
        BY <1>0 DEF List!TypeOK
      <4>2. fetch'.list \in Seq(Entry) /\ fetch'.at \in {"no", "asked", "read"}
        <5>1. CASE fetch' = fetch
          BY <4>1, <5>1
        <5>2. CASE fetch' = [at |-> "asked", list |-> <<>>]
          BY <5>2
        <5> QED BY <2>2, <5>1, <5>2
      <4> QED BY <2>1, <4>1, <4>2
    <3>2. asking' \in {"no"} \union List!Confirmed \union Entry
      BY <1>a, <2>1
    <3> QED BY <1>0, <2>1, <2>3, <3>1, <3>2 DEF List!TypeOK, Ops
  <2>5. List!GoneStaysAway'
    <3>1. CASE op' = [op EXCEPT !.at = "mutating"] /\ fetch' = [at |-> "asked", list |-> <<>>]
      BY <1>0, <2>1, <2>3, <3>1 DEF List!GoneStaysAway
    <3>2. CASE op' = List!NoOp /\ fetch' = fetch
      BY <1>0, <2>1, <3>2 DEF List!GoneStaysAway
    <3> QED BY <2>2, <3>1, <3>2
  <2>6. List!AskedIsTicked' /\ List!TicksAreMeant' /\ List!RowDialogsAreAboutTheirRow' /\ List!BatchesAreNotEmpty'
    BY <1>0, <1>a, <2>1, <2>3 DEF List!AskedIsTicked, List!TicksAreMeant, List!RowDialogsAreAboutTheirRow,
                                  List!BatchesAreNotEmpty
  <2> QED BY <2>4, <2>5, <2>6 DEF List!TableIInv
\* What the list request changes while it is under way.
<1>11. ASSUME NEW at \in {"asked", "read"}, NEW list, fetch' = [at |-> at, list |-> list],
              list \in Seq(Entry), List!IsInjective(list), List!Range(list) \subseteq List!Range(store),
              UNCHANGED <<table, admin, store, fresh, elsewhere, number, rows, failing, picked, ticked, turned, asking, op>>
       PROVE  List!TableIInv'
  <2>1. List!TypeOK'
    BY <1>0, <1>11 DEF List!TypeOK
  <2>2. List!GoneStaysAway'
    BY <1>0, <1>11, TableFacts DEF List!GoneStaysAway
  <2>3. List!AskedIsTicked' /\ List!TicksAreMeant' /\ List!RowDialogsAreAboutTheirRow' /\ List!BatchesAreNotEmpty'
    BY <1>0, <1>11 DEF List!AskedIsTicked, List!TicksAreMeant, List!RowDialogsAreAboutTheirRow,
                       List!BatchesAreNotEmpty
  <2> QED BY <2>1, <2>2, <2>3 DEF List!TableIInv
<1>12. CASE List!Refocus
  BY <1>11, <1>12 DEF List!Refocus, List!Asked
<1>13. CASE List!ReadList
  BY <1>11, <1>13, ListedProperties DEF List!ReadList
<1>14. CASE List!ListAnswered
  BY <1>14, <1>d DEF List!ListAnswered
<1>15. CASE List!ListFailed
  BY <1>15, <1>d DEF List!ListFailed
<1>16. ASSUME NEW n \in 1..List!Cardinality(Entry), List!TurnPage(n) PROVE List!TableIInv'
  <2>1. /\ asking = "no" /\ number' = n /\ rows' = <<>> /\ fetch' = [at |-> "asked", list |-> <<>>]
        /\ UNCHANGED <<table, admin, store, fresh, elsewhere, failing, picked, ticked, turned, asking>>
    BY <1>16 DEF List!TurnPage, List!Free, List!Asked
  <2>2. op' \in Ops /\ (op' = List!NoOp \/ (op' = op /\ op.at # "mutating"))
    BY <1>0, <1>16 DEF List!TurnPage, List!EndMutate, List!TypeOK, Ops
  <2>3. n \in Nat \ {0}
    <3>1. List!Cardinality(Entry) \in Nat
      BY Listing DEF List!TableAssumption
    <3> QED BY <3>1
  <2>4. List!TypeOK'
    <3>1. {store', rows', fetch'.list} \subseteq Seq(Entry)
      BY <1>0, <2>1 DEF List!TypeOK
    <3> QED BY <1>0, <2>1, <2>2, <2>3, <3>1 DEF List!TypeOK, Ops
  <2>5. List!GoneStaysAway'
    BY <1>0, <2>1, <2>2 DEF List!GoneStaysAway
  <2>6. List!AskedIsTicked' /\ List!RowDialogsAreAboutTheirRow'
    BY <1>a, <2>1 DEF List!AskedIsTicked, List!RowDialogsAreAboutTheirRow
  <2>7. List!TicksAreMeant'
    BY <2>1 DEF List!TicksAreMeant
  <2>8. List!BatchesAreNotEmpty'
    BY <1>0, <2>2 DEF List!BatchesAreNotEmpty
  <2> QED BY <2>4, <2>5, <2>6, <2>7, <2>8 DEF List!TableIInv
\* What a change made elsewhere changes.
<1>17. ASSUME elsewhere < MaxChanges, elsewhere' = elsewhere + 1,
              store' \in Seq(Entry), List!IsInjective(store'), fresh' \subseteq fresh,
              fresh' \intersect List!Range(store') = {},
              List!Range(store') \subseteq List!Range(store) \union fresh,
              UNCHANGED <<table, admin, number, rows, failing, fetch, picked, ticked, turned, asking, op>>
       PROVE  List!TableIInv'
  <2>1. elsewhere' \in 0..MaxChanges
    BY <1>0, <1>17 DEF List!TypeOK, List!TableAssumption
  <2>2. List!TypeOK'
    <3>1. {store', rows', fetch'.list} \subseteq Seq(Entry) /\ fresh' \subseteq Entry \ List!Range(store')
      BY <1>0, <1>17, TableFacts DEF List!TypeOK
    <3> QED BY <1>0, <1>17, <2>1, <3>1 DEF List!TypeOK
  <2>3. List!GoneStaysAway'
    BY <1>0, <1>17, TableFacts DEF List!GoneStaysAway
  <2>4. List!AskedIsTicked' /\ List!TicksAreMeant' /\ List!RowDialogsAreAboutTheirRow' /\ List!BatchesAreNotEmpty'
    BY <1>0, <1>17 DEF List!AskedIsTicked, List!TicksAreMeant, List!RowDialogsAreAboutTheirRow,
                       List!BatchesAreNotEmpty
  <2> QED BY <2>2, <2>3, <2>4 DEF List!TableIInv
<1>18. ASSUME NEW e \in Entry, List!Created(e) PROVE List!TableIInv'
  <2>1. PICK k \in 1..Len(store) + 1 : store' = List!InsertAt(store, k, e)
    BY <1>18 DEF List!Created
  <2>2. /\ elsewhere < MaxChanges /\ elsewhere' = elsewhere + 1 /\ e \in fresh /\ fresh' = fresh \ {e}
        /\ UNCHANGED <<table, admin, number, rows, failing, fetch, picked, ticked, turned, asking, op>>
    BY <1>18 DEF List!Created
  <2>3. /\ store' \in Seq(Entry) /\ List!Range(store') \subseteq List!Range(store) \union {e}
        /\ List!IsInjective(store')
    <3>1. store \in Seq(Entry) /\ List!IsInjective(store) /\ e \notin List!Range(store)
      BY <2>2, TableFacts
    <3> QED BY <2>1, <3>1, InsertedInto
  <2>4. fresh' \intersect List!Range(store') = {}
    BY <2>2, <2>3, TableFacts
  <2> QED BY <1>17, <2>2, <2>3, <2>4
<1>19. ASSUME NEW e \in Entry, List!DeletedElsewhere(e) PROVE List!TableIInv'
  <2>1. /\ elsewhere < MaxChanges /\ elsewhere' = elsewhere + 1 /\ store' = List!Without(store, {e})
        /\ UNCHANGED <<table, admin, fresh, number, rows, failing, fetch, picked, ticked, turned, asking, op>>
    BY <1>19 DEF List!DeletedElsewhere
  <2>2. /\ store' \in Seq(Entry) /\ List!Range(store') = List!Range(store) \ {e}
        /\ List!IsInjective(store')
    <3>1. store \in Seq(Entry) /\ List!IsInjective(store)
      BY TableFacts
    <3> QED BY <2>1, <3>1, WithoutProperties
  <2>3. fresh' \intersect List!Range(store') = {}
    BY <2>1, <2>2, TableFacts
  <2> QED BY <1>17, <2>1, <2>2, <2>3
<1>20. CASE UNCHANGED tableVars
  <2>1. UNCHANGED <<table, admin, store, fresh, elsewhere, number, rows, failing, fetch, picked, ticked, turned,
                    asking, op>>
    BY <1>20 DEF tableVars
  <2> QED BY <1>0, <1>b, <2>1 DEF List!TypeOK, List!AskedIsTicked, List!TicksAreMeant,
                                  List!RowDialogsAreAboutTheirRow
<1> QED BY <1>1, <1>2, <1>3, <1>4, <1>5, <1>6, <1>7, <1>8, <1>9, <1>10, <1>12, <1>13, <1>14, <1>15, <1>16,
           <1>18, <1>19, <1>20 DEF List!Next

\* What the properties of the batches rest on.
LEMMA BatchesStep ==
  ASSUME List!TableAssumption, List!TableIInv, [List!Next]_tableVars
  PROVE  /\ op.at = "idle" /\ op'.at = "sent" /\ ~op'.row /\ ~turned => op'.ids \subseteq ticked
         /\ op.at = "mutating" /\ op'.at = "idle" /\ op.done /\ ~failing' =>
               op.ids \intersect List!Range(rows') = {}
<1>1. ASSUME op.at = "idle", op'.at = "sent", ~op'.row, ~turned PROVE op'.ids \subseteq ticked
  <2>1. \A kind, ids : List!Send(kind, ids, TRUE) => op'.row = TRUE
    BY DEF List!Send, List!NoOp
  <2>2. \A kind, ids : List!Send(kind, ids, FALSE) => op'.ids = ids
    BY DEF List!Send, List!NoOp
  <2>3. List!Under \subseteq ticked
    BY <1>1 DEF List!Under, List!TableIInv, List!TicksAreMeant
  <2>4. CASE List!ConfirmBatch
    BY <2>2, <2>3, <2>4 DEF List!ConfirmBatch
  <2>5. CASE List!ConfirmRow
    BY <1>1, <2>1, <2>5 DEF List!ConfirmRow
  <2>6. CASE List!SendAtOnce
    BY <1>1, <2>1, <2>2, <2>3, <2>6 DEF List!SendAtOnce
  <2>7. CASE List!Perform \/ List!Finish
    BY <1>1, <2>7 DEF List!Perform, List!Finish
  <2>8. CASE UNCHANGED op
    BY <1>1, <2>8
  <2>9. ~List!EndMutate \/ UNCHANGED op
    BY <1>1 DEF List!EndMutate
  <2> QED BY <2>4, <2>5, <2>6, <2>7, <2>8, <2>9
          DEF List!Next, tableVars, List!TickAll, List!Cancel, List!Refocus, List!ReadList, List!ListAnswered,
              List!ListFailed, List!Tick, List!TurnPage, List!AskRow, List!Created, List!DeletedElsewhere,
              List!AskBatch
<1>2. ASSUME op.at = "mutating", op'.at = "idle", ~failing' PROVE op.ids \intersect List!Range(rows') = {}
  <2>1. CASE List!ListAnswered
    BY <1>2, <2>1 DEF List!ListAnswered, List!Show, List!TableIInv, List!GoneStaysAway
  <2>2. CASE List!ListFailed
    BY <1>2, <2>2 DEF List!ListFailed, List!Show
  <2>3. CASE \E n : List!TurnPage(n)
    BY <2>3, NoRows DEF List!TurnPage
  <2>4. CASE List!ConfirmBatch \/ List!ConfirmRow \/ List!SendAtOnce
    BY <1>2, <2>4 DEF List!ConfirmBatch, List!ConfirmRow, List!SendAtOnce, List!Send
  <2>5. CASE List!Perform \/ List!Finish
    BY <1>2, <2>5 DEF List!Perform, List!Finish
  <2>6. CASE UNCHANGED op
    BY <1>2, <2>6
  <2> QED BY <2>1, <2>2, <2>3, <2>4, <2>5, <2>6
          DEF List!Next, tableVars, List!TickAll, List!Cancel, List!Refocus, List!ReadList,
              List!Tick, List!AskRow, List!Created, List!DeletedElsewhere, List!AskBatch
<1> QED BY <1>1, <1>2

\* Every page can be reached, however many there are.
LEMMA LinksAlwaysLead ==
  ASSUME NEW n \in Nat \ {0}, NEW pages \in Nat \ {0}
  PROVE  List!LinksLead(n, pages)
<1> DEFINE links == List!PageNumbers(n, pages)
<1>1. CASE pages <= 5
  <2>1. links = 1..pages
    BY <1>1 DEF List!PageNumbers
  <2>2. {1, pages} \subseteq 1..pages /\ (n - 1)..(n + 1) \intersect 1..pages \subseteq 1..pages
    OBVIOUS
  <2>3. pages # 1 => 1 # n \/ pages # n
    OBVIOUS
  <2> HIDE DEF links
  <2>4. \E m \in links : m # n \/ pages = 1
    BY <2>1, <2>2, <2>3
  <2> QED BY <2>1, <2>2, <2>4 DEF links, List!LinksLead
<1>2. CASE ~(pages <= 5)
  <2> DEFINE from == IF n > 3 /\ n >= pages - 2 THEN pages - 3 ELSE IF n - 1 > 2 THEN n - 1 ELSE 2
             upto == IF n <= 3 THEN 4 ELSE IF n + 1 < pages - 1 THEN n + 1 ELSE pages - 1
  <2>1. links = {1, pages} \union from..upto
    BY <1>2 DEF List!PageNumbers
  <2>2. from \in Int /\ upto \in Int /\ 1 <= from /\ upto <= pages
    BY <1>2
  <2>3. \A k \in (n - 1)..(n + 1) : k \in 1..pages => k = 1 \/ k = pages \/ (from <= k /\ k <= upto)
    BY <1>2
  <2> HIDE DEF from, upto, links
  <2>4. links \subseteq 1..pages /\ {1, pages} \subseteq links
    BY <2>1, <2>2
  <2>5. (n - 1)..(n + 1) \intersect 1..pages \subseteq links
    <3> SUFFICES ASSUME NEW k \in (n - 1)..(n + 1), k \in 1..pages PROVE k \in links
      OBVIOUS
    <3>1. k = 1 \/ k = pages \/ k \in from..upto
      BY <2>2, <2>3
    <3> QED BY <2>1, <3>1
  <2>6. 1 # n \/ pages # n
    BY <1>2
  <2> QED BY <2>4, <2>5, <2>6 DEF links, List!LinksLead
<1> QED BY <1>1, <1>2

\* What is asked, and every link, is about rows and pages that are there.
LEMMA TableFollowsRows ==
  List!TableAssumption /\ List!TableIInv => List!DialogsFollowRows
<1> SUFFICES ASSUME List!TableAssumption, List!TableIInv PROVE List!DialogsFollowRows
  OBVIOUS
<1>1. List!PagesAreReachable
  <2> SUFFICES ASSUME NEW c \in (1..MaxPages + 2) \X (1..MaxPages) PROVE List!LinksLead(c[1], c[2])
    BY DEF List!PagesAreReachable
  <2>1. MaxPages \in Nat
    BY DEF List!TableAssumption
  <2>2. c[1] \in 1..MaxPages + 2 /\ c[2] \in 1..MaxPages
    OBVIOUS
  <2>3. c[1] \in Nat \ {0} /\ c[2] \in Nat \ {0}
    BY <2>1, <2>2
  <2> QED BY <2>3, LinksAlwaysLead
<1> QED BY <1>1 DEF List!DialogsFollowRows, List!TableIInv

-----------------------------------------------------------------------------
(* EditDialog: its fields *)

\* What every field has in common.
Fits(t) ==
  /\ t.place \in {"row", "header", "server", "page", "ask"}
  /\ t.check \in DOMAIN Dialog!Refused
  /\ t.codec = "shape" => t.check = "json"
  /\ t.input = "number" => t.check \in {"int", "whole", "least", "optional_least"}
  /\ t.check = "flag" => t.input = "checkbox"
  /\ t.check \in {"filled", "flag"} => t.codec = "same"

\* The fields of the service form load what they store.
LEMMA ServiceFits ==
  ASSUME NEW p \in Dialog!ServiceForm.places, NEW x \in DOMAIN Dialog!ServiceForm.checks
  PROVE  Fits(Dialog!Trait(Dialog!ServiceForm, p, x))
<1> DEFINE f == Dialog!ServiceForm
<1>1. /\ f.checks = Dialog!ServiceChecks /\ f.codecs = Dialog!ServiceCodecs
      /\ f.inputs = Dialog!Beside(Dialog!ServiceProbeInputs, Dialog!ServiceNoticeInputs)
      /\ p \in {"row", "header", "server", "page", "ask"}
  BY DEF Dialog!ServiceForm, Dialog!Form, Dialog!Listed
<1> HIDE DEF f
<1>2. CASE x \in DOMAIN Dialog!ServiceProbeInputs
  <2>1. f.inputs[x] = Dialog!ServiceProbeInputs[x]
    BY <1>1, <1>2 DEF Dialog!Beside, Dialog!ServiceProbeInputs, Dialog!ServiceNoticeInputs
  <2> QED BY <1>1, <1>2, <2>1 DEF f, Dialog!Trait, Dialog!ServiceChecks, Dialog!ServiceCodecs, Dialog!ServiceProbeInputs, Dialog!Checked, Dialog!Refused, Fits
<1>3. CASE x \in DOMAIN Dialog!ServiceNoticeInputs
  <2>1. f.inputs[x] = Dialog!ServiceNoticeInputs[x]
    BY <1>1, <1>3 DEF Dialog!Beside, Dialog!ServiceProbeInputs, Dialog!ServiceNoticeInputs
  <2> QED BY <1>1, <1>3, <2>1 DEF f, Dialog!Trait, Dialog!ServiceChecks, Dialog!ServiceCodecs, Dialog!ServiceNoticeInputs, Dialog!Checked, Dialog!Refused, Fits
<1> QED
  <2>1. x \in DOMAIN Dialog!ServiceChecks
    BY <1>1 DEF f
  <2> QED BY <1>2, <1>3, <2>1 DEF Dialog!ServiceChecks, Dialog!ServiceProbeInputs, Dialog!ServiceNoticeInputs

\* So do those of the cron form,
LEMMA CronFits ==
  ASSUME NEW p \in Dialog!CronForm.places, NEW x \in DOMAIN Dialog!CronForm.checks
  PROVE  Fits(Dialog!Trait(Dialog!CronForm, p, x))
BY DEF Dialog!Trait, Dialog!CronForm, Dialog!Form, Dialog!Listed, Dialog!NoCodecs, Dialog!CronChecks, Dialog!CronInputs, Dialog!Checked, Dialog!Refused, Fits

\* of the DDNS form,
LEMMA DDNSFits ==
  ASSUME NEW p \in Dialog!DDNSForm.places, NEW x \in DOMAIN Dialog!DDNSForm.checks
  PROVE  Fits(Dialog!Trait(Dialog!DDNSForm, p, x))
<1> DEFINE f == Dialog!DDNSForm
<1>1. /\ f.checks = Dialog!DDNSChecks /\ f.codecs = Dialog!DDNSCodecs
      /\ f.inputs = Dialog!Beside(Dialog!DDNSProfileInputs, Dialog!DDNSWebhookInputs)
      /\ p \in {"row", "header", "server", "page", "ask"}
  BY DEF Dialog!DDNSForm, Dialog!Form, Dialog!Listed
<1> HIDE DEF f
<1>2. CASE x \in DOMAIN Dialog!DDNSProfileInputs
  <2>1. f.inputs[x] = Dialog!DDNSProfileInputs[x]
    BY <1>1, <1>2 DEF Dialog!Beside, Dialog!DDNSProfileInputs, Dialog!DDNSWebhookInputs
  <2> QED BY <1>1, <1>2, <2>1 DEF f, Dialog!Trait, Dialog!DDNSChecks, Dialog!DDNSCodecs, Dialog!DDNSProfileInputs, Dialog!Checked, Dialog!Refused, Fits
<1>3. CASE x \in DOMAIN Dialog!DDNSWebhookInputs
  <2>1. f.inputs[x] = Dialog!DDNSWebhookInputs[x]
    BY <1>1, <1>3 DEF Dialog!Beside, Dialog!DDNSProfileInputs, Dialog!DDNSWebhookInputs
  <2> QED BY <1>1, <1>3, <2>1 DEF f, Dialog!Trait, Dialog!DDNSChecks, Dialog!DDNSCodecs, Dialog!DDNSWebhookInputs, Dialog!Checked, Dialog!Refused, Fits
<1> QED
  <2>1. x \in DOMAIN Dialog!DDNSChecks
    BY <1>1 DEF f
  <2> QED BY <1>2, <1>3, <2>1 DEF Dialog!DDNSChecks, Dialog!DDNSProfileInputs, Dialog!DDNSWebhookInputs

\* of the notification form,
LEMMA NotifierFits ==
  ASSUME NEW p \in Dialog!NotifierForm.places, NEW x \in DOMAIN Dialog!NotifierForm.checks
  PROVE  Fits(Dialog!Trait(Dialog!NotifierForm, p, x))
BY DEF Dialog!Trait, Dialog!NotifierForm, Dialog!Form, Dialog!Listed, Dialog!NoCodecs, Dialog!NotifierChecks, Dialog!NotifierInputs, Dialog!Checked, Dialog!Refused, Fits

\* of the alert rule form,
LEMMA AlertRuleFits ==
  ASSUME NEW p \in Dialog!AlertRuleForm.places, NEW x \in DOMAIN Dialog!AlertRuleForm.checks
  PROVE  Fits(Dialog!Trait(Dialog!AlertRuleForm, p, x))
BY DEF Dialog!Trait, Dialog!AlertRuleForm, Dialog!Form, Dialog!Listed, Dialog!AlertRuleCodecs, Dialog!AlertRuleChecks, Dialog!AlertRuleInputs, Dialog!Checked, Dialog!Refused, Fits

\* of the NAT form,
LEMMA NATFits ==
  ASSUME NEW p \in Dialog!NATForm.places, NEW x \in DOMAIN Dialog!NATForm.checks
  PROVE  Fits(Dialog!Trait(Dialog!NATForm, p, x))
BY DEF Dialog!Trait, Dialog!NATForm, Dialog!Form, Dialog!Listed, Dialog!NoCodecs, Dialog!NATChecks, Dialog!NATInputs, Dialog!Checked, Dialog!Refused, Fits

\* of the user form,
LEMMA UserFits ==
  ASSUME NEW p \in Dialog!UserForm.places, NEW x \in DOMAIN Dialog!UserForm.checks
  PROVE  Fits(Dialog!Trait(Dialog!UserForm, p, x))
BY DEF Dialog!Trait, Dialog!UserForm, Dialog!Form, Dialog!Listed, Dialog!NoCodecs, Dialog!UserChecks, Dialog!UserInputs, Dialog!Checked, Dialog!Refused, Fits

\* of the form of server groups,
LEMMA ServerGroupFits ==
  ASSUME NEW p \in Dialog!ServerGroupForm.places, NEW x \in DOMAIN Dialog!ServerGroupForm.checks
  PROVE  Fits(Dialog!Trait(Dialog!ServerGroupForm, p, x))
BY DEF Dialog!Trait, Dialog!ServerGroupForm, Dialog!Form, Dialog!Listed, Dialog!NoCodecs, Dialog!ServerGroupChecks, Dialog!ServerGroupInputs, Dialog!Checked, Dialog!Refused, Fits

\* of the form of notification groups,
LEMMA NotificationGroupFits ==
  ASSUME NEW p \in Dialog!NotificationGroupForm.places, NEW x \in DOMAIN Dialog!NotificationGroupForm.checks
  PROVE  Fits(Dialog!Trait(Dialog!NotificationGroupForm, p, x))
BY DEF Dialog!Trait, Dialog!NotificationGroupForm, Dialog!Form, Dialog!Listed, Dialog!NoCodecs, Dialog!NotificationGroupChecks, Dialog!NotificationGroupInputs, Dialog!Checked, Dialog!Refused, Fits

\* of the server form,
LEMMA ServerFits ==
  ASSUME NEW p \in Dialog!ServerForm.places, NEW x \in DOMAIN Dialog!ServerForm.checks
  PROVE  Fits(Dialog!Trait(Dialog!ServerForm, p, x))
BY DEF Dialog!Trait, Dialog!ServerForm, Dialog!Form, Dialog!Listed, Dialog!ServerCodecs, Dialog!ServerChecks, Dialog!ServerInputs, Dialog!Checked, Dialog!Refused, Fits

\* of the settings,
LEMMA SettingFits ==
  ASSUME NEW p \in Dialog!SettingForm.places, NEW x \in DOMAIN Dialog!SettingForm.checks
  PROVE  Fits(Dialog!Trait(Dialog!SettingForm, p, x))
<1> DEFINE f == Dialog!SettingForm
<1>1. /\ f.checks = Dialog!SettingChecks /\ f.codecs = Dialog!NoCodecs
      /\ f.inputs = Dialog!Beside(Dialog!SettingSiteInputs, Dialog!Beside(Dialog!SettingAddressInputs, Dialog!SettingNoticeInputs))
      /\ p \in {"row", "header", "server", "page", "ask"}
  BY DEF Dialog!SettingForm, Dialog!Form, Dialog!Listed
<1> HIDE DEF f
<1>2. CASE x \in DOMAIN Dialog!SettingSiteInputs
  <2>1. f.inputs[x] = Dialog!SettingSiteInputs[x]
    BY <1>1, <1>2 DEF Dialog!Beside, Dialog!SettingSiteInputs, Dialog!SettingAddressInputs, Dialog!SettingNoticeInputs
  <2> QED BY <1>1, <1>2, <2>1 DEF f, Dialog!Trait, Dialog!SettingChecks, Dialog!NoCodecs, Dialog!SettingSiteInputs, Dialog!Checked, Dialog!Refused, Fits
<1>3. CASE x \in DOMAIN Dialog!SettingAddressInputs
  <2>1. f.inputs[x] = Dialog!SettingAddressInputs[x]
    BY <1>1, <1>3 DEF Dialog!Beside, Dialog!SettingSiteInputs, Dialog!SettingAddressInputs, Dialog!SettingNoticeInputs
  <2> QED BY <1>1, <1>3, <2>1 DEF f, Dialog!Trait, Dialog!SettingChecks, Dialog!NoCodecs, Dialog!SettingAddressInputs, Dialog!Checked, Dialog!Refused, Fits
<1>4. CASE x \in DOMAIN Dialog!SettingNoticeInputs
  <2>1. f.inputs[x] = Dialog!SettingNoticeInputs[x]
    BY <1>1, <1>4 DEF Dialog!Beside, Dialog!SettingSiteInputs, Dialog!SettingAddressInputs, Dialog!SettingNoticeInputs
  <2> QED BY <1>1, <1>4, <2>1 DEF f, Dialog!Trait, Dialog!SettingChecks, Dialog!NoCodecs, Dialog!SettingNoticeInputs, Dialog!Checked, Dialog!Refused, Fits
<1> QED
  <2>1. x \in DOMAIN Dialog!SettingChecks
    BY <1>1 DEF f
  <2> QED BY <1>2, <1>3, <1>4, <2>1 DEF Dialog!SettingChecks, Dialog!SettingSiteInputs, Dialog!SettingAddressInputs, Dialog!SettingNoticeInputs

\* and of an agent's configuration.
LEMMA ConfigFits ==
  ASSUME NEW p \in Dialog!ConfigForm.places, NEW x \in DOMAIN Dialog!ConfigForm.checks
  PROVE  Fits(Dialog!Trait(Dialog!ConfigForm, p, x))
BY DEF Dialog!Trait, Dialog!ConfigForm, Dialog!Form, Dialog!Listed, Dialog!ConfigCodecs, Dialog!ConfigChecks, Dialog!ConfigInputs, Dialog!Checked, Dialog!Refused, Fits

\* Every field of every form accepts what it stored when that is loaded again.
LEMMA FieldsFit ==
  ASSUME NEW t \in Dialog!Traits
  PROVE  Fits(t)
<1>1. PICK f \in Dialog!Forms : \E p \in f.places : \E x \in DOMAIN f.checks : t = Dialog!Trait(f, p, x)
  BY DEF Dialog!Traits
<1>2. PICK p \in f.places, x \in DOMAIN f.checks : t = Dialog!Trait(f, p, x)
  BY <1>1
<1>3. CASE f = Dialog!ServiceForm
  BY <1>2, <1>3, ServiceFits
<1>4. CASE f = Dialog!CronForm
  BY <1>2, <1>4, CronFits
<1>5. CASE f = Dialog!DDNSForm
  BY <1>2, <1>5, DDNSFits
<1>6. CASE f = Dialog!NotifierForm
  BY <1>2, <1>6, NotifierFits
<1>7. CASE f = Dialog!AlertRuleForm
  BY <1>2, <1>7, AlertRuleFits
<1>8. CASE f = Dialog!NATForm
  BY <1>2, <1>8, NATFits
<1>9. CASE f = Dialog!UserForm
  BY <1>2, <1>9, UserFits
<1>10. CASE f = Dialog!ServerGroupForm
  BY <1>2, <1>10, ServerGroupFits
<1>11. CASE f = Dialog!NotificationGroupForm
  BY <1>2, <1>11, NotificationGroupFits
<1>12. CASE f = Dialog!ServerForm
  BY <1>2, <1>12, ServerFits
<1>13. CASE f = Dialog!SettingForm
  BY <1>2, <1>13, SettingFits
<1>14. CASE f = Dialog!ConfigForm
  BY <1>2, <1>14, ConfigFits
<1> QED BY <1>3, <1>4, <1>5, <1>6, <1>7, <1>8, <1>9, <1>10, <1>11, <1>12, <1>13, <1>14 DEF Dialog!Forms

-----------------------------------------------------------------------------
(* EditDialog: its values *)

\* A draft that is accepted is stored as a value the form can be loaded with, and accepts
\* again; what the form was loaded with is stored as it was.
LEMMA DraftsAreKept ==
  ASSUME field \in Dialog!Traits, entry \in Dialog!Stored
  PROVE  /\ Dialog!Stored \subseteq Dialog!Value /\ Dialog!Drafts \subseteq Dialog!Value
         /\ Dialog!Typed \subseteq Dialog!Drafts /\ Dialog!Blank \in Dialog!Drafts
         /\ \A v \in Dialog!Stored : Dialog!Load(field.codec, v) \in Dialog!Drafts
         /\ \A d \in Dialog!Drafts : Dialog!Accepts(d) =>
              /\ Dialog!Kept(d) \in Dialog!Stored
              /\ Dialog!Kept(d) # entry => Dialog!Accepts(Dialog!Load(field.codec, Dialog!Kept(d)))
         /\ Dialog!Accepts(Dialog!Load(field.codec, entry)) =>
              \/ Dialog!Kept(Dialog!Load(field.codec, entry)) = entry
              \/ field.codec = "flags" /\ entry = "odd"
<1>1. Fits(field)
  BY FieldsFit
<1> DEFINE Values == {"none", "one", "two", "odd", "junk"}
<1>2. Dialog!Value = Values
  BY DEF Dialog!Value
<1>3. Dialog!Stored \subseteq Values /\ Dialog!Typed \subseteq Values /\ Dialog!Blank \in {"none", "one"}
  BY DEF Dialog!Stored, Dialog!Typed, Dialog!Blank
<1>4. ASSUME NEW v \in Values PROVE Dialog!Load(field.codec, v) \in Values
  BY DEF Dialog!Load
<1>5. /\ Dialog!Typed \subseteq Dialog!Drafts /\ Dialog!Blank \in Dialog!Drafts
      /\ \A v \in Dialog!Stored : Dialog!Load(field.codec, v) \in Dialog!Drafts
      /\ Dialog!Drafts \subseteq Values
  <2>1. \A v : v \in Dialog!Drafts <=>
          v \in Dialog!Typed \/ v = Dialog!Blank \/ \E w \in Dialog!Stored : v = Dialog!Load(field.codec, w)
    BY DEF Dialog!Drafts
  <2>2. /\ Dialog!Typed \subseteq Dialog!Drafts /\ Dialog!Blank \in Dialog!Drafts
        /\ \A v \in Dialog!Stored : Dialog!Load(field.codec, v) \in Dialog!Drafts
    BY <2>1
  <2> HIDE DEF Values
  <2>3. Dialog!Blank \in Values
    BY <1>3 DEF Values
  <2>4. Dialog!Drafts \subseteq Values
    BY <1>3, <1>4, <2>1, <2>3
  <2> QED BY <2>2, <2>4
\* Odd values are stored only where they can be.
<1>6. /\ "junk" \notin Dialog!Stored
      /\ "odd" \in Dialog!Stored <=> Dialog!StoredOdd(field.check, field.codec)
  BY <1>1 DEF Dialog!Stored, Dialog!StoredOdd, Fits
<1>7. /\ "one" \in Dialog!Stored
      /\ "none" \in Dialog!Stored <=> field.check # "filled"
      /\ "two" \in Dialog!Stored <=> field.check # "flag"
  BY <1>1 DEF Dialog!Stored, Dialog!StoredOdd, Fits
<1>8. /\ Dialog!Accepts("one") /\ Dialog!Accepts("two")
      /\ Dialog!Accepts("none") <=> field.check \notin {"filled", "url", "least"}
      /\ Dialog!Accepts("odd") <=> field.check \notin {"int", "whole", "least", "optional_least"}
      /\ Dialog!Accepts("junk") <=> field.check \notin {"url", "optional_url", "json"}
  BY <1>1 DEF Dialog!Accepts, Dialog!Refused, Fits
\* What a draft can be.
<1>9. /\ "junk" \in Dialog!Drafts => \/ field.codec \in {"numbers", "names"}
                                     \/ field.check \in {"url", "optional_url", "json"}
      /\ "odd" \in Dialog!Drafts => \/ field.input = "number" \/ field.codec = "shape"
                                    \/ field.check = "least"
                                    \/ Dialog!StoredOdd(field.check, field.codec)
      /\ "two" \in Dialog!Drafts => field.check # "flag"
  <2>1. \A v : v \in Dialog!Drafts <=>
          v \in Dialog!Typed \/ v = Dialog!Blank \/ \E w \in Dialog!Stored : v = Dialog!Load(field.codec, w)
    BY DEF Dialog!Drafts
  <2>2. \A w \in Dialog!Stored : Dialog!Load(field.codec, w) = w \/ Dialog!Load(field.codec, w) = "one"
    BY DEF Dialog!Load
  <2>3. \A v : v \in Dialog!Drafts => v \in Dialog!Typed \/ v \in {"none", "one"} \/ v \in Dialog!Stored
    BY <1>3, <2>1, <2>2
  <2>4. /\ "junk" \in Dialog!Typed => \/ field.codec \in {"numbers", "names"}
                                      \/ field.check \in {"url", "optional_url", "json"}
        /\ "odd" \in Dialog!Typed => field.input = "number" \/ field.codec = "shape" \/ field.check = "least"
        /\ "two" \in Dialog!Typed => field.input # "checkbox"
    BY DEF Dialog!Typed
  <2> QED BY <1>1, <1>6, <1>7, <2>3, <2>4 DEF Fits
<1> HIDE DEF Values
<1>10. ASSUME NEW d \in Dialog!Drafts, Dialog!Accepts(d) PROVE Dialog!Kept(d) \in Dialog!Stored
  <2>1. d \in {"none", "one", "two", "odd", "junk"}
    BY <1>5 DEF Values
  <2>2. CASE d = "none"
    BY <1>1, <1>7, <1>8, <1>10, <2>2 DEF Dialog!Kept, Fits
  <2>3. CASE d = "one"
    BY <1>7, <2>3 DEF Dialog!Kept
  <2>4. CASE d = "two"
    BY <1>7, <1>9, <2>4 DEF Dialog!Kept
  <2>5. CASE d = "odd"
    BY <1>1, <1>6, <1>7, <1>8, <1>9, <1>10, <2>5 DEF Dialog!Kept, Dialog!StoredOdd, Fits
  <2>6. CASE d = "junk"
    BY <1>7, <1>8, <1>9, <1>10, <2>6 DEF Dialog!Kept
  <2> QED BY <2>1, <2>2, <2>3, <2>4, <2>5, <2>6
<1>11. ASSUME NEW d \in Dialog!Drafts, Dialog!Accepts(d), Dialog!Kept(d) # entry
       PROVE  Dialog!Accepts(Dialog!Load(field.codec, Dialog!Kept(d)))
  <2>1. \/ Dialog!Kept(d) = d
        \/ Dialog!Kept(d) = "one"
        \/ Dialog!Kept(d) = "none" /\ field.codec = "shape"
    BY <1>11 DEF Dialog!Kept
  <2>2. Dialog!Accepts(Dialog!Kept(d))
    BY <1>1, <1>8, <1>11, <2>1 DEF Fits
  <2>3. \A v : Dialog!Load(field.codec, v) = v \/ Dialog!Load(field.codec, v) = "one"
    BY DEF Dialog!Load
  <2> QED BY <1>8, <2>2, <2>3
<1>12. ASSUME Dialog!Accepts(Dialog!Load(field.codec, entry))
       PROVE  \/ Dialog!Kept(Dialog!Load(field.codec, entry)) = entry
              \/ field.codec = "flags" /\ entry = "odd"
  <2>1. CASE field.codec = "flags"
    BY <2>1 DEF Dialog!Load, Dialog!Kept
  <2>2. CASE field.codec # "flags"
    <3>1. Dialog!Load(field.codec, entry) = entry
      BY <2>2 DEF Dialog!Load
    <3>2. entry # "junk" /\ (field.codec = "shape" => entry # "odd")
      BY <1>6 DEF Dialog!StoredOdd
    <3> QED BY <3>1, <3>2 DEF Dialog!Kept
  <2> QED BY <2>1, <2>2
<1> QED BY <1>2, <1>3, <1>5, <1>10, <1>11, <1>12

-----------------------------------------------------------------------------
(* EditDialog: its steps *)

\* The invariant in parts: the store, the page with its card, the submissions and
\* the groups that are still to come.
EntryPart ==
  /\ entry \in Dialog!Stored /\ by_form \in BOOLEAN /\ changes \in 0..MaxChanges
  /\ Dialog!OwnValuesAreAccepted

CardPart ==
  /\ page \in Dialog!Stored \union {"unread"} /\ page_error \in BOOLEAN /\ loading \in BOOLEAN
  /\ request \in Dialog!Stored \union {"no", "asked"}
  /\ opened \in BOOLEAN /\ overtaken \in BOOLEAN
  /\ shown \in Dialog!Value /\ Dialog!ShownIsSent /\ Dialog!StartIsOfThePage

JobPart ==
  /\ job \in [Job -> Dialog!JobType]
  /\ applying \in Seq(Dialog!JobType) /\ Len(applying) <= MaxLoads
  /\ Dialog!SubmissionsAreSendable

GroupsPart == groups \in BOOLEAN /\ (groups => Dialog!InTable)

\* The invariant in parts: the entry, the card, the submissions, the groups.
LEMMA DialogParts ==
  Dialog!DialogIInv <=> field \in Dialog!Traits /\ EntryPart /\ CardPart /\ JobPart /\ GroupsPart
<1>1. ASSUME Dialog!DialogIInv
      PROVE  field \in Dialog!Traits /\ EntryPart /\ CardPart /\ JobPart /\ GroupsPart
  BY <1>1 DEF Dialog!DialogIInv, Dialog!TypeOK, Dialog!DialogsKeep, EntryPart, CardPart, JobPart, GroupsPart
<1>2. ASSUME field \in Dialog!Traits, EntryPart, CardPart, JobPart, GroupsPart PROVE Dialog!DialogIInv
  <2>1. {start, draft} \subseteq Dialog!Value
    BY <1>2, DraftsAreKept DEF EntryPart, CardPart, Dialog!StartIsOfThePage
  <2> QED BY <1>2, <2>1 DEF Dialog!DialogIInv, Dialog!TypeOK, Dialog!DialogsKeep, EntryPart, CardPart, JobPart,
                            GroupsPart
<1> QED BY <1>1, <1>2

\* What depends on nothing but the field.
LEMMA SameField ==
  ASSUME UNCHANGED field
  PROVE  /\ Dialog!Stored' = Dialog!Stored /\ Dialog!Typed' = Dialog!Typed /\ Dialog!Blank' = Dialog!Blank
         /\ Dialog!Drafts' = Dialog!Drafts
         /\ Dialog!KeepsItself' = Dialog!KeepsItself
         /\ Dialog!Row' = Dialog!Row /\ Dialog!Header' = Dialog!Header /\ Dialog!Server' = Dialog!Server
         /\ Dialog!Page' = Dialog!Page /\ Dialog!Ask' = Dialog!Ask /\ Dialog!InTable' = Dialog!InTable
<1>1. /\ Dialog!Stored' = Dialog!Stored /\ Dialog!Typed' = Dialog!Typed /\ Dialog!Blank' = Dialog!Blank
  BY DEF Dialog!Stored, Dialog!Typed, Dialog!Blank
<1>2. Dialog!Drafts' = Dialog!Drafts
  BY <1>1 DEF Dialog!Drafts
<1> QED BY <1>1, <1>2 DEF Dialog!KeepsItself, Dialog!Row, Dialog!Header, Dialog!Server, Dialog!Page, Dialog!Ask,
                          Dialog!InTable

\* A form is in one place.
LEMMA SamePlace ==
  ASSUME field \in Dialog!Traits
  PROVE  /\ Dialog!InTable <=> Dialog!Row \/ Dialog!Server
         /\ Dialog!Header => ~Dialog!InTable /\ ~Dialog!Page /\ ~Dialog!Ask
         /\ Dialog!Page => ~Dialog!InTable /\ ~Dialog!Ask
         /\ Dialog!Ask => ~Dialog!InTable
         /\ Dialog!Server => Dialog!InTable
         /\ Dialog!InTable \/ Dialog!Header \/ Dialog!Page \/ Dialog!Ask
BY FieldsFit DEF Fits, Dialog!Row, Dialog!Header, Dialog!Server, Dialog!Page, Dialog!Ask, Dialog!InTable

\* The field stays, and groups that came do not come again.
LEMMA GroupsStep ==
  ASSUME GroupsPart, [Dialog!Next]_dialogVars
  PROVE  GroupsPart'
<1>1. UNCHANGED field /\ (groups' = groups \/ groups' = FALSE)
  BY DEF Dialog!Next, dialogVars, Dialog!OpenDialog, Dialog!CloseDialog, Dialog!Tick, Dialog!Revalidate,
         Dialog!ReadEntry, Dialog!Answered, Dialog!RequestFailed, Dialog!GroupsAnswered, Dialog!ChangeElsewhere,
         Dialog!AgentApplies, Dialog!Edit, Dialog!Press, Dialog!Land, Dialog!Fail, Dialog!Dispatch, Dialog!Succeed
<1>2. Dialog!InTable' = Dialog!InTable
  BY <1>1, SameField
<1>3. CASE groups' = groups
  BY <1>2, <1>3 DEF GroupsPart
<1>4. CASE groups' = FALSE
  BY <1>4 DEF GroupsPart
<1> QED BY <1>1, <1>3, <1>4

\* What leaves the entry alone keeps its part.
LEMMA SameEntry ==
  ASSUME EntryPart, UNCHANGED <<field, entry, by_form, changes>>
  PROVE  EntryPart'
BY SameField DEF EntryPart, Dialog!OwnValuesAreAccepted, Dialog!Accepts

\* A value that a form sent is stored.
LEMMA StoredEntry ==
  ASSUME field \in Dialog!Traits, EntryPart, UNCHANGED <<field, changes>>,
         NEW d \in Dialog!Drafts, Dialog!Accepts(d), entry' \in {Dialog!Kept(d), entry},
         by_form' = (by_form \/ entry' # entry)
  PROVE  EntryPart'
<1>1. entry \in Dialog!Stored
  BY DEF EntryPart
<1>2. entry' \in Dialog!Stored
  BY <1>1, DraftsAreKept
<1>3. by_form' => Dialog!Accepts(Dialog!Load(field.codec, entry'))
  <2>1. CASE entry' = entry
    BY <2>1 DEF EntryPart, Dialog!OwnValuesAreAccepted
  <2>2. CASE entry' # entry
    BY <1>1, <2>2, DraftsAreKept
  <2> QED BY <2>1, <2>2
<1>4. by_form' \in BOOLEAN /\ changes' \in 0..MaxChanges
  BY DEF EntryPart
<1> QED BY <1>2, <1>3, <1>4, SameField DEF EntryPart, Dialog!OwnValuesAreAccepted, Dialog!Accepts


\* Submissions that are still to be sent are those that were.
LEMMA SameJobs ==
  ASSUME JobPart, UNCHANGED <<field, applying>>, job' \in [Job -> Dialog!JobType],
         \A j \in Job : job'[j].at = "sent" =>
           job[j].at = "sent" /\ job'[j].value = job[j].value /\ job'[j].from = job[j].from
  PROVE  JobPart'
<1>1. ASSUME NEW j \in Job, job'[j].at = "sent" PROVE Dialog!Sendable(job[j])'
  <2>1. Dialog!Sendable(job[j])
    BY <1>1 DEF JobPart, Dialog!SubmissionsAreSendable
  <2> QED BY <1>1, <2>1, SameField DEF Dialog!Sendable, Dialog!Accepts
<1>2. ASSUME NEW i \in 1..Len(applying) PROVE Dialog!Sendable(applying[i])'
  <2>1. Dialog!Sendable(applying[i])
    BY DEF JobPart, Dialog!SubmissionsAreSendable
  <2> QED BY <2>1, SameField DEF Dialog!Sendable, Dialog!Accepts
<1> QED BY <1>1, <1>2 DEF JobPart, Dialog!SubmissionsAreSendable

\* What a submission becomes, step by step, is a submission.
LEMMA JobsAfter ==
  ASSUME JobPart
  PROVE  /\ \A j \in Job : /\ job[j] \in Dialog!JobType
                           /\ [job[j] EXCEPT !.mounted = FALSE] \in Dialog!JobType
                           /\ [job[j] EXCEPT !.at = "mutating"] \in Dialog!JobType
                           /\ [Dialog!Idle EXCEPT !.at = "landed", !.mounted = job[j].mounted] \in Dialog!JobType
         /\ Dialog!Idle \in Dialog!JobType /\ Dialog!Idle.at = "idle"
BY DEF JobPart, Dialog!JobType, Dialog!JobAt, Dialog!Idle, Dialog!Value

\* Rendering anew ends no submission, it parts submissions from their dialogs.
LEMMA RenderedJobs ==
  ASSUME JobPart, UNCHANGED <<field, applying>>,
         \/ job' = Dialog!Orphaned \/ job' = Dialog!Settled
         \/ job' = [j \in Job |-> IF Dialog!Waiting(j) THEN Dialog!Idle ELSE Dialog!Orphaned[j]]
  PROVE  JobPart'
<1>1. ASSUME NEW j \in Job
      PROVE  \/ job'[j] = Dialog!Idle \/ job'[j] = job[j] \/ job'[j] = [job[j] EXCEPT !.mounted = FALSE]
  BY DEF Dialog!Orphaned, Dialog!Settled
<1>2. job' = [j \in Job |-> job'[j]]
  BY DEF Dialog!Orphaned, Dialog!Settled
<1>3. \A j \in Job : job'[j] \in Dialog!JobType
  BY <1>1, JobsAfter
<1>4. job' \in [Job -> Dialog!JobType]
  BY <1>2, <1>3
<1>5. ASSUME NEW j \in Job, job'[j].at = "sent"
      PROVE  job[j].at = "sent" /\ job'[j].value = job[j].value /\ job'[j].from = job[j].from
  <2>1. job[j] \in Dialog!JobType
    BY JobsAfter
  <2>2. CASE job'[j] = Dialog!Idle
    BY <1>5, <2>2 DEF Dialog!Idle
  <2>3. CASE job'[j] = job[j]
    BY <1>5, <2>3
  <2>4. CASE job'[j] = [job[j] EXCEPT !.mounted = FALSE]
    BY <1>5, <2>1, <2>4 DEF Dialog!JobType
  <2> QED BY <1>1, <2>2, <2>3, <2>4
<1> QED BY <1>4, <1>5, SameJobs

\* A step of one submission leaves the others.
LEMMA OneJob ==
  ASSUME JobPart, UNCHANGED <<field, applying>>, NEW k \in Job, NEW r,
         r \in {Dialog!Idle, [job[k] EXCEPT !.at = "mutating"],
                [Dialog!Idle EXCEPT !.at = "landed", !.mounted = job[k].mounted]},
         job' = [job EXCEPT ![k] = r]
  PROVE  JobPart'
<1>1. job \in [Job -> Dialog!JobType]
  BY DEF JobPart
<1>2. r \in Dialog!JobType /\ r.at # "sent"
  BY <1>1, JobsAfter DEF Dialog!Idle, Dialog!JobType
<1>3. job' \in [Job -> Dialog!JobType]
  BY <1>1, <1>2
<1>4. \A j \in Job : job'[j] = IF j = k THEN r ELSE job[j]
  BY <1>1
<1> QED BY <1>2, <1>3, <1>4, SameJobs

\* What leaves the card alone keeps its part.
LEMMA SameCard ==
  ASSUME CardPart, UNCHANGED <<field, page, opened, start, draft, shown, overtaken>>,
         page_error' \in BOOLEAN, loading' \in BOOLEAN, request' \in Dialog!Stored \union {"no", "asked"}
  PROVE  CardPart'
BY SameField DEF CardPart, Dialog!ShownIsSent, Dialog!StartIsOfThePage, Dialog!Load

\* A card that is made anew from the page.
LEMMA RemountedCard ==
  ASSUME field \in Dialog!Traits, entry \in Dialog!Stored, CardPart, UNCHANGED field, ~Dialog!Page,
         NEW v, Dialog!Remount(v),
         \/ Dialog!Header /\ v = Dialog!Blank
         \/ ~Dialog!Header /\ page' # "unread" /\ v = Dialog!Load(field.codec, page'),
         page' \in Dialog!Stored \union {"unread"}, page_error' \in BOOLEAN, loading' \in BOOLEAN,
         request' \in Dialog!Stored \union {"no", "asked"}, Dialog!Header => page' = page
  PROVE  CardPart'
<1>1. opened' = FALSE /\ overtaken' = FALSE /\ start' = v /\ draft' = v /\ shown' = v
  BY DEF Dialog!Remount
<1>2. v \in Dialog!Drafts /\ v \in Dialog!Value
  BY DraftsAreKept
<1>3. Dialog!ShownIsSent'
  BY <1>1 DEF Dialog!ShownIsSent
<1>4. Dialog!StartIsOfThePage'
  BY <1>1, <1>2, SameField, SamePlace DEF Dialog!StartIsOfThePage, CardPart, Dialog!Load
<1> QED BY <1>1, <1>2, <1>3, <1>4, SameField DEF CardPart

\* A form that is reset, to what it started from or to the page.
LEMMA ResetCard ==
  ASSUME field \in Dialog!Traits, entry \in Dialog!Stored, CardPart, UNCHANGED <<field, opened>>,
         Dialog!Reset(start'), start' \in Dialog!Drafts,
         ~Dialog!Header /\ page' # "unread" => start' = Dialog!Load(field.codec, page'),
         Dialog!Header => page' = "unread", Dialog!InTable => page' # "unread",
         page' \in Dialog!Stored \union {"unread"}, page_error' \in BOOLEAN, loading' \in BOOLEAN,
         request' \in Dialog!Stored \union {"no", "asked"}
  PROVE  CardPart'
<1>1. /\ draft' = start'
      /\ shown' = IF opened /\ Dialog!KeepsItself THEN shown ELSE start'
      /\ overtaken' = (overtaken \/ (opened /\ Dialog!KeepsItself /\ shown # start'))
  BY DEF Dialog!Reset
<1>2. start' \in Dialog!Value
  BY DraftsAreKept
<1>3. shown' \in Dialog!Value /\ overtaken' \in BOOLEAN
  BY <1>1, <1>2 DEF CardPart
<1>4. Dialog!ShownIsSent'
  <2>1. opened /\ shown' # start' => Dialog!KeepsItself /\ shown # start'
    BY <1>1
  <2>2. Dialog!KeepsItself /\ opened /\ shown # start' => overtaken'
    BY <1>1, Zenon
  <2> QED BY <1>1, <2>1, <2>2, SameField DEF Dialog!ShownIsSent
<1>5. Dialog!StartIsOfThePage'
  BY <1>1, SameField DEF Dialog!StartIsOfThePage, CardPart, Dialog!Load
<1> QED BY <1>3, <1>4, <1>5, SameField DEF CardPart

\* An answer that brings nothing new resets the draft or leaves it.
LEMMA AnsweredCard ==
  ASSUME field \in Dialog!Traits, EntryPart, CardPart, JobPart, UNCHANGED <<field, page, applying>>,
         \/ Dialog!Reset(start) /\ UNCHANGED <<opened, start>>
         \/ UNCHANGED Dialog!cardVars,
         job' = Dialog!Settled, page_error' \in BOOLEAN, loading' \in BOOLEAN, request' = "no"
  PROVE  CardPart' /\ JobPart'
<1>1. JobPart'
  BY RenderedJobs
<1>2. CASE Dialog!Reset(start) /\ UNCHANGED <<opened, start>>
  <2>1. Dialog!Reset(start') /\ start' = start /\ opened' = opened
    BY <1>2 DEF Dialog!Reset
  <2>2. /\ entry \in Dialog!Stored /\ start \in Dialog!Drafts
        /\ (~Dialog!Header /\ page # "unread" => start = Dialog!Load(field.codec, page))
        /\ (Dialog!Header => page = "unread") /\ (Dialog!InTable => page # "unread")
        /\ page \in Dialog!Stored \union {"unread"}
    BY DEF EntryPart, CardPart, Dialog!StartIsOfThePage
  <2>3. CardPart'
    BY <2>1, <2>2, ResetCard
  <2> QED BY <1>1, <2>3
<1>3. CASE UNCHANGED Dialog!cardVars
  <2>1. UNCHANGED <<opened, start, draft, shown, overtaken>>
    BY <1>3 DEF Dialog!cardVars
  <2>2. request' \in Dialog!Stored \union {"no", "asked"}
    OBVIOUS
  <2>3. CardPart'
    BY <2>1, <2>2, SameCard
  <2> QED BY <1>1, <2>3
<1> QED BY <1>1, <1>2, <1>3

\* An answer with news mounts the dialogs of the rows anew.
LEMMA AnsweredRows ==
  ASSUME field \in Dialog!Traits, EntryPart, CardPart, JobPart, UNCHANGED <<field, applying>>, Dialog!InTable,
         NEW v \in Dialog!Stored, NEW failed \in BOOLEAN, Dialog!RowsAnswered(v, failed),
         page' = v, page_error' \in BOOLEAN, loading' \in BOOLEAN, request' = "no"
  PROVE  CardPart' /\ JobPart'
<1>0. entry \in Dialog!Stored /\ v \in Dialog!Value /\ v # "unread"
  BY DraftsAreKept DEF EntryPart, Dialog!Value
<1>1. CASE v # page \/ failed # page_error \/ failed
  <2>1. /\ Dialog!Remount(Dialog!Load(field.codec, v))
        /\ job' = [j \in Job |-> IF Dialog!Waiting(j) THEN Dialog!Idle ELSE Dialog!Orphaned[j]]
    BY <1>1 DEF Dialog!RowsAnswered
  <2> QED BY <1>0, <2>1, RemountedCard, RenderedJobs, SamePlace
<1>2. CASE ~(v # page \/ failed # page_error \/ failed)
  <2>1. /\ job' = Dialog!Settled /\ page' = page
        /\ \/ Dialog!Reset(start) /\ UNCHANGED <<opened, start>>
           \/ UNCHANGED Dialog!cardVars
    BY <1>2 DEF Dialog!RowsAnswered
  <2> QED BY <2>1, AnsweredCard
<1> QED BY <1>1, <1>2

\* A dialog that was not opened has no draft.
LEMMA DialogInit == Dialog!DialogAssumption /\ Dialog!Init => Dialog!DialogIInv
<1> SUFFICES ASSUME Dialog!DialogAssumption, Dialog!Init PROVE Dialog!DialogIInv
  OBVIOUS
<1>1. /\ field \in Dialog!Traits /\ entry \in Dialog!Stored /\ by_form = FALSE /\ changes = 0
      /\ page = (IF Dialog!InTable THEN entry ELSE "unread") /\ page_error = FALSE
      /\ request = (IF Dialog!Page THEN "asked" ELSE "no")
      /\ start = (IF Dialog!InTable THEN Dialog!Load(field.codec, entry) ELSE Dialog!Blank)
      /\ draft = start /\ shown = start /\ overtaken = FALSE
      /\ job = [j \in Job |-> Dialog!Idle] /\ applying = <<>>
  BY DEF Dialog!Init
<1>2. loading \in BOOLEAN /\ opened \in BOOLEAN /\ (Dialog!Page => opened)
  <2>1. loading = Dialog!Ask /\ opened = Dialog!Page
    BY DEF Dialog!Init
  <2> QED BY <2>1 DEF Dialog!Ask, Dialog!Page
<1>3. EntryPart
  <2>1. changes \in 0..MaxChanges
    BY <1>1 DEF Dialog!DialogAssumption
  <2>2. by_form \in BOOLEAN /\ ~by_form
    BY <1>1
  <2> QED BY <1>1, <2>1, <2>2 DEF EntryPart, Dialog!OwnValuesAreAccepted
<1>4. start \in Dialog!Drafts /\ start \in Dialog!Value /\ entry \in Dialog!Value
  BY <1>1, DraftsAreKept
<1>5. CardPart
  <2>1. entry # "unread"
    BY <1>4 DEF Dialog!Value
  <2>2. Dialog!StartIsOfThePage
    BY <1>1, <1>2, <1>4, <2>1, SamePlace DEF Dialog!StartIsOfThePage
  <2> QED BY <1>1, <1>2, <1>4, <2>2 DEF CardPart, Dialog!ShownIsSent
<1>6. JobPart
  <2>1. Dialog!Idle \in Dialog!JobType /\ Dialog!Idle.at = "idle"
    BY DEF Dialog!JobType, Dialog!JobAt, Dialog!Idle, Dialog!Value
  <2>2. job \in [Job -> Dialog!JobType] /\ \A j \in Job : job[j].at = "idle"
    BY <1>1, <2>1
  <2>3. applying \in Seq(Dialog!JobType) /\ Len(applying) = 0 /\ Len(applying) <= MaxLoads
    BY <1>1 DEF Dialog!DialogAssumption
  <2>4. 1..Len(applying) = {}
    BY <2>3
  <2> QED BY <2>2, <2>3, <2>4 DEF JobPart, Dialog!SubmissionsAreSendable
<1>7. GroupsPart
  <2>1. groups \in BOOLEAN /\ (groups => Dialog!Grouped)
    BY DEF Dialog!Init
  <2>2. Dialog!Grouped => Dialog!InTable
    BY DEF Dialog!Grouped, Dialog!InTable, Dialog!Row, Dialog!Server, Dialog!Trait
  <2> QED BY <2>1, <2>2 DEF GroupsPart
<1> QED BY <1>1, <1>3, <1>5, <1>6, <1>7, DialogParts

\* Every step of the dialog, its page, the dashboard and the agent keeps the invariant.
LEMMA DialogStep ==
  Dialog!DialogAssumption /\ Dialog!DialogIInv /\ [Dialog!Next]_dialogVars => Dialog!DialogIInv'
<1> SUFFICES ASSUME Dialog!DialogAssumption, Dialog!DialogIInv, [Dialog!Next]_dialogVars
             PROVE  Dialog!DialogIInv'
  OBVIOUS
<1>0. field \in Dialog!Traits /\ EntryPart /\ CardPart /\ JobPart
  BY DialogParts
<1>g. GroupsPart'
  BY DialogParts, GroupsStep
<1>a. /\ entry \in Dialog!Stored
      /\ page \in Dialog!Stored \union {"unread"} /\ page_error \in BOOLEAN /\ loading \in BOOLEAN
      /\ request \in Dialog!Stored \union {"no", "asked"}
      /\ start \in Dialog!Drafts /\ draft \in Dialog!Drafts
      /\ (Dialog!Header => page = "unread") /\ (Dialog!InTable => page # "unread")
      /\ (~Dialog!Header /\ page # "unread" => start = Dialog!Load(field.codec, page))
      /\ (Dialog!Page => opened)
  BY <1>0 DEF EntryPart, CardPart, Dialog!StartIsOfThePage
<1>b. /\ job \in [Job -> Dialog!JobType] /\ applying \in Seq(Dialog!JobType)
      /\ \A j \in Job : job[j].at = "sent" =>
           /\ job[j].value \in Dialog!Drafts /\ Dialog!Accepts(job[j].value)
      /\ \A i \in 1..Len(applying) :
           applying[i].value \in Dialog!Drafts /\ Dialog!Accepts(applying[i].value)
  BY <1>0 DEF JobPart, Dialog!SubmissionsAreSendable, Dialog!Sendable
<1>c. ASSUME UNCHANGED <<field, entry, by_form, changes, job, applying>>, CardPart' PROVE Dialog!DialogIInv'
  <2>1. JobPart'
    BY <1>0, <1>b, <1>c, SameJobs
  <2>2. EntryPart'
    BY <1>0, <1>c, SameEntry
  <2>3. (field \in Dialog!Traits)'
    BY <1>0, <1>c
  <2> QED BY <1>c, <1>g, <2>1, <2>2, <2>3, DialogParts, PTL
<1>d. ASSUME UNCHANGED <<field, entry, by_form, changes>>, CardPart', JobPart' PROVE Dialog!DialogIInv'
  <2>2. EntryPart'
    BY <1>0, <1>d, SameEntry
  <2>3. (field \in Dialog!Traits)'
    BY <1>0, <1>d
  <2> QED BY <1>d, <1>g, <2>2, <2>3, DialogParts, PTL
<1>e. ASSUME field' = field, EntryPart', CardPart', JobPart' PROVE Dialog!DialogIInv'
  <2>1. (field \in Dialog!Traits)'
    BY <1>0, <1>e
  <2> QED BY <1>e, <1>g, <2>1, DialogParts, PTL
<1> USE DEF Dialog!pageVars, Dialog!cardVars
<1>1. CASE Dialog!OpenDialog
  <2>1. /\ opened' = TRUE /\ overtaken' = FALSE /\ shown' = draft'
        /\ draft' = (IF Dialog!Server THEN Dialog!Load(field.codec, page) ELSE draft)
        /\ start' = (IF Dialog!Server THEN draft' ELSE start)
        /\ request' \in {"asked", request}
        /\ UNCHANGED <<field, entry, by_form, changes, page, page_error, loading, job, applying>>
    BY <1>1 DEF Dialog!OpenDialog
  <2>2. start' \in Dialog!Drafts /\ draft' \in Dialog!Drafts /\ shown' \in Dialog!Value
    <3>1. Dialog!Server => page \in Dialog!Stored
      BY <1>0, <1>a, SamePlace
    <3> QED BY <1>0, <1>a, <2>1, <3>1, DraftsAreKept
  <2>3. Dialog!StartIsOfThePage'
    BY <1>0, <1>a, <2>1, <2>2, SameField, SamePlace DEF Dialog!StartIsOfThePage, Dialog!Load
  <2>4. Dialog!ShownIsSent'
    BY <2>1 DEF Dialog!ShownIsSent
  <2>5. CardPart'
    BY <1>a, <2>1, <2>2, <2>3, <2>4, SameField DEF CardPart
  <2> QED BY <1>c, <2>1, <2>5
<1>2. CASE Dialog!CloseDialog
  <2>1. /\ ~Dialog!Page /\ opened' = FALSE
        /\ UNCHANGED <<field, entry, by_form, changes, page, page_error, request, loading, start, draft, shown,
                       overtaken, job, applying>>
    BY <1>2 DEF Dialog!CloseDialog
  <2>2. CardPart'
    <3>1. Dialog!StartIsOfThePage' /\ Dialog!ShownIsSent'
      BY <1>0, <2>1, SameField DEF CardPart, Dialog!StartIsOfThePage, Dialog!ShownIsSent, Dialog!Load
    <3> QED BY <1>0, <2>1, <3>1, SameField DEF CardPart
  <2> QED BY <1>c, <2>1, <2>2
<1>3. ASSUME NEW v \in Dialog!Value, Dialog!Edit(v) PROVE Dialog!DialogIInv'
  <2>1. /\ v \in Dialog!Typed /\ draft' = v /\ shown' = v
        /\ UNCHANGED <<field, entry, by_form, changes, page, page_error, request, loading, opened, start,
                       overtaken, job, applying>>
    BY <1>3 DEF Dialog!Edit
  <2>2. v \in Dialog!Drafts /\ v \in Dialog!Value
    BY <1>0, <1>a, <2>1, DraftsAreKept
  <2>3. CardPart'
    BY <1>0, <2>1, <2>2, SameField DEF CardPart, Dialog!ShownIsSent, Dialog!StartIsOfThePage, Dialog!Load
  <2> QED BY <1>c, <2>1, <2>3
<1>4. CASE Dialog!Tick
  <2>1. /\ ~opened /\ ~Dialog!Ask /\ job' = Dialog!Orphaned
        /\ Dialog!Remount(IF Dialog!Header THEN Dialog!Blank ELSE Dialog!Load(field.codec, page))
        /\ UNCHANGED <<field, entry, by_form, changes, page, page_error, request, loading, applying>>
    BY <1>4 DEF Dialog!Tick
  <2>2. JobPart'
    BY <1>0, <2>1, RenderedJobs
  <2>3. CardPart'
    <3>1. ~Dialog!Page /\ (~Dialog!Header => page # "unread")
      BY <1>0, <1>a, <2>1, SamePlace
    <3>2. PICK v : v = IF Dialog!Header THEN Dialog!Blank ELSE Dialog!Load(field.codec, page)
      OBVIOUS
    <3>3. Dialog!Remount(v)
      BY <2>1, <3>2
    <3>4. \/ Dialog!Header /\ v = Dialog!Blank
          \/ ~Dialog!Header /\ page' # "unread" /\ v = Dialog!Load(field.codec, page')
      BY <2>1, <3>1, <3>2
    <3> QED BY <1>0, <1>a, <2>1, <3>1, <3>3, <3>4, RemountedCard
  <2> QED BY <1>d, <2>1, <2>2, <2>3
<1>5. ASSUME NEW j \in Job, Dialog!Press(j) PROVE Dialog!DialogIInv'
  <2> DEFINE s == [at |-> "sent", value |-> draft,
                   from |-> IF draft = start THEN page ELSE "touched", mounted |-> TRUE]
  <2>1. /\ Dialog!Accepts(draft) /\ job' = [job EXCEPT ![j] = s]
        /\ UNCHANGED <<field, entry, by_form, changes, page, page_error, request, loading, opened, start, draft,
                       shown, overtaken, applying>>
    BY <1>5 DEF Dialog!Press
  <2>2. s \in Dialog!JobType
    <3>1. draft \in Dialog!Value /\ page \in Dialog!Value \union {"unread"}
      BY <1>0, <1>a, DraftsAreKept
    <3> QED BY <3>1 DEF Dialog!JobType, Dialog!JobAt
  <2>3. s.value \in Dialog!Drafts /\ (s.from \notin {"touched", "unread"} => s.value = Dialog!Load(field.codec, s.from))
    BY <1>a
  <2>4. s.value = draft
    OBVIOUS
  <2> HIDE DEF s
  <2>5. job' \in [Job -> Dialog!JobType] /\ \A k \in Job : job'[k] = IF k = j THEN s ELSE job[k]
    BY <1>b, <2>1, <2>2
  <2>6. ASSUME NEW k \in Job, job'[k].at = "sent" PROVE Dialog!Sendable(job'[k])
    <3>1. CASE k = j
      BY <2>1, <2>3, <2>4, <2>5, <3>1 DEF Dialog!Sendable
    <3>2. CASE k # j
      BY <1>0, <2>5, <2>6, <3>2 DEF JobPart, Dialog!SubmissionsAreSendable
    <3> QED BY <3>1, <3>2
  <2>7. \A i \in 1..Len(applying) : Dialog!Sendable(applying[i])
    BY <1>0 DEF JobPart, Dialog!SubmissionsAreSendable
  <2>8. JobPart'
    BY <1>0, <2>1, <2>5, <2>6, <2>7, SameField DEF JobPart, Dialog!SubmissionsAreSendable, Dialog!Sendable, Dialog!Accepts
  <2>9. CardPart'
    BY <1>0, <1>a, <2>1, SameCard
  <2> QED BY <1>d, <2>1, <2>8, <2>9
<1>6. ASSUME NEW j \in Job, Dialog!Land(j) PROVE Dialog!DialogIInv'
  <2>1. /\ job[j].at = "sent" /\ entry' = Dialog!Kept(job[j].value) /\ by_form' = (by_form \/ entry' # entry)
        /\ UNCHANGED <<field, changes, page, page_error, request, loading, opened, start, draft, shown, overtaken,
                       applying>>
        /\ \/ job' = [job EXCEPT ![j] = [Dialog!Idle EXCEPT !.at = "landed", !.mounted = job[j].mounted]]
           \/ job' = [job EXCEPT ![j] = Dialog!Idle]
    BY <1>6 DEF Dialog!Land, Dialog!Landed, Dialog!Failed
  <2>2. EntryPart'
    BY <1>0, <1>b, <2>1, StoredEntry
  <2>3. JobPart'
    BY <1>0, <2>1, OneJob
  <2>4. CardPart'
    BY <1>0, <1>a, <2>1, SameCard
  <2> QED BY <1>e, <2>1, <2>2, <2>3, <2>4
<1>7. ASSUME NEW j \in Job, Dialog!Fail(j) PROVE Dialog!DialogIInv'
  <2>1. /\ job' = [job EXCEPT ![j] = Dialog!Idle]
        /\ UNCHANGED <<field, entry, by_form, changes, page, page_error, request, loading, opened, start, draft,
                       shown, overtaken, applying>>
    BY <1>7 DEF Dialog!Fail, Dialog!Failed
  <2>2. JobPart'
    BY <1>0, <2>1, OneJob
  <2>3. CardPart'
    BY <1>0, <1>a, <2>1, SameCard
  <2> QED BY <1>d, <2>1, <2>2, <2>3
<1>8. ASSUME NEW j \in Job, Dialog!Dispatch(j) PROVE Dialog!DialogIInv'
  <2> DEFINE s == [job[j] EXCEPT !.mounted = FALSE]
             r == [Dialog!Idle EXCEPT !.at = "landed", !.mounted = job[j].mounted]
  <2>1. /\ Len(applying) < MaxLoads /\ job[j].at = "sent"
        /\ job' = [job EXCEPT ![j] = r]
        /\ applying' = Append(applying, s)
        /\ UNCHANGED <<field, entry, by_form, changes, page, page_error, request, loading, opened, start, draft,
                       shown, overtaken>>
    BY <1>8 DEF Dialog!Dispatch, Dialog!Landed
  <2>2. s \in Dialog!JobType /\ s.value = job[j].value /\ s.from = job[j].from
    BY <1>0, <1>b, JobsAfter DEF Dialog!JobType
  <2>3. r \in Dialog!JobType /\ r.at = "landed"
    BY <1>0, JobsAfter DEF Dialog!Idle
  <2> HIDE DEF s, r
  <2>4. Dialog!Sendable(s)
    BY <1>0, <2>1, <2>2 DEF JobPart, Dialog!SubmissionsAreSendable, Dialog!Sendable
  <2>5. /\ applying' \in Seq(Dialog!JobType) /\ Len(applying') = Len(applying) + 1 /\ Len(applying) \in Nat
        /\ \A i \in 1..Len(applying') : applying'[i] = s \/ (i \in 1..Len(applying) /\ applying'[i] = applying[i])
    BY <1>b, <2>1, <2>2
  <2>6. \A i \in 1..Len(applying') : Dialog!Sendable(applying'[i])
    BY <1>0, <2>4, <2>5 DEF JobPart, Dialog!SubmissionsAreSendable
  <2>7. job' \in [Job -> Dialog!JobType] /\ \A k \in Job : job'[k].at = "sent" => Dialog!Sendable(job'[k])
    <3>1. job' \in [Job -> Dialog!JobType] /\ \A k \in Job : job'[k] = IF k = j THEN r ELSE job[k]
      BY <1>b, <2>1, <2>3
    <3> QED BY <1>0, <2>3, <3>1 DEF JobPart, Dialog!SubmissionsAreSendable
  <2>8. Len(applying') <= MaxLoads
    BY <2>1, <2>5 DEF Dialog!DialogAssumption
  <2>9. JobPart'
    BY <2>1, <2>5, <2>6, <2>7, <2>8, SameField DEF JobPart, Dialog!SubmissionsAreSendable, Dialog!Sendable, Dialog!Accepts
  <2>10. CardPart'
    BY <1>0, <1>a, <2>1, SameCard
  <2> QED BY <1>d, <2>1, <2>9, <2>10
<1>9. CASE Dialog!AgentApplies
  <2>1. /\ applying # <<>> /\ applying' = Tail(applying)
        /\ entry' \in {Dialog!Kept(Head(applying).value), entry}
        /\ by_form' = (by_form \/ entry' # entry)
        /\ UNCHANGED <<field, changes, page, page_error, request, loading, opened, start, draft, shown, overtaken, job>>
    BY <1>9 DEF Dialog!AgentApplies
  <2>2. /\ Len(applying) \in Nat /\ 1 \in 1..Len(applying) /\ Head(applying) = applying[1]
        /\ applying' \in Seq(Dialog!JobType) /\ Len(applying') = Len(applying) - 1
        /\ \A i \in 1..Len(applying') : applying'[i] = applying[i + 1] /\ i + 1 \in 1..Len(applying)
    <3>1. applying \in Seq(Dialog!JobType) /\ applying # <<>> /\ Len(applying) \in Nat
      BY <1>b, <2>1
    <3>2. Len(applying) # 0
      BY <3>1, EmptySeq
    <3> QED BY <2>1, <3>1, <3>2, HeadTailProperties
  <2>3. EntryPart'
    BY <1>0, <1>b, <2>1, <2>2, StoredEntry
  <2>4. \A i \in 1..Len(applying') : Dialog!Sendable(applying'[i])
    BY <1>0, <2>2 DEF JobPart, Dialog!SubmissionsAreSendable
  <2>5. Len(applying') <= MaxLoads
    BY <1>0, <2>2 DEF JobPart, Dialog!DialogAssumption
  <2>6. \A k \in Job : job[k].at = "sent" => Dialog!Sendable(job[k])
    BY <1>0 DEF JobPart, Dialog!SubmissionsAreSendable
  <2>7. JobPart'
    BY <1>b, <2>1, <2>2, <2>4, <2>5, <2>6, SameField DEF JobPart, Dialog!SubmissionsAreSendable, Dialog!Sendable, Dialog!Accepts
  <2>8. CardPart'
    BY <1>0, <1>a, <2>1, SameCard
  <2> QED BY <1>e, <2>1, <2>3, <2>7, <2>8
<1>10. ASSUME NEW j \in Job, Dialog!Succeed(j) PROVE Dialog!DialogIInv'
  <2>1. /\ job' = [job EXCEPT ![j] = IF Dialog!InTable \/ Dialog!Header THEN [@ EXCEPT !.at = "mutating"] ELSE Dialog!Idle]
        /\ opened' = (opened /\ (Dialog!Page \/ ~job[j].mounted))
        /\ request' \in {request, "asked"}
        /\ UNCHANGED <<field, entry, by_form, changes, page, page_error, loading, start, applying>>
    BY <1>10 DEF Dialog!Succeed
  <2>2. IF (Dialog!Page \/ Dialog!Ask) /\ job[j].mounted
        THEN /\ draft' = start
             /\ shown' = (IF Dialog!Page /\ Dialog!KeepsItself THEN shown ELSE start)
             /\ overtaken' = (Dialog!Page /\ (overtaken \/ (Dialog!KeepsItself /\ shown # start)))
        ELSE UNCHANGED <<draft, shown, overtaken>>
    BY <1>10 DEF Dialog!Succeed
  <2>3. JobPart'
    <3> DEFINE r == IF Dialog!InTable \/ Dialog!Header THEN [job[j] EXCEPT !.at = "mutating"] ELSE Dialog!Idle
    <3>1. job' = [job EXCEPT ![j] = r]
      BY <2>1
    <3>2. r \in {Dialog!Idle, [job[j] EXCEPT !.at = "mutating"],
                 [Dialog!Idle EXCEPT !.at = "landed", !.mounted = job[j].mounted]}
      OBVIOUS
    <3> HIDE DEF r
    <3> QED BY <1>0, <2>1, <3>1, <3>2, OneJob
  <2>4. opened' \in BOOLEAN /\ (opened' => opened) /\ (Dialog!Page => opened')
    <3>1. opened \in BOOLEAN
      BY <1>0 DEF CardPart
    <3> QED BY <1>a, <2>1, <3>1
  <2>5. draft' \in Dialog!Drafts /\ shown' \in Dialog!Value /\ overtaken' \in BOOLEAN
    <3>1. start \in Dialog!Value /\ shown \in Dialog!Value /\ overtaken \in BOOLEAN
      BY <1>0, <1>a, DraftsAreKept DEF CardPart
    <3> QED BY <1>a, <2>2, <3>1
  <2>6. Dialog!StartIsOfThePage'
    BY <1>a, <2>1, <2>4, <2>5, SameField DEF Dialog!StartIsOfThePage, Dialog!Load
  <2>7. Dialog!ShownIsSent'
    <3> SUFFICES ASSUME opened', shown' # draft' PROVE Dialog!KeepsItself /\ overtaken'
      BY <2>1, SameField DEF Dialog!ShownIsSent
    <3>1. CASE (Dialog!Page \/ Dialog!Ask) /\ job[j].mounted
      <4>1. Dialog!Page /\ Dialog!KeepsItself /\ shown # start
        BY <2>2, <3>1
      <4>2. overtaken' = (Dialog!Page /\ (overtaken \/ (Dialog!KeepsItself /\ shown # start)))
        BY <2>2, <3>1
      <4> QED BY <4>1, <4>2, Zenon
    <3>2. CASE ~((Dialog!Page \/ Dialog!Ask) /\ job[j].mounted)
      BY <1>0, <2>2, <2>4, <3>2 DEF CardPart, Dialog!ShownIsSent
    <3> QED BY <3>1, <3>2
  <2>8. CardPart'
    BY <1>a, <2>1, <2>4, <2>5, <2>6, <2>7, SameField DEF CardPart
  <2> QED BY <1>d, <2>1, <2>3, <2>8
<1>11. CASE Dialog!Revalidate \/ Dialog!ReadEntry
  <2>1. /\ request' \in {"asked", entry}
        /\ UNCHANGED <<field, entry, by_form, changes, page, page_error, loading, opened, start, draft, shown,
                       overtaken, job, applying>>
    BY <1>11 DEF Dialog!Revalidate, Dialog!ReadEntry
  <2>2. CardPart'
    BY <1>0, <1>a, <2>1, SameCard
  <2> QED BY <1>c, <2>1, <2>2
<1>12. CASE Dialog!Answered
  <2>1. /\ request \in Dialog!Stored /\ request # "unread" /\ request' = "no" /\ page_error' = FALSE /\ loading' = FALSE
        /\ page' = (IF Dialog!Header THEN page ELSE request)
        /\ UNCHANGED <<field, entry, by_form, changes, applying>>
    BY <1>a, <1>12 DEF Dialog!Answered, Dialog!Value
  <2>2. CASE Dialog!InTable
    <3>1. Dialog!RowsAnswered(request, FALSE) /\ ~Dialog!Header
      BY <1>0, <1>12, <2>2, SamePlace DEF Dialog!Answered
    <3>2. CardPart' /\ JobPart'
      BY <1>0, <2>1, <2>2, <3>1, AnsweredRows
    <3> QED BY <1>d, <2>1, <3>2
  <2>3. CASE Dialog!Header
    <3>1. Dialog!HeaderAnswered
      BY <1>0, <1>12, <2>3, SamePlace DEF Dialog!Answered
    <3>2. CardPart' /\ JobPart'
      BY <1>0, <2>1, <2>3, <3>1, AnsweredCard DEF Dialog!HeaderAnswered
    <3> QED BY <1>d, <2>1, <3>2
  <2>4. CASE ~Dialog!InTable /\ ~Dialog!Header
    <3>1. /\ job' = Dialog!Settled /\ page' = request
          /\ IF Dialog!Ask \/ request # page
             THEN /\ start' = Dialog!Load(field.codec, request)
                  /\ Dialog!Reset(start')
                  /\ UNCHANGED opened
             ELSE UNCHANGED Dialog!cardVars
      BY <1>12, <2>1, <2>4 DEF Dialog!Answered
    <3>2. JobPart'
      BY <1>0, <2>1, <3>1, RenderedJobs
    <3>3. CASE Dialog!Ask \/ request # page
      <4>1. start' \in Dialog!Drafts
        BY <1>0, <1>a, <2>1, <3>1, <3>3, DraftsAreKept
      <4>2. CardPart'
        BY <1>0, <1>a, <2>1, <2>4, <3>1, <3>3, <4>1, ResetCard
      <4> QED BY <1>d, <2>1, <3>2, <4>2
    <3>4. CASE ~(Dialog!Ask \/ request # page)
      <4>1. CardPart'
        BY <1>0, <1>a, <2>1, <3>1, <3>4, SameCard
      <4> QED BY <1>d, <2>1, <3>2, <4>1
    <3> QED BY <3>3, <3>4
  <2> QED BY <2>2, <2>3, <2>4
<1>13. CASE Dialog!RequestFailed
  <2>1. /\ request' = "no" /\ page_error' \in BOOLEAN /\ loading' = FALSE
        /\ UNCHANGED <<field, entry, by_form, changes, page, applying>>
    BY <1>13 DEF Dialog!RequestFailed, Dialog!InTable, Dialog!Row, Dialog!Server
  <2>2. CASE Dialog!InTable
    <3>1. Dialog!RowsAnswered(page, TRUE) /\ page \in Dialog!Stored
      BY <1>a, <1>13, <2>2 DEF Dialog!RequestFailed
    <3>2. CardPart' /\ JobPart'
      BY <1>0, <2>1, <2>2, <3>1, AnsweredRows
    <3> QED BY <1>d, <2>1, <3>2
  <2>3. CASE Dialog!Header
    <3>1. Dialog!HeaderAnswered
      BY <1>0, <1>13, <2>3, SamePlace DEF Dialog!RequestFailed
    <3>2. CardPart' /\ JobPart'
      BY <1>0, <2>1, <2>3, <3>1, AnsweredCard DEF Dialog!HeaderAnswered
    <3> QED BY <1>d, <2>1, <3>2
  <2>4. CASE ~Dialog!InTable /\ ~Dialog!Header
    <3>1. /\ job' = Dialog!Settled /\ opened' = (opened /\ Dialog!Page)
          /\ UNCHANGED <<start, draft, shown, overtaken>>
      BY <1>13, <2>4 DEF Dialog!RequestFailed
    <3>2. JobPart'
      BY <1>0, <2>1, <3>1, RenderedJobs
    <3>3. opened' \in BOOLEAN /\ (opened' => opened) /\ (Dialog!Page => opened')
      <4>1. opened \in BOOLEAN
        BY <1>0 DEF CardPart
      <4> QED BY <1>a, <3>1, <4>1
    <3>4. Dialog!StartIsOfThePage' /\ Dialog!ShownIsSent'
      BY <1>0, <2>1, <3>1, <3>3, SameField DEF CardPart, Dialog!StartIsOfThePage, Dialog!ShownIsSent, Dialog!Load
    <3>5. CardPart'
      BY <1>0, <2>1, <3>1, <3>3, <3>4, SameField DEF CardPart
    <3> QED BY <1>d, <2>1, <3>2, <3>5
  <2> QED BY <2>2, <2>3, <2>4
<1>14. CASE Dialog!ChangeElsewhere
  <2>1. /\ changes < MaxChanges /\ changes' = changes + 1 /\ entry' \in Dialog!Stored /\ by_form' = FALSE
        /\ UNCHANGED <<field, page, page_error, request, loading, opened, start, draft, shown, overtaken, job, applying>>
    BY <1>14 DEF Dialog!ChangeElsewhere
  <2>2. EntryPart'
    <3>1. changes' \in 0..MaxChanges
      BY <1>0, <2>1 DEF EntryPart, Dialog!DialogAssumption
    <3> QED BY <2>1, <3>1, SameField DEF EntryPart, Dialog!OwnValuesAreAccepted
  <2>3. JobPart'
    BY <1>0, <1>b, <2>1, SameJobs
  <2>4. CardPart'
    BY <1>0, <1>a, <2>1, SameCard
  <2> QED BY <1>e, <2>1, <2>2, <2>3, <2>4
<1>15. CASE UNCHANGED dialogVars
  <2>1. UNCHANGED <<field, entry, by_form, changes, page, page_error, request, loading, opened, start, draft,
                    shown, overtaken, job, applying>>
    BY <1>15 DEF dialogVars
  <2>2. CardPart'
    BY <1>0, <1>a, <2>1, SameCard
  <2> QED BY <1>c, <2>1, <2>2
<1>16. CASE Dialog!GroupsAnswered
  <2>1. groups /\ UNCHANGED <<field, entry, by_form, changes, page, page_error, request, loading, applying>>
    BY <1>16 DEF Dialog!GroupsAnswered
  <2>2. CASE Dialog!Remount(Dialog!Load(field.codec, page)) /\ job' = Dialog!Orphaned
    <3>1. Dialog!InTable
      BY <2>1, DialogParts DEF GroupsPart
    <3>2. ~Dialog!Page /\ ~Dialog!Header /\ page # "unread"
      BY <1>0, <1>a, <3>1, SamePlace
    <3>3. PICK v : v = Dialog!Load(field.codec, page)
      OBVIOUS
    <3>4. Dialog!Remount(v) /\ v = Dialog!Load(field.codec, page')
      BY <2>1, <2>2, <3>3
    <3>5. CardPart'
      BY <1>0, <1>a, <2>1, <3>2, <3>4, RemountedCard
    <3>6. JobPart'
      BY <1>0, <2>1, <2>2, RenderedJobs
    <3> QED BY <1>d, <2>1, <3>5, <3>6
  <2>3. CASE UNCHANGED <<Dialog!cardVars, job>>
    <3>1. UNCHANGED <<opened, start, draft, shown, overtaken, job>>
      BY <2>3
    <3>2. CardPart'
      BY <1>0, <1>a, <2>1, <3>1, SameCard
    <3> QED BY <1>c, <2>1, <3>1, <3>2
  <2> QED BY <1>16, <2>2, <2>3 DEF Dialog!GroupsAnswered
<1> QED BY <1>1, <1>2, <1>3, <1>4, <1>5, <1>6, <1>7, <1>8, <1>9, <1>10, <1>11, <1>12, <1>13, <1>14, <1>15, <1>16
        DEF Dialog!Next

\* What was not touched is stored as it was.
LEMMA UntouchedStep ==
  ASSUME Dialog!DialogIInv, [Dialog!Next]_dialogVars
  PROVE  /\ \A j \in Job : Dialog!Landing(j) /\ ~Dialog!Header => Dialog!Overwrites(job[j])
         /\ Dialog!AgentApplies => Dialog!Overwrites(Head(applying))
<1>0. field \in Dialog!Traits /\ EntryPart /\ CardPart /\ JobPart
  BY DialogParts
<1>1. entry \in Dialog!Stored /\ entry \in Dialog!Value /\ entry \notin {"touched", "unread"}
  BY <1>0, DraftsAreKept DEF EntryPart, Dialog!Value
<1>2. ASSUME NEW s, Dialog!Sendable(s), s.from = entry
      PROVE  Dialog!Kept(s.value) = entry \/ (field.codec = "flags" /\ entry = "odd")
  <2>1. s.value = Dialog!Load(field.codec, entry) /\ Dialog!Accepts(s.value)
    BY <1>1, <1>2 DEF Dialog!Sendable
  <2> QED BY <1>0, <1>1, <2>1, DraftsAreKept
<1>3. ASSUME NEW j \in Job, Dialog!Landing(j), entry' # entry, job[j].from = entry
      PROVE  field.codec = "flags" /\ entry = "odd"
  <2>1. job[j].at = "sent" /\ job'[j].at # "sent" /\ Dialog!Sendable(job[j])
    BY <1>0, <1>3 DEF Dialog!Landing, JobPart, Dialog!SubmissionsAreSendable
  <2>2. ~UNCHANGED job /\ ~UNCHANGED entry
    BY <1>3, <2>1
  <2>3. PICK k \in Job : Dialog!Land(k)
    BY <2>2 DEF Dialog!Next, dialogVars, Dialog!OpenDialog, Dialog!CloseDialog, Dialog!Tick, Dialog!Revalidate,
                Dialog!ReadEntry, Dialog!Answered, Dialog!RequestFailed, Dialog!GroupsAnswered,
                Dialog!ChangeElsewhere, Dialog!AgentApplies, Dialog!Edit, Dialog!Press, Dialog!Fail, Dialog!Dispatch,
                Dialog!Succeed
  <2>4. k = j
    <3> SUFFICES ASSUME k # j PROVE FALSE
      OBVIOUS
    <3>1. job \in [Job -> Dialog!JobType]
      BY <1>0 DEF JobPart
    <3>2. job'[j] = job[j]
      BY <2>3, <3>1 DEF Dialog!Land, Dialog!Landed, Dialog!Failed
    <3> QED BY <2>1, <3>2
  <2>5. entry' = Dialog!Kept(job[j].value)
    BY <2>3, <2>4 DEF Dialog!Land
  <2> QED BY <1>2, <1>3, <2>1, <2>5
<1>4. ASSUME Dialog!AgentApplies, entry' # entry, Head(applying).from = entry
      PROVE  field.codec = "flags" /\ entry = "odd"
  <2>1. applying \in Seq(Dialog!JobType) /\ applying # <<>> /\ Len(applying) \in Nat
    BY <1>0, <1>4 DEF Dialog!AgentApplies, JobPart
  <2>2. Len(applying) # 0
    BY <2>1, EmptySeq
  <2>3. 1 \in 1..Len(applying) /\ Head(applying) = applying[1]
    BY <2>1, <2>2
  <2>4. Dialog!Sendable(Head(applying))
    BY <1>0, <2>3 DEF JobPart, Dialog!SubmissionsAreSendable
  <2>5. entry' = Dialog!Kept(Head(applying).value)
    BY <1>4 DEF Dialog!AgentApplies
  <2> QED BY <1>2, <1>4, <2>4, <2>5
<1> QED BY <1>3, <1>4 DEF Dialog!Overwrites

\* What was entered is lost only for the reasons that are named.
LEMMA DraftsStep ==
  ASSUME Dialog!DialogIInv, [Dialog!Next]_dialogVars, Dialog!Lost
  PROVE  \/ Dialog!CloseDialog \/ \E v \in Dialog!Value : Dialog!Edit(v)
         \/ page' # page \/ page_error' # page_error \/ (page_error /\ page_error')
         \/ groups /\ ~groups'
         \/ \E j \in Job : job[j].mounted /\ job[j].at # "idle" /\ job'[j].at # job[j].at
         \/ Dialog!Ask /\ request # "no" /\ request' = "no"
<1>0. field \in Dialog!Traits /\ EntryPart /\ CardPart /\ JobPart
  BY DialogParts
<1>1. /\ opened /\ draft # start /\ ~(opened' /\ draft' = draft)
      /\ job \in [Job -> Dialog!JobType] /\ page_error \in BOOLEAN /\ opened \in BOOLEAN
  BY <1>0 DEF Dialog!Lost, CardPart, JobPart
<1>2. ~UNCHANGED <<opened, draft>>
  BY <1>1
\* Submissions that waited for the answer have ended.
<1>3. ASSUME job' = Dialog!Settled, NEW j \in Job, Dialog!Waiting(j), job[j].mounted
      PROVE  job[j].mounted /\ job[j].at # "idle" /\ job'[j].at # job[j].at
  <2>1. job'[j] = Dialog!Idle /\ job[j].at = "mutating"
    BY <1>3 DEF Dialog!Settled, Dialog!Waiting
  <2> QED BY <1>3, <2>1 DEF Dialog!Idle
<1>4. CASE Dialog!Answered
  <2>1. request # "no" /\ request' = "no" /\ page_error' = FALSE /\ page' = IF Dialog!Header THEN page ELSE request
    BY <1>4 DEF Dialog!Answered, Dialog!Value
  <2>2. CASE Dialog!InTable
    <3>1. Dialog!RowsAnswered(request, FALSE) /\ ~Dialog!Header
      BY <1>0, <1>4, <2>2, SamePlace DEF Dialog!Answered
    <3>2. CASE request # page \/ FALSE # page_error
      BY <1>1, <2>1, <3>1, <3>2
    <3>3. CASE ~(request # page \/ FALSE # page_error \/ FALSE)
      <4>1. /\ job' = Dialog!Settled
            /\ \/ \E j \in Job : Dialog!Waiting(j) /\ job[j].mounted
               \/ UNCHANGED Dialog!cardVars
        BY <3>1, <3>3 DEF Dialog!RowsAnswered
      <4> QED BY <1>2, <1>3, <4>1 DEF Dialog!cardVars
    <3> QED BY <3>2, <3>3
  <2>3. CASE Dialog!Header
    <3>1. Dialog!HeaderAnswered
      BY <1>0, <1>4, <2>3, SamePlace DEF Dialog!Answered
    <3>2. /\ job' = Dialog!Settled
          /\ \/ \E j \in Job : Dialog!Waiting(j) /\ job[j].mounted
             \/ UNCHANGED Dialog!cardVars
      BY <3>1 DEF Dialog!HeaderAnswered
    <3> QED BY <1>2, <1>3, <3>2 DEF Dialog!cardVars
  <2>4. CASE ~Dialog!InTable /\ ~Dialog!Header
    <3>1. \/ Dialog!Ask \/ request # page
          \/ UNCHANGED Dialog!cardVars
      BY <1>4, <2>4 DEF Dialog!Answered
    <3> QED BY <1>2, <2>1, <2>4, <3>1 DEF Dialog!cardVars
  <2> QED BY <2>2, <2>3, <2>4
<1>5. CASE Dialog!RequestFailed
  <2>1. request # "no" /\ request' = "no" /\ page_error' = Dialog!InTable
    BY <1>5 DEF Dialog!RequestFailed, Dialog!Value
  <2>2. CASE Dialog!InTable
    <3>1. page_error'
      BY <2>1, <2>2, Zenon
    <3> QED BY <1>1, <3>1
  <2>3. CASE Dialog!Header
    <3>1. Dialog!HeaderAnswered
      BY <1>0, <1>5, <2>3, SamePlace DEF Dialog!RequestFailed
    <3>2. /\ job' = Dialog!Settled
          /\ \/ \E j \in Job : Dialog!Waiting(j) /\ job[j].mounted
             \/ UNCHANGED Dialog!cardVars
      BY <3>1 DEF Dialog!HeaderAnswered
    <3> QED BY <1>2, <1>3, <3>2 DEF Dialog!cardVars
  <2>4. CASE ~Dialog!InTable /\ ~Dialog!Header
    <3>1. opened' = (opened /\ Dialog!Page) /\ draft' = draft
      BY <1>5, <2>4 DEF Dialog!RequestFailed
    <3>2. ~Dialog!Page
      <4> SUFFICES ASSUME Dialog!Page PROVE FALSE
        OBVIOUS
      <4>1. opened'
        BY <1>1, <3>1, Zenon
      <4> QED BY <1>1, <3>1, <4>1
    <3>3. Dialog!Ask
      BY <1>0, <2>4, <3>2, SamePlace
    <3> QED BY <2>1, <3>3
  <2> QED BY <2>2, <2>3, <2>4
<1>6. ASSUME NEW j \in Job, Dialog!Succeed(j)
      PROVE  job[j].mounted /\ job[j].at # "idle" /\ job'[j].at # job[j].at
  <2>1. /\ job[j].at = "landed"
        /\ job' = [job EXCEPT ![j] = IF Dialog!InTable \/ Dialog!Header THEN [@ EXCEPT !.at = "mutating"]
                                     ELSE Dialog!Idle]
        /\ opened' = (opened /\ (Dialog!Page \/ ~job[j].mounted))
    BY <1>6 DEF Dialog!Succeed
  <2>2. job[j].mounted
    <3> SUFFICES ASSUME ~job[j].mounted PROVE FALSE
      OBVIOUS
    <3>1. opened'
      BY <1>1, <2>1, Zenon
    <3>2. draft' = draft
      BY <1>6 DEF Dialog!Succeed
    <3> QED BY <1>1, <3>1, <3>2
  <2>3. job'[j].at \in {"mutating", "idle"}
    BY <1>1, <2>1 DEF Dialog!Idle, Dialog!JobType
  <2> QED BY <2>1, <2>2, <2>3
<1>7. ~Dialog!OpenDialog /\ ~Dialog!Tick
  BY <1>1 DEF Dialog!OpenDialog, Dialog!Tick
<1>8. \A j \in Job : ~Dialog!Press(j) /\ ~Dialog!Land(j) /\ ~Dialog!Fail(j) /\ ~Dialog!Dispatch(j)
  BY <1>2 DEF Dialog!Press, Dialog!Land, Dialog!Fail, Dialog!Dispatch, Dialog!cardVars
<1>9. ~Dialog!Revalidate /\ ~Dialog!ReadEntry /\ ~Dialog!ChangeElsewhere /\ ~Dialog!AgentApplies
  BY <1>2 DEF Dialog!Revalidate, Dialog!ReadEntry, Dialog!ChangeElsewhere, Dialog!AgentApplies, Dialog!cardVars
<1>10. ~UNCHANGED dialogVars
  BY <1>2 DEF dialogVars
<1>11. CASE Dialog!GroupsAnswered
  <2>1. groups /\ ~groups'
    BY <1>11 DEF Dialog!GroupsAnswered
  <2> QED BY <2>1
<1> QED BY <1>4, <1>5, <1>6, <1>7, <1>8, <1>9, <1>10, <1>11 DEF Dialog!Next

-----------------------------------------------------------------------------
(* The five together *)

\* What does not go on rests in a first state, of which its invariant holds too.
AdminIInv ==
  /\ scene \in {"session", "dialog", "table", "note", "rules"}
  /\ SessionIInv /\ Dialog!DialogIInv /\ List!TableIInv /\ Notes!NoteIInv /\ Rules!RulesIInv

\* The five start in states of their invariants.
LEMMA AdminInitial == AdminInit => AdminIInv
BY AdminAssumption, SessionInit, DialogInit, TableInit, NoteInit, RulesInit DEF AdminInit, AdminIInv

\* A step of one is a step or a stutter of each.
LEMMA AdminParts ==
  ASSUME [AdminNext]_adminVars
  PROVE  /\ [Next]_vars /\ [Dialog!Next]_dialogVars /\ [List!Next]_tableVars
         /\ [Notes!Next]_noteVars /\ [Rules!Next]_rulesVars
         /\ UNCHANGED scene
BY DEF AdminNext, adminVars

\* A step of one of them keeps its invariant and leaves the others alone.
LEMMA AdminStep == AdminIInv /\ [AdminNext]_adminVars => AdminIInv'
<1> SUFFICES ASSUME AdminIInv, [AdminNext]_adminVars PROVE AdminIInv'
  OBVIOUS
<1>1. SessionIInv'
  BY AdminAssumption, AdminParts, SessionStep DEF AdminIInv
<1>2. Dialog!DialogIInv'
  BY AdminAssumption, AdminParts, DialogStep DEF AdminIInv
<1>3. List!TableIInv'
  BY AdminAssumption, AdminParts, TableStep DEF AdminIInv
<1>4. Notes!NoteIInv'
  BY AdminParts, NoteStep DEF AdminIInv
<1>5. Rules!RulesIInv'
  BY AdminAssumption, AdminParts, RulesStep DEF AdminIInv
<1> QED BY <1>1, <1>2, <1>3, <1>4, <1>5, AdminParts DEF AdminIInv

\* All five invariants hold, whichever of the five goes on.
LEMMA AdminInvariant == AdminSpec => []AdminIInv
BY AdminInitial, AdminStep, PTL DEF AdminSpec

\* The variables of the pages have their types, and every page keeps the invariant its
\* properties rest on, for any rows, rules, submissions and changes elsewhere.
THEOREM PagesAreTyped == AdminSpec => []AdminTypeOK
<1>1. AdminIInv => AdminTypeOK
  BY DEF AdminIInv, AdminTypeOK
<1> QED BY <1>1, AdminInvariant, PTL

\* The schemas and codecs of the forms: a form accepts what it stored when it is loaded
\* into it again, and its inputs show what it sends, unless a reset went past an input
\* with a state of its own.  The editors of a note and of rules show one value twice,
\* but for the exceptions their agreements name.
THEOREM EditorsKeepTheirs == AdminSpec => []EditorsKeep
<1>1. AdminIInv => EditorsKeep
  BY DEF AdminIInv, EditorsKeep, Dialog!DialogIInv, Notes!NoteIInv, Rules!RulesIInv
<1> QED BY <1>1, AdminInvariant, PTL

\* The confirmations and menus of the lists, whatever comes and goes while one is open:
\* what is asked is about rows that are there, and the links lead to every page.
THEOREM DialogsAreAboutRows == AdminSpec => []DialogsFollowRows
<1>1. AdminIInv => DialogsFollowRows
  BY AdminAssumption, TableFollowsRows DEF AdminIInv, DialogsFollowRows
<1> QED BY <1>1, AdminInvariant, PTL

\* onSubmit and the effects on a render: an untouched form overwrites nothing that the
\* page had been given, and what was entered is lost only to its user, to news, to the
\* groups shown beside, to the end of its own submission or to late values.
THEOREM EditsStay == AdminSpec => EditsAreKept
<1>1. AdminIInv /\ [AdminNext]_adminVars =>
        [ /\ \A j \in Job : Dialog!Landing(j) /\ ~Dialog!Header => Dialog!Overwrites(job[j])
          /\ Dialog!AgentApplies => Dialog!Overwrites(Head(applying)) ]_Dialog!vars
  BY AdminParts, UntouchedStep DEF AdminIInv
<1>2. AdminIInv /\ [AdminNext]_adminVars =>
        [ Dialog!Lost =>
            \/ Dialog!CloseDialog \/ \E v \in Dialog!Value : Dialog!Edit(v)
            \/ page' # page \/ page_error' # page_error \/ (page_error /\ page_error')
            \/ groups /\ ~groups'
            \/ \E j \in Job : job[j].mounted /\ job[j].at # "idle" /\ job'[j].at # job[j].at
            \/ Dialog!Ask /\ request # "no" /\ request' = "no" ]_Dialog!vars
  BY AdminParts, DraftsStep DEF AdminIInv
<1> QED BY <1>1, <1>2, AdminInvariant, PTL
       DEF AdminSpec, EditsAreKept, Dialog!EditsAreKept, Dialog!UntouchedKeeps, Dialog!DraftsGoWithNews

\* The batches of a list: one hits what was ticked, as long as no rows turned under the
\* ticks, and when it is through and the list was fetched again its rows are gone.
THEOREM BatchesHitTheirRows == AdminSpec => BatchesHit
<1>1. AdminIInv /\ [AdminNext]_adminVars =>
        [ op.at = "idle" /\ op'.at = "sent" /\ ~op'.row /\ ~turned => op'.ids \subseteq ticked ]_List!vars
  BY AdminAssumption, AdminParts, BatchesStep DEF AdminIInv
<1>2. AdminIInv /\ [AdminNext]_adminVars =>
        [ op.at = "mutating" /\ op'.at = "idle" /\ op.done /\ ~failing' =>
            op.ids \intersect List!Range(rows') = {} ]_List!vars
  BY AdminAssumption, AdminParts, BatchesStep DEF AdminIInv
<1> QED BY <1>1, <1>2, AdminInvariant, PTL
       DEF AdminSpec, BatchesHit, List!BatchesHit, List!BatchIsWhatWasTicked, List!TakenOutLeaves

\* The two editors of the public note and the two of the rules: what is stored is what
\* was last entered, unless the note had parts the inputs do not show, and a dialog that
\* creates does not send the rules of the last entry again, unless the list of the last
\* entry is still awaited.
THEOREM StoredAsMeant == AdminSpec => StoredIsMeant
<1>1. AdminIInv /\ [AdminNext]_adminVars => [ dialog /\ Notes!Submit => note' = meant \/ lossy ]_Notes!vars
  BY NoteSent DEF AdminIInv
<1>2. AdminIInv /\ [AdminNext]_adminVars =>
        [ shows /\ Rules!SubmitRules /\ creates /\ awaited = 0 => touched \/ rules = <<>> ]_Rules!vars
  BY RulesSent DEF AdminIInv
<1> QED BY <1>1, <1>2, AdminInvariant, PTL
       DEF AdminSpec, StoredIsMeant, Notes!StoredIsMeant, Rules!LastRowsWait
=============================================================================
