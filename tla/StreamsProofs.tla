---------------------------- MODULE StreamsProofs -----------------------------
(***************************************************************************)
(* Proofs about what MCStreams composes: IoStream for any number of        *)
(* streams and any buffer, and what runs over a stream, the file manager   *)
(* and the terminal, for any number of requests, sizes, keys and resizes.  *)
(***************************************************************************)
EXTENDS MCStreams, SequenceTheorems, WellFoundedInduction, TLAPS

-----------------------------------------------------------------------------
(* IoStream *)

\* At start no handler waits and no stream is bridged.
LEMMA StreamInit == StreamAssumption /\ Init => StreamIInv
  BY DEF StreamAssumption, Init, StreamIInv, TypeOK, BridgedAreAnswered, AnswersHold,
     AnsweredStreamsWork, FailedCreatorsLeaveNothing, Bridging, Kind, Creator, Agent, Rx, Bridge

\* No channel holds more than its buffer, whoever fills it.
LEMMA StreamTypeStep ==
  ASSUME StreamAssumption, TypeOK, [Next]_vars
  PROVE  TypeOK'
<1> USE DEF StreamAssumption, TypeOK, rxVars, dataVars, Kind, Creator, Agent, Rx, Bridge
<1>1. ASSUME NEW i \in Stream, CreateStream(i) PROVE TypeOK'
  BY <1>1 DEF CreateStream, Step
<1>2. ASSUME NEW i \in Stream, DispatchSent(i) PROVE TypeOK'
  BY <1>2 DEF DispatchSent, Step
<1>3. ASSUME NEW i \in Stream, DispatchFailed(i) PROVE TypeOK'
  BY <1>3 DEF DispatchFailed, Step
<1>4. ASSUME NEW i \in Stream, CheckReceiver(i) PROVE TypeOK'
  BY <1>4 DEF CheckReceiver, Step
<1>5. ASSUME NEW i \in Stream, AwaitNotify(i) PROVE TypeOK'
  BY <1>5 DEF AwaitNotify, Step
<1>6. ASSUME NEW i \in Stream, Answer(i) PROVE TypeOK'
  BY <1>6 DEF Answer, Step
<1>7. ASSUME NEW i \in Stream, AnswerAbsent(i) PROVE TypeOK'
  BY <1>7 DEF AnswerAbsent, Step
<1>8. ASSUME NEW i \in Stream, CancelCreator(i) PROVE TypeOK'
  BY <1>8 DEF CancelCreator
<1>9. ASSUME NEW i \in Stream, FindSession(i) PROVE TypeOK'
  BY <1>9 DEF FindSession
<1>10. ASSUME NEW i \in Stream, Attach(i) PROVE TypeOK'
  BY <1>10 DEF Attach
<1>11. ASSUME NEW i \in Stream, AgentEnds(i) PROVE TypeOK'
  BY <1>11 DEF AgentEnds
<1>12. ASSUME NEW i \in Stream, DropOutbound(i) PROVE TypeOK'
  BY <1>12 DEF DropOutbound
<1>13. ASSUME NEW i \in Stream, EndInbound(i) PROVE TypeOK'
  BY <1>13 DEF EndInbound
<1>14. ASSUME NEW i \in Stream, AgentOutput(i) PROVE TypeOK'
  BY <1>14 DEF AgentOutput
<1>15. ASSUME NEW i \in Stream, DeliverToAgent(i) PROVE TypeOK'
  BY <1>15 DEF DeliverToAgent
<1>16. ASSUME NEW i \in Stream, EndOutbound(i) PROVE TypeOK'
  BY <1>16 DEF EndOutbound
<1>17. ASSUME NEW i \in Stream, StartBridge(i) PROVE TypeOK'
  BY <1>17 DEF StartBridge
<1>18. ASSUME NEW i \in Stream, UserInput(i) PROVE TypeOK'
  BY <1>18 DEF UserInput
<1>19. ASSUME NEW i \in Stream, SendToAgent(i) PROVE TypeOK'
  BY <1>19 DEF SendToAgent
<1>20. ASSUME NEW i \in Stream, ForwardToUser(i) PROVE TypeOK'
  BY <1>20 DEF ForwardToUser
<1>21. ASSUME NEW i \in Stream, ClientInput(i) PROVE TypeOK'
  BY <1>21 DEF ClientInput
<1>22. ASSUME NEW i \in Stream, UserLeaves(i) PROVE TypeOK'
  BY <1>22 DEF UserLeaves
<1>23. ASSUME NEW i \in Stream, EndBridge(i) PROVE TypeOK'
  BY <1>23 DEF EndBridge, LeaveBridge
<1>24. ASSUME NEW i \in Stream, DropHandler(i) PROVE TypeOK'
  BY <1>24 DEF DropHandler, LeaveBridge, Bridging
<1>25. ASSUME NEW i \in Stream, CompleteBody(i) PROVE TypeOK'
  BY <1>25 DEF CompleteBody, LeaveBridge
<1>26. CASE UNCHANGED vars
  BY <1>26 DEF vars
<1> QED
  BY <1>1, <1>2, <1>3, <1>4, <1>5, <1>6, <1>7, <1>8, <1>9, <1>10, <1>11, <1>12,
     <1>13, <1>14, <1>15, <1>16, <1>17, <1>18, <1>19, <1>20, <1>21, <1>22, <1>23,
     <1>24, <1>25, <1>26 DEF Next

\* An answer stays true: halves are not given back, and entries are removed only by
\* those they belong to.
LEMMA StreamAnswersStep ==
  ASSUME StreamAssumption, StreamIInv, [Next]_vars
  PROVE  BridgedAreAnswered' /\ AnswersHold'
<1> USE DEF StreamIInv, TypeOK, BridgedAreAnswered, AnswersHold, AnsweredStreamsWork,
           FailedCreatorsLeaveNothing, Bridging, rxVars, dataVars, Kind, Creator, Agent, Rx, Bridge
<1>1. ASSUME NEW i \in Stream, CreateStream(i) PROVE BridgedAreAnswered' /\ AnswersHold'
  BY <1>1 DEF CreateStream, Step
<1>2. ASSUME NEW i \in Stream, DispatchSent(i) PROVE BridgedAreAnswered' /\ AnswersHold'
  BY <1>2 DEF DispatchSent, Step
<1>3. ASSUME NEW i \in Stream, DispatchFailed(i) PROVE BridgedAreAnswered' /\ AnswersHold'
  BY <1>3 DEF DispatchFailed, Step
<1>4. ASSUME NEW i \in Stream, CheckReceiver(i) PROVE BridgedAreAnswered' /\ AnswersHold'
  BY <1>4 DEF CheckReceiver, Step
<1>5. ASSUME NEW i \in Stream, AwaitNotify(i) PROVE BridgedAreAnswered' /\ AnswersHold'
  BY <1>5 DEF AwaitNotify, Step
<1>6. ASSUME NEW i \in Stream, Answer(i) PROVE BridgedAreAnswered' /\ AnswersHold'
  BY <1>6 DEF Answer, Step
<1>7. ASSUME NEW i \in Stream, AnswerAbsent(i) PROVE BridgedAreAnswered' /\ AnswersHold'
  BY <1>7 DEF AnswerAbsent, Step
<1>8. ASSUME NEW i \in Stream, CancelCreator(i) PROVE BridgedAreAnswered' /\ AnswersHold'
  BY <1>8 DEF CancelCreator, Pending
<1>9. ASSUME NEW i \in Stream, FindSession(i) PROVE BridgedAreAnswered' /\ AnswersHold'
  BY <1>9 DEF FindSession
<1>10. ASSUME NEW i \in Stream, Attach(i) PROVE BridgedAreAnswered' /\ AnswersHold'
  BY <1>10 DEF Attach
<1>11. ASSUME NEW i \in Stream, AgentEnds(i) PROVE BridgedAreAnswered' /\ AnswersHold'
  BY <1>11 DEF AgentEnds
<1>12. ASSUME NEW i \in Stream, DropOutbound(i) PROVE BridgedAreAnswered' /\ AnswersHold'
  BY <1>12 DEF DropOutbound
<1>13. ASSUME NEW i \in Stream, EndInbound(i) PROVE BridgedAreAnswered' /\ AnswersHold'
  BY <1>13 DEF EndInbound
<1>14. ASSUME NEW i \in Stream, AgentOutput(i) PROVE BridgedAreAnswered' /\ AnswersHold'
  BY <1>14 DEF AgentOutput
<1>15. ASSUME NEW i \in Stream, DeliverToAgent(i) PROVE BridgedAreAnswered' /\ AnswersHold'
  BY <1>15 DEF DeliverToAgent
<1>16. ASSUME NEW i \in Stream, EndOutbound(i) PROVE BridgedAreAnswered' /\ AnswersHold'
  BY <1>16 DEF EndOutbound
<1>17. ASSUME NEW i \in Stream, StartBridge(i) PROVE BridgedAreAnswered' /\ AnswersHold'
  BY <1>17 DEF StartBridge
<1>18. ASSUME NEW i \in Stream, UserInput(i) PROVE BridgedAreAnswered' /\ AnswersHold'
  BY <1>18 DEF UserInput
<1>19. ASSUME NEW i \in Stream, SendToAgent(i) PROVE BridgedAreAnswered' /\ AnswersHold'
  BY <1>19 DEF SendToAgent
<1>20. ASSUME NEW i \in Stream, ForwardToUser(i) PROVE BridgedAreAnswered' /\ AnswersHold'
  BY <1>20 DEF ForwardToUser
<1>21. ASSUME NEW i \in Stream, ClientInput(i) PROVE BridgedAreAnswered' /\ AnswersHold'
  BY <1>21 DEF ClientInput
<1>22. ASSUME NEW i \in Stream, UserLeaves(i) PROVE BridgedAreAnswered' /\ AnswersHold'
  BY <1>22 DEF UserLeaves
<1>23. ASSUME NEW i \in Stream, EndBridge(i) PROVE BridgedAreAnswered' /\ AnswersHold'
  BY <1>23 DEF EndBridge, LeaveBridge, BridgeOver
<1>24. ASSUME NEW i \in Stream, DropHandler(i) PROVE BridgedAreAnswered' /\ AnswersHold'
  BY <1>24 DEF DropHandler, LeaveBridge, Bridging
<1>25. ASSUME NEW i \in Stream, CompleteBody(i) PROVE BridgedAreAnswered' /\ AnswersHold'
  BY <1>25 DEF CompleteBody, LeaveBridge
<1>26. CASE UNCHANGED vars
  BY <1>26 DEF vars
<1> QED
  BY <1>1, <1>2, <1>3, <1>4, <1>5, <1>6, <1>7, <1>8, <1>9, <1>10, <1>11, <1>12,
     <1>13, <1>14, <1>15, <1>16, <1>17, <1>18, <1>19, <1>20, <1>21, <1>22, <1>23,
     <1>24, <1>25, <1>26 DEF Next

\* Every step of a handler, of the agent or of a bridge keeps the stream invariant.
LEMMA StreamStep == StreamAssumption /\ StreamIInv /\ [Next]_vars => StreamIInv'
  BY StreamTypeStep, StreamAnswersStep DEF StreamIInv
(* TerminalPage *)

\* A page that is just mounted has sent and queued nothing.
LEMMA TerminalInit == Terminal!TerminalAssumption /\ Terminal!Init => Terminal!TerminalIInv
<1> SUFFICES ASSUME Terminal!TerminalAssumption, Terminal!Init PROVE Terminal!TerminalIInv
  OBVIOUS
<1> USE DEF Terminal!TerminalAssumption, Terminal!Init
<1>1. Terminal!TypeOK
  <2>1. pending \in Seq(Terminal!Messages) /\ sent \in Seq(Terminal!Messages)
    OBVIOUS
  <2>2. shell \in [keys : Seq([kind : {"key"}, n : Nat]), size : Terminal!Sizes \union {0}]
    OBVIOUS
  <2>3. session \in BOOLEAN /\ sleeping \in BOOLEAN /\ ended \in BOOLEAN
    BY Zenon
  <2>4. window \in Terminal!Sizes /\ typed \in 0..MaxKeys /\ resizes \in 0..MaxResizes
    OBVIOUS
  <2> QED BY <2>1, <2>2, <2>3, <2>4 DEF Terminal!TypeOK
<1>2. Terminal!SocketCarries
  BY DEF Terminal!SocketCarries
<1>3. Terminal!KeysArrive
  BY DEF Terminal!KeysArrive
<1> QED BY <1>1, <1>2, <1>3 DEF Terminal!TerminalIInv

\* What the page sends goes to the end of the line.
LEMMA LineGrows ==
  ASSUME Terminal!TypeOK, Terminal!SocketCarries, NEW m \in Terminal!Messages, Terminal!Send(m)
  PROVE  /\ Terminal!Line \in Seq(Terminal!Messages)
         /\ Terminal!Line' = Append(Terminal!Line, m)
         /\ sent' \in Seq(Terminal!Messages) /\ pending' \in Seq(Terminal!Messages)
         /\ socket' = socket =>
              (socket # "open" => sent' = <<>>) /\ (socket = "open" => pending' = <<>>)
<1> USE DEF Terminal!TypeOK
<1>1. CASE socket = "open"
  <2>1. pending = <<>> /\ pending' = <<>> /\ sent' = Append(sent, m)
    BY <1>1 DEF Terminal!SocketCarries, Terminal!Send
  <2>2. sent \o <<>> = sent /\ sent' \o <<>> = sent'
    BY <2>1
  <2> QED BY <1>1, <2>1, <2>2 DEF Terminal!Line
<1>2. CASE socket # "open"
  <2>1. sent = <<>> /\ sent' = <<>> /\ pending' = Append(pending, m)
    BY <1>2 DEF Terminal!SocketCarries, Terminal!Send
  <2>2. <<>> \o pending = pending /\ <<>> \o pending' = pending'
    BY <2>1
  <2> QED BY <1>2, <2>1, <2>2 DEF Terminal!Line
<1> QED BY <1>1, <1>2

\* Sequences of keys as they grow at one end and shrink at the other.
LEMMA KeysStayOnAppend ==
  ASSUME NEW s \in Seq(Terminal!Messages), NEW m \in Terminal!Messages,
         NEW lo \in Nat, NEW hi \in Nat, NEW top \in Nat, lo <= hi, Terminal!KeysFollow(s, lo, hi),
         m.kind = "key" => top = hi + 1 /\ m = Terminal!Key(top),
         m.kind # "key" => top = hi
  PROVE  Terminal!KeysFollow(Append(s, m), lo, top)
<1> USE DEF Terminal!KeysFollow
<1> DEFINE t == Append(s, m)
<1>1. /\ Len(s) \in Nat /\ Len(t) = Len(s) + 1 /\ t[Len(s) + 1] = m
      /\ \A i \in 1..Len(s) : t[i] = s[i]
  OBVIOUS
<1> HIDE DEF t
<1>2. ASSUME NEW n \in lo + 1..top PROVE \E i \in 1..Len(t) : t[i] = Terminal!Key(n)
  <2>1. CASE n \in lo + 1..hi
    <3>1. PICK i \in 1..Len(s) : s[i] = Terminal!Key(n)
      BY <2>1
    <3>2. i \in 1..Len(t) /\ t[i] = s[i]
      BY <1>1
    <3> QED BY <3>1, <3>2
  <2>2. CASE n \notin lo + 1..hi
    <3>1. m.kind = "key" /\ n = top
      BY <2>2
    <3>2. Len(s) + 1 \in 1..Len(t)
      BY <1>1
    <3> QED BY <1>1, <3>1, <3>2
  <2> QED BY <2>1, <2>2
<1>3. ASSUME NEW i \in 1..Len(t), t[i].kind = "key" PROVE t[i].n \in lo + 1..top
  <2>1. CASE i = Len(s) + 1
    <3>1. t[i] = Terminal!Key(top) /\ top = hi + 1
      BY <1>1, <1>3, <2>1
    <3> QED BY <3>1 DEF Terminal!Key
  <2>2. CASE i # Len(s) + 1
    <3>1. i \in 1..Len(s)
      BY <1>1, <2>2
    <3>2. t[i].n \in lo + 1..hi
      BY <1>1, <1>3, <3>1
    <3> QED BY <3>2
  <2> QED BY <2>1, <2>2
<1>4. ASSUME NEW i \in 1..Len(t), NEW j \in 1..Len(t), i < j, t[i].kind = "key", t[j].kind = "key"
      PROVE  t[i].n < t[j].n
  <2>1. i \in 1..Len(s)
    BY <1>1, <1>4
  <2>2. t[i].n \in lo + 1..hi
    BY <1>1, <1>4, <2>1
  <2>3. CASE j = Len(s) + 1
    <3>1. t[j] = Terminal!Key(top) /\ top = hi + 1
      BY <1>1, <1>4, <2>3
    <3>2. t[j].n = hi + 1
      BY <3>1 DEF Terminal!Key
    <3> QED BY <2>2, <3>2
  <2>4. CASE j # Len(s) + 1
    <3>1. j \in 1..Len(s)
      BY <1>1, <2>4
    <3> QED BY <1>1, <1>4, <2>1, <3>1
  <2> QED BY <2>3, <2>4
<1> QED BY <1>2, <1>3, <1>4 DEF t

\* Every step of the terminal page keeps the types.
LEMMA TerminalTypeStep ==
  ASSUME Terminal!TerminalAssumption, Terminal!TypeOK, Terminal!SocketCarries, [Terminal!Next]_terminalVars
  PROVE  Terminal!TypeOK'
<1> USE DEF Terminal!TerminalAssumption, Terminal!TypeOK, Terminal!pageVars
<1>1. CASE Terminal!Answered
  BY <1>1 DEF Terminal!Answered
<1>2. CASE Terminal!Type
  <2>1. typed' \in 0..MaxKeys /\ Terminal!Key(typed') \in Terminal!Messages
    BY <1>2 DEF Terminal!Type, Terminal!Key, Terminal!Messages
  <2>2. sent' \in Seq(Terminal!Messages) /\ pending' \in Seq(Terminal!Messages)
    BY <1>2, <2>1, LineGrows DEF Terminal!Type
  <2> QED BY <1>2, <2>1, <2>2 DEF Terminal!Type
<1>3. CASE Terminal!Slept
  <2>1. Terminal!Size(window) \in Terminal!Messages
    BY DEF Terminal!Size, Terminal!Messages
  <2>2. sent' \in Seq(Terminal!Messages) /\ pending' \in Seq(Terminal!Messages)
    BY <1>3, <2>1, LineGrows DEF Terminal!Slept
  <2> QED BY <1>3, <2>1, <2>2 DEF Terminal!Slept
<1>4. CASE Terminal!Opened
  BY <1>4 DEF Terminal!Opened
<1>5. CASE Terminal!Closed
  BY <1>5 DEF Terminal!Closed
<1>6. CASE Terminal!Dismiss
  BY <1>6 DEF Terminal!Dismiss
<1>7. CASE Terminal!AgentTakes
  <2>1. sent' \in Seq(Terminal!Messages) /\ Head(sent) \in Terminal!Messages
    BY <1>7 DEF Terminal!AgentTakes
  <2>2. CASE Head(sent).kind = "size"
    <3>1. Head(sent).n \in Terminal!Sizes
      BY <2>1, <2>2 DEF Terminal!Messages
    <3> QED BY <1>7, <2>1, <2>2, <3>1 DEF Terminal!AgentTakes
  <2>3. CASE Head(sent).kind # "size"
    <3>1. Head(sent) \in [kind : {"key"}, n : Nat]
      BY <2>1, <2>3 DEF Terminal!Messages
    <3>2. shell' = [shell EXCEPT !.keys = Append(@, Head(sent))]
      BY <1>7, <2>3 DEF Terminal!AgentTakes
    <3> DEFINE K == [kind : {"key"}, n : Nat]
    <3>3. Append(shell.keys, Head(sent)) \in Seq(K)
      <4>1. shell.keys \in Seq(K) /\ Head(sent) \in K
        BY <3>1
      <4> HIDE DEF K
      <4> QED BY <4>1
    <3>4. shell' \in [keys : Seq([kind : {"key"}, n : Nat]), size : Terminal!Sizes \union {0}]
      BY <3>2, <3>3
    <3> QED BY <1>7, <2>1, <3>4 DEF Terminal!AgentTakes
  <2> QED BY <2>2, <2>3
<1>8. ASSUME NEW n \in Terminal!Sizes, Terminal!ResizeWindow(n) PROVE Terminal!TypeOK'
  BY <1>8 DEF Terminal!ResizeWindow
<1>9. CASE UNCHANGED terminalVars
  BY <1>9 DEF terminalVars
<1> QED BY <1>1, <1>2, <1>3, <1>4, <1>5, <1>6, <1>7, <1>8, <1>9 DEF Terminal!Next

\* What is sent is sent on an open socket, what is queued waits for one.
LEMMA TerminalSocketStep ==
  ASSUME Terminal!TypeOK, Terminal!SocketCarries, [Terminal!Next]_terminalVars
  PROVE  Terminal!SocketCarries'
<1> USE DEF Terminal!SocketCarries, Terminal!pageVars
<1>1. CASE Terminal!Answered
  BY <1>1 DEF Terminal!Answered
<1>2. CASE Terminal!Type
  BY <1>2 DEF Terminal!Type, Terminal!Send
<1>3. CASE Terminal!Slept
  BY <1>3 DEF Terminal!Slept, Terminal!Send
<1>4. CASE Terminal!Opened
  BY <1>4 DEF Terminal!Opened
<1>5. CASE Terminal!Closed
  BY <1>5 DEF Terminal!Closed
<1>6. CASE Terminal!Dismiss
  BY <1>6 DEF Terminal!Dismiss
<1>7. CASE Terminal!AgentTakes
  BY <1>7 DEF Terminal!AgentTakes
<1>8. ASSUME NEW n \in Terminal!Sizes, Terminal!ResizeWindow(n) PROVE Terminal!SocketCarries'
  BY <1>8 DEF Terminal!ResizeWindow
<1>9. CASE UNCHANGED terminalVars
  BY <1>9 DEF terminalVars
<1> QED BY <1>1, <1>2, <1>3, <1>4, <1>5, <1>6, <1>7, <1>8, <1>9 DEF Terminal!Next

\* The first of the line leaves it: a key is the next one.
LEMMA KeysStayOnTail ==
  ASSUME NEW s \in Seq(Terminal!Messages), s # <<>>, NEW lo \in Nat, NEW hi \in Nat, lo <= hi,
         Terminal!KeysFollow(s, lo, hi),
         NEW new, new = IF Head(s).kind = "key" THEN lo + 1 ELSE lo
  PROVE  /\ Head(s) \in Terminal!Messages
         /\ Head(s).kind = "key" => Head(s) = Terminal!Key(new) /\ lo < hi
         /\ Terminal!KeysFollow(Tail(s), new, hi)
<1> USE DEF Terminal!KeysFollow
<1> DEFINE t == Tail(s)
           m == Head(s)
<1>1. /\ Len(s) \in Nat /\ Len(s) > 0 /\ m = s[1] /\ Len(t) = Len(s) - 1
      /\ \A i \in 1..Len(t) : t[i] = s[i + 1]
      /\ \A i \in 1..Len(s) : s[i] \in Terminal!Messages
  OBVIOUS
<1>0. new = IF m.kind = "key" THEN lo + 1 ELSE lo
  OBVIOUS
<1> HIDE DEF t, m
<1>2. m \in Terminal!Messages
  <2>1. 1 \in 1..Len(s)
    BY <1>1
  <2> QED BY <1>1, <2>1
<1>3. ASSUME m.kind = "key" PROVE m = Terminal!Key(new) /\ lo < hi
  <2>1. m.n \in lo + 1..hi /\ 1 \in 1..Len(s)
    BY <1>1, <1>3
  <2>2. lo + 1 \in lo + 1..hi /\ lo < hi
    BY <2>1
  <2>3. PICK i \in 1..Len(s) : s[i] = Terminal!Key(lo + 1)
    BY <2>2
  <2>4. i = 1
    <3> SUFFICES ASSUME i # 1 PROVE FALSE
      OBVIOUS
    <3>1. s[i].kind = "key" /\ s[i].n = lo + 1
      BY <2>3 DEF Terminal!Key
    <3>2. 1 < i
      BY <1>1
    <3>3. s[1].n < s[i].n
      BY <1>1, <1>3, <2>1, <3>1, <3>2
    <3> QED BY <1>1, <2>1, <3>1, <3>3
  <2> QED BY <1>1, <1>3, <2>2, <2>3, <2>4
<1>4. ASSUME NEW n \in new + 1..hi PROVE \E i \in 1..Len(t) : t[i] = Terminal!Key(n)
  <2>1. n \in lo + 1..hi /\ new \in Nat
    BY <1>0
  <2>2. PICK i \in 1..Len(s) : s[i] = Terminal!Key(n)
    BY <2>1
  <2>3. i # 1
    <3> SUFFICES ASSUME i = 1 PROVE FALSE
      OBVIOUS
    <3>1. m.kind = "key" /\ m.n = n
      BY <1>1, <2>2 DEF Terminal!Key
    <3>2. m.n = lo + 1 /\ new = lo + 1
      BY <1>3, <3>1 DEF Terminal!Key
    <3> QED BY <3>1, <3>2
  <2>4. i - 1 \in 1..Len(t) /\ (i - 1) + 1 = i
    BY <1>1, <2>3
  <2> QED BY <1>1, <2>2, <2>4
<1>5. ASSUME NEW i \in 1..Len(t), t[i].kind = "key" PROVE t[i].n \in new + 1..hi
  <2>1. i + 1 \in 1..Len(s) /\ 1 \in 1..Len(s) /\ 1 < i + 1 /\ t[i] = s[i + 1]
    BY <1>1
  <2>2. t[i].n \in lo + 1..hi
    BY <1>5, <2>1
  <2>3. CASE m.kind = "key"
    <3>1. m.n = lo + 1 /\ new = lo + 1
      BY <1>0, <1>3, <2>3 DEF Terminal!Key
    <3>2. s[1].n < s[i + 1].n
      BY <1>1, <1>5, <2>1, <2>3
    <3> QED BY <1>1, <2>1, <2>2, <3>1, <3>2
  <2>4. CASE m.kind # "key"
    BY <1>0, <2>2, <2>4
  <2> QED BY <2>3, <2>4
<1>6. ASSUME NEW i \in 1..Len(t), NEW j \in 1..Len(t), i < j, t[i].kind = "key", t[j].kind = "key"
      PROVE  t[i].n < t[j].n
  <2>1. i + 1 \in 1..Len(s) /\ j + 1 \in 1..Len(s) /\ i + 1 < j + 1 /\ t[i] = s[i + 1] /\ t[j] = s[j + 1]
    BY <1>1, <1>6
  <2> QED BY <1>6, <2>1
<1> QED BY <1>2, <1>3, <1>4, <1>5, <1>6 DEF t, m

\* The keys stay in the order in which they were typed, all along the line.
LEMMA TerminalKeysStep ==
  ASSUME Terminal!TypeOK, Terminal!SocketCarries, Terminal!KeysArrive, [Terminal!Next]_terminalVars
  PROVE  Terminal!KeysArrive'
<1> USE DEF Terminal!pageVars
<1> DEFINE got == Len(shell.keys)
<1>0. got \in Nat /\ typed \in Nat /\ got <= typed /\ Terminal!Line \in Seq(Terminal!Messages)
  BY DEF Terminal!TypeOK, Terminal!KeysArrive, Terminal!Line
<1>1. CASE Terminal!Answered
  <2>1. socket = "none" /\ sent = <<>> /\ pending = <<>> /\ typed = 0 /\ Terminal!Line' = <<>> \o <<>>
    BY <1>1 DEF Terminal!Answered, Terminal!SocketCarries, Terminal!Line
  <2>2. Terminal!Line' = <<>> /\ Len(<<>>) = 0
    BY <2>1
  <2>3. Terminal!KeysFollow(<<>>, 0, 0)
    BY DEF Terminal!KeysFollow
  <2>4. got = 0 /\ shell' = shell /\ typed' = 0
    BY <1>0, <1>1, <2>1 DEF Terminal!Answered
  <2> QED BY <2>2, <2>3, <2>4 DEF Terminal!KeysArrive
<1>2. CASE Terminal!Type
  <2>1. typed' = typed + 1 /\ UNCHANGED <<socket, shell>>
    BY <1>2 DEF Terminal!Type
  <2>2. CASE socket \in {"connecting", "open"}
    <3> DEFINE m == Terminal!Key(typed')
    <3>1. m \in Terminal!Messages /\ m.kind = "key"
      BY <1>0, <2>1 DEF Terminal!Key, Terminal!Messages
    <3>2. Terminal!Send(m)
      BY <1>2 DEF Terminal!Type
    <3>3. Terminal!Line' = Append(Terminal!Line, m)
      BY <3>1, <3>2, LineGrows
    <3> HIDE DEF m
    <3>4. m = Terminal!Key(typed')
      BY DEF m
    <3>5. Terminal!KeysFollow(Terminal!Line, got, typed)
      BY <2>2 DEF Terminal!KeysArrive
    <3>6. Terminal!KeysFollow(Append(Terminal!Line, m), got, typed')
      BY <1>0, <2>1, <3>1, <3>4, <3>5, KeysStayOnAppend
    <3> QED BY <1>0, <2>1, <2>2, <3>3, <3>6 DEF Terminal!KeysArrive
  <2>3. CASE socket \notin {"connecting", "open"}
    BY <1>0, <2>1, <2>3 DEF Terminal!KeysArrive
  <2> QED BY <2>2, <2>3
<1>3. CASE Terminal!Slept
  <2>1. UNCHANGED <<socket, shell, typed>>
    BY <1>3 DEF Terminal!Slept
  <2>2. CASE socket \in {"connecting", "open"}
    <3> DEFINE m == Terminal!Size(window)
    <3>1. m \in Terminal!Messages /\ m.kind # "key"
      BY DEF Terminal!Size, Terminal!Messages, Terminal!TypeOK
    <3>2. Terminal!Send(m)
      BY <1>3 DEF Terminal!Slept
    <3>3. Terminal!Line' = Append(Terminal!Line, m)
      BY <3>1, <3>2, LineGrows
    <3> HIDE DEF m
    <3>5. Terminal!KeysFollow(Terminal!Line, got, typed)
      BY <2>2 DEF Terminal!KeysArrive
    <3>6. Terminal!KeysFollow(Append(Terminal!Line, m), got, typed)
      BY <1>0, <3>1, <3>5, KeysStayOnAppend
    <3> QED BY <1>0, <2>1, <2>2, <3>3, <3>6 DEF Terminal!KeysArrive
  <2>3. CASE socket \notin {"connecting", "open"}
    BY <1>0, <2>1, <2>3 DEF Terminal!KeysArrive
  <2> QED BY <2>2, <2>3
<1>4. CASE Terminal!Opened
  <2>1. socket = "connecting" /\ socket' = "open" /\ UNCHANGED <<shell, typed>>
    BY <1>4 DEF Terminal!Opened
  <2>2. sent' = Terminal!Line /\ Terminal!Line' = Terminal!Line \o <<>>
    BY <1>4 DEF Terminal!Opened, Terminal!Line
  <2>3. Terminal!Line' = Terminal!Line
    BY <1>0, <2>2
  <2> QED BY <2>1, <2>3 DEF Terminal!KeysArrive
<1>5. CASE Terminal!Closed
  BY <1>5 DEF Terminal!Closed, Terminal!KeysArrive
<1>6. CASE Terminal!Dismiss
  BY <1>6 DEF Terminal!Dismiss, Terminal!KeysArrive, Terminal!Line
<1>7. CASE Terminal!AgentTakes
  <2>1. sent # <<>> /\ sent' = Tail(sent) /\ UNCHANGED <<typed, socket, pending>>
    BY <1>7 DEF Terminal!AgentTakes
  <2>2. socket = "open" /\ pending = <<>>
    BY <2>1 DEF Terminal!SocketCarries
  <2>3. Terminal!Line = sent /\ Terminal!Line' = Tail(sent) /\ sent \in Seq(Terminal!Messages)
    <3>1. sent \in Seq(Terminal!Messages) /\ Tail(sent) \in Seq(Terminal!Messages)
      BY <2>1 DEF Terminal!TypeOK
    <3> QED BY <2>1, <2>2, <3>1 DEF Terminal!Line
  <2> DEFINE m == Head(sent)
             t == Tail(sent)
             new == IF m.kind = "key" THEN got + 1 ELSE got
  <2>4. /\ m \in Terminal!Messages
        /\ m.kind = "key" => m = Terminal!Key(new) /\ got < typed
        /\ Terminal!KeysFollow(t, new, typed)
    <3>1. Terminal!KeysFollow(sent, got, typed)
      BY <2>2, <2>3 DEF Terminal!KeysArrive
    <3> QED BY <1>0, <2>1, <2>3, <3>1, KeysStayOnTail
  <2>5. Len(shell'.keys) = new /\ new <= typed /\ \A i \in 1..new : shell'.keys[i] = Terminal!Key(i)
    <3>0. shell.keys \in Seq([kind : {"key"}, n : Nat]) /\ \A i \in 1..got : shell.keys[i] = Terminal!Key(i)
      BY DEF Terminal!TypeOK, Terminal!KeysArrive
    <3>1. CASE m.kind = "key"
      <4>1. shell' = [shell EXCEPT !.keys = Append(@, m)] /\ m = Terminal!Key(got + 1)
        BY <1>7, <2>4, <3>1 DEF Terminal!AgentTakes
      <4>2. shell'.keys = Append(shell.keys, m)
        BY <4>1 DEF Terminal!TypeOK
      <4>3. /\ Len(Append(shell.keys, m)) = got + 1 /\ Append(shell.keys, m)[got + 1] = m
            /\ \A i \in 1..got : Append(shell.keys, m)[i] = shell.keys[i]
        BY <3>0
      <4>4. new = got + 1 /\ new <= typed
        BY <1>0, <2>4, <3>1
      <4>5. ASSUME NEW i \in 1..new PROVE shell'.keys[i] = Terminal!Key(i)
        <5>1. i \in 1..got \/ i = got + 1
          BY <1>0, <4>4
        <5> QED BY <3>0, <4>1, <4>2, <4>3, <5>1
      <4> QED BY <4>2, <4>3, <4>4, <4>5
    <3>2. CASE m.kind # "key"
      <4>1. m.kind = "size"
        BY <2>4, <3>2 DEF Terminal!Messages
      <4>2. shell'.keys = shell.keys
        BY <1>7, <4>1 DEF Terminal!AgentTakes, Terminal!TypeOK
      <4> QED BY <1>0, <3>0, <3>2, <4>2
    <3> QED BY <3>1, <3>2
  <2> HIDE DEF new, t, m
  <2>6. Terminal!Line' = t
    BY <2>3 DEF t
  <2> QED BY <2>1, <2>4, <2>5, <2>6 DEF Terminal!KeysArrive
<1>8. ASSUME NEW n \in Terminal!Sizes, Terminal!ResizeWindow(n) PROVE Terminal!KeysArrive'
  BY <1>8 DEF Terminal!ResizeWindow, Terminal!KeysArrive, Terminal!Line
<1>9. CASE UNCHANGED terminalVars
  BY <1>9 DEF terminalVars, Terminal!KeysArrive, Terminal!Line
<1> QED BY <1>1, <1>2, <1>3, <1>4, <1>5, <1>6, <1>7, <1>8, <1>9 DEF Terminal!Next

\* Every step of the terminal page keeps its invariant.
LEMMA TerminalStep ==
  Terminal!TerminalAssumption /\ Terminal!TerminalIInv /\ [Terminal!Next]_terminalVars
  => Terminal!TerminalIInv'
BY TerminalTypeStep, TerminalSocketStep, TerminalKeysStep DEF Terminal!TerminalIInv

-----------------------------------------------------------------------------
(* FileManager: the variables have their types *)

\* The parts of a line at its ends.
LEMMA LineAppend ==
  ASSUME NEW S, NEW s \in Seq(S), NEW m \in S
  PROVE  /\ Append(s, m) \in Seq(S) /\ Len(Append(s, m)) = Len(s) + 1 /\ Len(s) \in Nat
         /\ Append(s, m)[Len(s) + 1] = m
         /\ \A i \in 1..Len(s) : Append(s, m)[i] = s[i]
OBVIOUS

\* What fails is counted.
LEMMA UpsetTypes ==
  ASSUME Files!TypeOK, Files!FilesAssumption, Files!Upset \/ upsets' = upsets
  PROVE  upsets' \in 0..MaxUpsets
BY DEF Files!TypeOK, Files!FilesAssumption, Files!Upset

\* What the page and the agent build are messages.
LEMMA MessageTypes ==
  ASSUME Files!FilesAssumption
  PROVE  /\ \A p \in Files!Path : Files!List(p) \in Files!Messages
         /\ \A n \in 0..MaxSize : /\ Files!Part(n) \in Files!Messages
                                  /\ Files!Header(n) \in Files!Messages
                                  /\ Files!Parts(n) \in Seq(Files!Messages)
                                  /\ Files!Msg("download", "blank", n) \in Files!Messages
                                  /\ Files!Msg("upload", "blank", n) \in Files!Messages
         /\ Files!Done \in Files!Messages /\ Files!Error \in Files!Messages
<1> USE DEF Files!FilesAssumption, Files!Msg, Files!Messages, Files!Path
<1>1. ASSUME NEW n \in 0..MaxSize PROVE Files!Part(n) \in Files!Messages
  BY DEF Files!Part
<1>2. ASSUME NEW n \in 0..MaxSize PROVE Files!Parts(n) \in Seq(Files!Messages)
  <2>1. ASSUME NEW i \in 1..n PROVE Files!Part(i) \in Files!Messages
    <3>1. i \in 0..MaxSize
      OBVIOUS
    <3> QED BY <1>1, <3>1
  <2> HIDE DEF Files!Messages
  <2> QED BY <2>1 DEF Files!Parts
<1>3. ASSUME NEW p \in Files!Path PROVE Files!List(p) \in Files!Messages
  <2>1. 0 \in 0..MaxSize
    OBVIOUS
  <2> QED BY <2>1 DEF Files!List
<1>4. ASSUME NEW n \in 0..MaxSize
      PROVE  /\ Files!Header(n) \in Files!Messages
             /\ Files!Msg("download", "blank", n) \in Files!Messages
             /\ Files!Msg("upload", "blank", n) \in Files!Messages
  BY DEF Files!Header
<1>5. Files!Done \in Files!Messages /\ Files!Error \in Files!Messages
  BY DEF Files!Done, Files!Error
<1> QED BY <1>1, <1>2, <1>3, <1>4, <1>5

\* What is sent goes to the end of what is under way.
LEMMA SendTypes ==
  ASSUME Files!TypeOK, NEW m \in Files!Messages, Files!Send(m)
  PROVE  /\ up' \in Seq(Files!Messages) /\ why' \subseteq Files!Reason /\ why \subseteq why'
         /\ why' \subseteq why \union {"crossed", "mixed", "unread"}
         /\ "dropped" \in why => up' = <<>>
<1>1. up' \in Seq(Files!Messages) /\ ("dropped" \in why => up' = <<>>)
  BY DEF Files!TypeOK, Files!Send
<1>2. why \subseteq why' /\ why' \subseteq why \union {"crossed", "mixed", "unread"}
  BY DEF Files!Send
<1> QED BY <1>1, <1>2 DEF Files!TypeOK, Files!Reason

\* To show a path is to ask for its listing, unless the line has dropped.
LEMMA ShowPathTypes ==
  ASSUME Files!FilesAssumption, Files!TypeOK, NEW p \in Files!Path, Files!ShowPath(p)
  PROVE  /\ path' \in Files!Path
         /\ up' \in Seq(Files!Messages) /\ why' \subseteq Files!Reason /\ why \subseteq why'
         /\ why' \subseteq why \union {"crossed", "mixed", "unread"}
         /\ "dropped" \in why => up' = <<>>
<1>1. path' = p
  BY DEF Files!ShowPath
<1>2. CASE p # path
  BY <1>1, <1>2, MessageTypes, SendTypes DEF Files!ShowPath
<1>3. CASE p = path
  BY <1>1, <1>3 DEF Files!ShowPath, Files!TypeOK
<1> QED BY <1>2, <1>3

\* A page that starts with any requests on the line has its types.
LEMMA FilesInit ==
  ASSUME Files!FilesAssumption, NEW requests \in Seq(Files!Messages), Files!OpenedWith(requests)
  PROVE  Files!TypeOK
<1> USE DEF Files!OpenedWith
<1>1. up \in Seq(Files!Messages)
  OBVIOUS
<1>2. /\ waiting \in Seq(Files!Messages) /\ feeding \in [Files!Transfer -> Seq(Files!Messages)]
      /\ work \in Seq(Files!Messages) /\ down \in Seq(Files!Messages)
      /\ task \in [Files!Transfer -> Seq(Files!Messages)]
      /\ told \in Seq([ready : BOOLEAN, got : Seq(Nat)])
  <2>1. /\ waiting = <<>> /\ work = <<>> /\ down = <<>> /\ told = <<>>
        /\ feeding = [t \in Files!Transfer |-> <<>>] /\ task = [t \in Files!Transfer |-> <<>>]
    OBVIOUS
  <2> HIDE DEF Files!OpenedWith
  <2> QED BY <2>1
<1>3. file \in [handle : {"none", "asked", "open", "broken"}, expects : 0..MaxSize,
               got : Seq(Nat), missed : Nat]
  <2>1. file = Files!Closed
    OBVIOUS
  <2> HIDE DEF Files!OpenedWith
  <2> QED BY <2>1 DEF Files!Closed, Files!FilesAssumption
<1>4. /\ path \in Files!Path /\ clicks \in 0..MaxClicks /\ upsets \in 0..MaxUpsets
      /\ why \subseteq Files!Reason
  <2>1. path = "blank" /\ clicks = 0 /\ upsets = 0 /\ why = {}
    OBVIOUS
  <2> HIDE DEF Files!OpenedWith
  <2> QED BY <2>1 DEF Files!Path, Files!FilesAssumption
<1>5. first \in BOOLEAN /\ ready \in BOOLEAN /\ d_open \in BOOLEAN /\ u_open \in BOOLEAN
  BY Zenon
<1> QED BY <1>1, <1>2, <1>3, <1>4, <1>5 DEF Files!TypeOK

\* The page's actions.
LEMMA PageTypeStep ==
  ASSUME Files!FilesAssumption, Files!TypeOK,
         \/ Files!Refresh \/ Files!TakeMessage \/ Files!TakeTold
         \/ \E t \in Files!Transfer : Files!Feed(t) \/ Files!ReadFails(t)
         \/ \E p \in Files!Path : Files!GoTo(p)
         \/ \E n \in 0..MaxSize : Files!Download(n) \/ Files!Upload(n)
         \/ \E i \in 1..MaxSize + 1 : Files!PartWaited(i)
  PROVE  Files!TypeOK'
<1> USE DEF Files!FilesAssumption, Files!pageVars, Files!agentVars, Files!workerVars
<1>0. Files!TypeOK
  OBVIOUS
<1>1. CASE Files!Refresh
  <2>1. up' \in Seq(Files!Messages) /\ why' \subseteq Files!Reason /\ why' \subseteq why \union {"crossed", "mixed", "unread"}
        /\ ("dropped" \in why => up' = <<>>)
    BY <1>1, MessageTypes, SendTypes DEF Files!Refresh, Files!TypeOK
  <2>2. clicks' \in 0..MaxClicks
    BY <1>1 DEF Files!Refresh, Files!TypeOK
  <2> QED BY <1>1, <2>1, <2>2 DEF Files!Refresh, Files!TypeOK
<1>2. ASSUME NEW t \in Files!Transfer, Files!Feed(t) PROVE Files!TypeOK'
  <2>1. feeding[t] \in Seq(Files!Messages) /\ feeding[t] # <<>>
    BY <1>2 DEF Files!Feed, Files!TypeOK
  <2>2. Head(feeding[t]) \in Files!Messages /\ Tail(feeding[t]) \in Seq(Files!Messages)
    BY <2>1
  <2>3. feeding' \in [Files!Transfer -> Seq(Files!Messages)]
    BY <1>2, <2>2 DEF Files!Feed, Files!TypeOK
  <2>4. up' \in Seq(Files!Messages) /\ why' \subseteq Files!Reason /\ why' \subseteq why \union {"crossed", "mixed", "unread"}
        /\ ("dropped" \in why => up' = <<>>)
    BY <1>2, <2>2, SendTypes DEF Files!Feed
  <2> QED BY <1>2, <2>3, <2>4 DEF Files!Feed, Files!TypeOK
<1>9. ASSUME NEW t \in Files!Transfer, Files!ReadFails(t) PROVE Files!TypeOK'
  <2>1. feeding' \in [Files!Transfer -> Seq(Files!Messages)]
    <3>1. feeding' = [feeding EXCEPT ![t] = <<>>] /\ <<>> \in Seq(Files!Messages)
      BY <1>9 DEF Files!ReadFails
    <3> QED BY <3>1 DEF Files!TypeOK
  <2>2. upsets' \in 0..MaxUpsets
    BY <1>9 DEF Files!ReadFails, Files!Upset, Files!TypeOK
  <2>3. why' \subseteq Files!Reason /\ ("dropped" \in why' => "dropped" \in why)
    BY <1>9 DEF Files!ReadFails, Files!TypeOK, Files!Reason
  <2> QED BY <1>9, <2>1, <2>2, <2>3 DEF Files!ReadFails, Files!TypeOK
<1>3. CASE Files!TakeMessage
  <2> DEFINE m == Head(down)
  <2>1. m \in Files!Messages /\ down' \in Seq(Files!Messages) /\ down # <<>>
    BY <1>3 DEF Files!TakeMessage, Files!TypeOK
  <2>2. m.path \in Files!Path
    BY <2>1 DEF Files!Messages
  <2>3. UNCHANGED <<ready, feeding, receiving, task, file, told, saved, stored, clicks, upsets>>
    BY <1>3 DEF Files!TakeMessage
  <2>4. /\ path' \in Files!Path /\ first' \in BOOLEAN /\ d_open' \in BOOLEAN /\ u_open' \in BOOLEAN
        /\ waiting' \in Seq(Files!Messages) /\ work' \in Seq(Files!Messages)
        /\ up' \in Seq(Files!Messages) /\ why' \subseteq Files!Reason
        /\ ("dropped" \in why' => "dropped" \in why) /\ ("dropped" \in why => up' = <<>>)
    <3>1. CASE m.kind = "error"
      <4>1. /\ d_open' = FALSE /\ u_open' = FALSE
            /\ why' = why \union (IF first THEN {} ELSE {"failed"})
            /\ UNCHANGED <<path, first, waiting, up, work>>
        BY <1>3, <3>1 DEF Files!TakeMessage, Files!CloseDialogs
      <4>2. why' \subseteq Files!Reason /\ ("dropped" \in why' => "dropped" \in why)
        BY <4>1 DEF Files!TypeOK, Files!Reason
      <4>3. d_open' \in BOOLEAN /\ u_open' \in BOOLEAN
        BY <4>1, Zenon
      <4> QED BY <4>1, <4>2, <4>3 DEF Files!TypeOK
    <3>2. CASE m.kind # "error" /\ ~first
      <4>1. Files!TakePart(m) /\ UNCHANGED <<path, first, d_open, u_open, up>>
        BY <1>3, <3>2 DEF Files!TakeMessage
      <4>2. waiting' \in Seq(Files!Messages) /\ work' \in Seq(Files!Messages)
        <5>1. waiting \in Seq(Files!Messages) /\ work \in Seq(Files!Messages)
          BY DEF Files!TypeOK
        <5>2. \/ work' = Append(work, m) /\ waiting' = waiting
              \/ waiting' = Append(waiting, m) /\ work' = work
          BY <4>1 DEF Files!TakePart
        <5> HIDE DEF m
        <5>3. Append(work, m) \in Seq(Files!Messages) /\ Append(waiting, m) \in Seq(Files!Messages)
          BY <2>1, <5>1
        <5> QED BY <5>1, <5>2, <5>3
      <4>3. why' \subseteq Files!Reason /\ ("dropped" \in why' => "dropped" \in why)
        BY <4>1 DEF Files!TakePart, Files!TypeOK, Files!Reason
      <4> QED BY <4>1, <4>2, <4>3 DEF Files!TypeOK
    <3>3. CASE first /\ m.kind = "file"
      <4>1. /\ first' = FALSE /\ work' = Append(work, m)
            /\ why' = why \union (IF m.n = 0 THEN {"empty"} ELSE {})
            /\ UNCHANGED <<path, waiting, d_open, u_open, up>>
        BY <1>3, <3>3 DEF Files!TakeMessage
      <4>2. work' \in Seq(Files!Messages)
        BY <2>1, <4>1 DEF Files!TypeOK
      <4>3. first' \in BOOLEAN
        BY <4>1, Zenon
      <4>4. why' \subseteq Files!Reason /\ ("dropped" \in why' => "dropped" \in why)
        BY <4>1 DEF Files!TypeOK, Files!Reason
      <4> QED BY <4>1, <4>2, <4>3, <4>4 DEF Files!TypeOK
    <3>4. CASE first /\ m.kind = "list"
      <4>1. Files!ShowPath(m.path) /\ UNCHANGED <<first, waiting, d_open, u_open, work>>
        BY <1>3, <3>4 DEF Files!TakeMessage
      <4> QED BY <2>2, <4>1, ShowPathTypes DEF Files!TypeOK
    <3>5. CASE first /\ m.kind = "done"
      <4>1. u_open' = FALSE /\ Files!Send(Files!List("blank")) /\ UNCHANGED <<path, first, waiting, d_open, work>>
        BY <1>3, <3>5 DEF Files!TakeMessage
      <4>2. Files!List("blank") \in Files!Messages /\ u_open' \in BOOLEAN
        BY <4>1, MessageTypes DEF Files!Path
      <4> QED BY <4>1, <4>2, SendTypes DEF Files!TypeOK
    <3>6. CASE first /\ m.kind \notin {"error", "file", "list", "done"}
      BY <1>3, <3>6 DEF Files!TakeMessage, Files!CloseDialogs, Files!TypeOK
    <3>7. first \in BOOLEAN
      BY DEF Files!TypeOK
    <3> QED BY <3>1, <3>2, <3>3, <3>4, <3>5, <3>6, <3>7
  <2> QED BY <2>1, <2>3, <2>4 DEF Files!TypeOK
<1>4. CASE Files!TakeTold
  <2>1. told' \in Seq([ready : BOOLEAN, got : Seq(Nat)])
    BY <1>4 DEF Files!TakeTold, Files!TypeOK
  <2>2. ready' \in BOOLEAN /\ first' \in BOOLEAN /\ d_open' \in BOOLEAN
    BY <1>4 DEF Files!TakeTold, Files!TypeOK
  <2> QED BY <1>4, <2>1, <2>2 DEF Files!TakeTold, Files!TypeOK
<1>5. ASSUME NEW p \in Files!Path, Files!GoTo(p) PROVE Files!TypeOK'
  <2>1. Files!ShowPath(p)
    BY <1>5 DEF Files!GoTo
  <2>2. clicks' \in 0..MaxClicks
    BY <1>5 DEF Files!GoTo, Files!TypeOK
  <2> QED BY <1>5, <2>1, <2>2, ShowPathTypes DEF Files!GoTo, Files!TypeOK
<1>6. ASSUME NEW n \in 0..MaxSize, Files!Download(n) PROVE Files!TypeOK'
  <2>1. Files!Send(Files!Msg("download", "blank", n)) /\ Files!Msg("download", "blank", n) \in Files!Messages
    BY <1>6, MessageTypes DEF Files!Download
  <2>2. clicks' \in 0..MaxClicks /\ d_open' \in BOOLEAN
    BY <1>6 DEF Files!Download, Files!TypeOK
  <2> QED BY <1>6, <2>1, <2>2, SendTypes DEF Files!Download, Files!TypeOK
<1>7. ASSUME NEW n \in 0..MaxSize, Files!Upload(n) PROVE Files!TypeOK'
  <2>1. Files!Send(Files!Msg("upload", "blank", n)) /\ Files!Msg("upload", "blank", n) \in Files!Messages
    BY <1>7, MessageTypes DEF Files!Upload
  <2>2. clicks' \in 0..MaxClicks /\ u_open' \in BOOLEAN
    BY <1>7 DEF Files!Upload, Files!TypeOK
  <2>3. feeding' \in [Files!Transfer -> Seq(Files!Messages)]
    <3>1. feeding' = [feeding EXCEPT ![clicks + 1] = Files!Parts(n)]
      BY <1>7 DEF Files!Upload
    <3>2. Files!Parts(n) \in Seq(Files!Messages)
      BY MessageTypes
    <3> QED BY <3>1, <3>2 DEF Files!TypeOK
  <2> QED BY <1>7, <2>1, <2>2, <2>3, SendTypes DEF Files!Upload, Files!TypeOK
<1>8. ASSUME NEW i \in 1..MaxSize + 1, Files!PartWaited(i) PROVE Files!TypeOK'
  <2>1. waiting \in Seq(Files!Messages) /\ i \in 1..Len(waiting)
    BY <1>8 DEF Files!PartWaited, Files!TypeOK
  <2>2. waiting[i] \in Files!Messages
    BY <2>1
  <2>3. waiting' \in Seq(Files!Messages)
    <3>1. waiting' = SubSeq(waiting, 1, i - 1) \o SubSeq(waiting, i + 1, Len(waiting))
      BY <1>8 DEF Files!PartWaited, Files!RemoveAt
    <3>2. SubSeq(waiting, 1, i - 1) \in Seq(Files!Messages) /\ SubSeq(waiting, i + 1, Len(waiting)) \in Seq(Files!Messages)
      BY <2>1
    <3> QED BY <3>1, <3>2
  <2>4. work' \in Seq(Files!Messages)
    BY <1>8, <2>2 DEF Files!PartWaited, Files!TypeOK
  <2>5. why' \subseteq Files!Reason /\ ("dropped" \in why' => "dropped" \in why)
    BY <1>8 DEF Files!PartWaited, Files!TypeOK, Files!Reason
  <2> QED BY <1>8, <2>3, <2>4, <2>5 DEF Files!PartWaited, Files!TypeOK
<1> QED BY <1>1, <1>2, <1>3, <1>4, <1>5, <1>6, <1>7, <1>8, <1>9

\* A message asks for a file of some size, if it asks for one.
LEMMA AsksTypes ==
  ASSUME Files!FilesAssumption, NEW m \in Files!Messages, NEW what
  PROVE  Files!Asks(m, what) \subseteq 0..MaxSize
<1>1. m.n \in 0..MaxSize /\ 0..1 \subseteq 0..MaxSize
  BY DEF Files!Messages, Files!FilesAssumption
<1> QED BY <1>1 DEF Files!Asks

\* The worker's and the agent's actions, and the end of the stream.
LEMMA PeerTypeStep ==
  ASSUME Files!FilesAssumption, Files!TypeOK,
         \/ Files!Work \/ Files!WorkFails \/ Files!Opened \/ Files!OpenFails
         \/ Files!Receive \/ Files!AgentTakes \/ Files!Drop
         \/ \E t \in Files!Transfer : Files!TaskSends(t)
         \/ UNCHANGED filesVars
  PROVE  Files!TypeOK'
<1> USE DEF Files!FilesAssumption, Files!pageVars, Files!agentVars, Files!workerVars
<1> DEFINE Told == [ready : BOOLEAN, got : Seq(Nat)]
           File == [handle : {"none", "asked", "open", "broken"}, expects : 0..MaxSize,
                    got : Seq(Nat), missed : Nat]
<1>f. file \in File /\ told \in Seq(Told)
  BY DEF Files!TypeOK
<1>w. ASSUME work # <<>>, work' = Tail(work)
      PROVE  /\ Head(work) \in Files!Messages /\ work' \in Seq(Files!Messages)
             /\ Files!Written(IF Head(work).kind = "part" THEN Head(work).n ELSE 0) \in Seq(Nat)
  <2>1. Head(work) \in Files!Messages /\ work' \in Seq(Files!Messages)
    BY <1>w DEF Files!TypeOK
  <2>2. (IF Head(work).kind = "part" THEN Head(work).n ELSE 0) \in Nat
    BY <2>1 DEF Files!Messages
  <2>3. file.got \in Seq(Nat)
    BY <1>f
  <2> QED BY <2>1, <2>2, <2>3 DEF Files!Written
<1>1. CASE Files!Work
  <2> DEFINE m == Head(work)
             got == Files!Written(IF m.kind = "part" THEN m.n ELSE 0)
  <2>1. m \in Files!Messages /\ work' \in Seq(Files!Messages) /\ got \in Seq(Nat)
    BY <1>1, <1>w DEF Files!Work
  <2>2. m.n \in 0..MaxSize
    BY <2>1 DEF Files!Messages
  <2>5. \/ file' = [Files!Closed EXCEPT !.handle = "asked", !.expects = m.n] /\ told' = told
        \/ file' = Files!Closed /\ told' = Append(told, [ready |-> FALSE, got |-> got])
        \/ file' = [file EXCEPT !.got = got] /\ told' = told
        \/ file' = file /\ told' = told
    BY <1>1 DEF Files!Work, Files!Say
  <2> HIDE DEF got
  <2>6. told' \in Seq(Told)
    <3>1. PICK y \in Told : y = [ready |-> FALSE, got |-> got]
      BY <2>1
    <3> HIDE DEF Told
    <3>2. told' = told \/ told' = Append(told, y)
      BY <2>5, <3>1
    <3> QED BY <1>f, <3>2
  <2>7. file' \in File
    <3>1. Files!Closed \in File
      BY DEF Files!Closed
    <3>2. [Files!Closed EXCEPT !.handle = "asked", !.expects = m.n] \in File
      <4> HIDE DEF m
      <4>1. PICK k \in 0..MaxSize : k = m.n
        BY <2>2
      <4>2. PICK r \in File : r = Files!Closed
        BY <3>1
      <4>3. [r EXCEPT !.handle = "asked", !.expects = k] \in File
        OBVIOUS
      <4> QED BY <4>1, <4>2, <4>3
    <3>3. [file EXCEPT !.got = got] \in File
      BY <1>f, <2>1
    <3> QED BY <1>f, <2>5, <3>1, <3>2, <3>3
  <2> QED BY <1>1, <2>1, <2>6, <2>7 DEF Files!Work, Files!TypeOK
<1>8. CASE Files!WorkFails
  <2> DEFINE got == Files!Written(IF Head(work).kind = "part" THEN Head(work).n ELSE 0)
  <2>1. work' \in Seq(Files!Messages) /\ got \in Seq(Nat)
    BY <1>8, <1>w DEF Files!WorkFails
  <2>2. file' = [file EXCEPT !.missed = @ + 1] \/ file' = [file EXCEPT !.handle = "broken", !.got = got]
    BY <1>8 DEF Files!WorkFails
  <2>3. file' \in File
    <3> HIDE DEF got
    <3>1. [file EXCEPT !.missed = @ + 1] \in File
      <4>1. PICK k \in Nat : k = file.missed + 1
        BY <1>f
      <4>2. [file EXCEPT !.missed = k] \in File
        BY <1>f
      <4> QED BY <4>1, <4>2
    <3>2. [file EXCEPT !.handle = "broken", !.got = got] \in File
      BY <1>f, <2>1
    <3> QED BY <2>2, <3>1, <3>2
  <2>4. upsets' \in 0..MaxUpsets
    BY <1>8 DEF Files!WorkFails, Files!Upset, Files!TypeOK
  <2> QED BY <1>8, <2>1, <2>3, <2>4 DEF Files!WorkFails, Files!TypeOK
<1>2. CASE Files!Opened
  <2>1. told' \in Seq(Told)
    <3>1. [ready |-> TRUE, got |-> <<>>] \in Told
      OBVIOUS
    <3>2. told \in Seq(Told) /\ told' = Append(told, [ready |-> TRUE, got |-> <<>>])
      BY <1>2 DEF Files!Opened, Files!Say, Files!TypeOK
    <3> HIDE DEF Told
    <3> QED BY <3>1, <3>2
  <2>2. file' \in File
    BY <1>2, <1>f DEF Files!Opened
  <2> QED BY <1>2, <2>1, <2>2 DEF Files!Opened, Files!TypeOK
<1>9. CASE Files!OpenFails
  <2>1. file' \in File
    BY <1>9, <1>f DEF Files!OpenFails
  <2>2. upsets' \in 0..MaxUpsets
    BY <1>9 DEF Files!OpenFails, Files!Upset, Files!TypeOK
  <2> QED BY <1>9, <2>1, <2>2 DEF Files!OpenFails, Files!TypeOK
<1> DEFINE Upload == [left : 1..MaxSize, got : Seq(Nat), own : BOOLEAN]
<1>3. CASE Files!Receive
  <2> DEFINE m == Head(up)
             n == IF m.kind = "part" THEN m.n ELSE 0
             r == [receiving EXCEPT !.left = @ - 1, !.got = IF receiving.own THEN Append(@, n) ELSE @]
  <2>1. m \in Files!Messages /\ up' \in Seq(Files!Messages) /\ up # <<>> /\ receiving # Files!Nothing
    BY <1>3 DEF Files!Receive, Files!TypeOK
  <2>2. "dropped" \notin why'
    BY <1>3, <2>1 DEF Files!Receive, Files!TypeOK
  <2>3. receiving \in Upload /\ n \in Nat
    BY <2>1 DEF Files!TypeOK, Files!Messages
  <2>4. down' \in Seq(Files!Messages)
    <3>1. down' \in {down, Append(down, Files!Done), Append(down, Files!Error)}
      BY <1>3 DEF Files!Receive
    <3>2. down \in Seq(Files!Messages)
      BY DEF Files!TypeOK
    <3>3. Files!Done \in Files!Messages /\ Files!Error \in Files!Messages
      BY MessageTypes
    <3>4. Append(down, Files!Done) \in Seq(Files!Messages) /\ Append(down, Files!Error) \in Seq(Files!Messages)
      BY <3>2, <3>3, LineAppend
    <3> QED BY <3>1, <3>2, <3>4
  <2>5. receiving' = Files!Nothing \/ receiving' \in Upload
    <3>1. receiving' = Files!Nothing \/ (receiving' = r /\ r.left # 0)
      BY <1>3 DEF Files!Receive, Files!Complete
    <3> HIDE DEF n
    <3>2. Append(receiving.got, n) \in Seq(Nat)
      BY <2>3
    <3>3. r.left # 0 => r \in Upload
      <4> DEFINE g == IF receiving.own THEN Append(receiving.got, n) ELSE receiving.got
      <4>1. g \in Seq(Nat)
        BY <2>3, <3>2
      <4>2. r = [receiving EXCEPT !.left = @ - 1, !.got = g]
        OBVIOUS
      <4>3. receiving.left \in Nat \ {0}
        BY <2>3
      <4> HIDE DEF g, r
      <4>4. /\ r = [left |-> r.left, got |-> g, own |-> receiving.own]
            /\ r.left = receiving.left - 1
        BY <2>3, <4>2
      <4>5. r.left # 0 => r.left \in 1..MaxSize
        BY <2>3, <4>3, <4>4
      <4> QED BY <2>3, <4>1, <4>4, <4>5
    <3> QED BY <3>1, <3>3
  <2>6. why' \subseteq Files!Reason
    BY <1>3 DEF Files!Receive, Files!Reason, Files!TypeOK
  <2>7. upsets' \in 0..MaxUpsets
    BY <1>3, UpsetTypes DEF Files!Receive
  <2> QED BY <1>3, <2>1, <2>2, <2>4, <2>5, <2>6, <2>7 DEF Files!Receive, Files!TypeOK
<1>4. CASE Files!AgentTakes
  <2> DEFINE m == Head(up)
  <2>1. m \in Files!Messages /\ up' \in Seq(Files!Messages) /\ up # <<>> /\ receiving = Files!Nothing
    BY <1>4 DEF Files!AgentTakes, Files!TypeOK
  <2>2. "dropped" \notin why
    BY <2>1 DEF Files!TypeOK
  <2>3. Files!Answer(m.path) \in Files!Path
    BY <2>1 DEF Files!Messages, Files!Answer, Files!Path
  <2>4. down' \in Seq(Files!Messages)
    <3>1. \/ down' = down
          \/ \E a \in {Files!List(Files!Answer(m.path)), Files!Done, Files!Error} : down' = Append(down, a)
      BY <1>4 DEF Files!AgentTakes, Files!agentVars
    <3>2. down \in Seq(Files!Messages)
      BY DEF Files!TypeOK
    <3>3. \A a \in {Files!List(Files!Answer(m.path)), Files!Done, Files!Error} : a \in Files!Messages
      BY <2>3, MessageTypes
    <3>4. \A a \in Files!Messages : Append(down, a) \in Seq(Files!Messages)
      BY <3>2, LineAppend
    <3> QED BY <3>1, <3>2, <3>3, <3>4
  <2>5. task' \in [Files!Transfer -> Seq(Files!Messages)]
    <3>1. CASE task' = task
      BY <3>1 DEF Files!TypeOK
    <3>2. CASE task' # task
      <4>1. PICK n \in Files!Asks(m, "download"), t \in Files!Transfer :
              task' = [task EXCEPT ![t] = <<Files!Header(n)>> \o Files!Parts(n)]
        BY <1>4, <3>2 DEF Files!AgentTakes
      <4>2. n \in 0..MaxSize
        BY <2>1, <4>1, AsksTypes
      <4>3. <<Files!Header(n)>> \o Files!Parts(n) \in Seq(Files!Messages)
        BY <4>2, MessageTypes
      <4> QED BY <4>1, <4>3 DEF Files!TypeOK
    <3> QED BY <3>1, <3>2
  <2>6. receiving' = Files!Nothing \/ receiving' \in Upload
    <3>1. CASE receiving' = receiving
      BY <2>1, <3>1
    <3>2. CASE receiving' # receiving
      <4>1. PICK n \in Files!Asks(m, "upload") \ {0} :
              receiving' = [left |-> n, got |-> <<>>, own |-> m.kind = "upload"]
        BY <1>4, <3>2 DEF Files!AgentTakes
      <4>2. n \in 1..MaxSize
        BY <2>1, <4>1, AsksTypes
      <4>3. <<>> \in Seq(Nat) /\ (m.kind = "upload") \in BOOLEAN
        OBVIOUS
      <4> DEFINE own == m.kind = "upload"
      <4> HIDE DEF own
      <4>4. [left |-> n, got |-> <<>>, own |-> own] \in Upload
        BY <4>2, <4>3 DEF own
      <4> QED BY <4>1, <4>4 DEF own
    <3> QED BY <3>1, <3>2
  <2>7. upsets' \in 0..MaxUpsets
    BY <1>4, UpsetTypes DEF Files!AgentTakes, Files!Counted
  <2> QED BY <1>4, <2>1, <2>2, <2>4, <2>5, <2>6, <2>7 DEF Files!AgentTakes, Files!TypeOK
<1>5. ASSUME NEW t \in Files!Transfer, Files!TaskSends(t) PROVE Files!TypeOK'
  <2>1. task[t] \in Seq(Files!Messages) /\ task[t] # <<>>
    BY <1>5 DEF Files!TaskSends, Files!TypeOK
  <2>2. Head(task[t]) \in Files!Messages /\ Tail(task[t]) \in Seq(Files!Messages)
    BY <2>1
  <2>3. task' \in [Files!Transfer -> Seq(Files!Messages)]
    <3>1. task' = [task EXCEPT ![t] = Tail(task[t])] \/ task' = [task EXCEPT ![t] = <<>>]
      BY <1>5 DEF Files!TaskSends
    <3>2. task \in [Files!Transfer -> Seq(Files!Messages)] /\ <<>> \in Seq(Files!Messages)
      BY DEF Files!TypeOK
    <3>3. CASE task' = [task EXCEPT ![t] = Tail(task[t])]
      BY <2>2, <3>2, <3>3
    <3>4. CASE task' = [task EXCEPT ![t] = <<>>]
      BY <3>2, <3>4
    <3> QED BY <3>1, <3>3, <3>4
  <2>4. down' \in Seq(Files!Messages)
    <3>1. \E a \in Files!Messages : down' = Append(down, a)
      BY <1>5, <2>2, MessageTypes DEF Files!TaskSends
    <3> QED BY <3>1 DEF Files!TypeOK
  <2>5. upsets' \in 0..MaxUpsets
    BY <1>5, UpsetTypes DEF Files!TaskSends
  <2> QED BY <1>5, <2>3, <2>4, <2>5 DEF Files!TaskSends, Files!TypeOK
<1>6. CASE Files!Drop
  <2>1. task' \in [Files!Transfer -> Seq(Files!Messages)] /\ up' \in Seq(Files!Messages) /\ down' \in Seq(Files!Messages)
    BY <1>6 DEF Files!Drop
  <2>2. why' \subseteq Files!Reason
    BY <1>6 DEF Files!Drop, Files!TypeOK, Files!Reason
  <2>3. upsets' \in 0..MaxUpsets
    BY <1>6 DEF Files!Drop, Files!Upset, Files!TypeOK
  <2> QED BY <1>6, <2>1, <2>2, <2>3 DEF Files!Drop, Files!TypeOK
<1>7. CASE UNCHANGED filesVars
  BY <1>7 DEF filesVars, Files!TypeOK
<1> QED BY <1>1, <1>2, <1>3, <1>4, <1>5, <1>6, <1>7, <1>8, <1>9

\* Every step of the page, its worker and the agent keeps the types.
LEMMA FilesTypeStep ==
  ASSUME Files!FilesAssumption, Files!TypeOK, [Files!Next]_filesVars
  PROVE  Files!TypeOK'
BY PageTypeStep, PeerTypeStep DEF Files!Next

-----------------------------------------------------------------------------
(* FileManager: uploads *)

\* The next part makes a whole beginning longer.
LEMMA WholeAppend ==
  ASSUME NEW s \in Seq(Nat), Files!Whole(s)
  PROVE  Files!Whole(Append(s, Len(s) + 1))
<1> DEFINE h == [i \in 1..Len(s) + 1 |-> i]
           t == Append(s, Len(s) + 1)
<1>1. Len(s) \in Nat /\ t \in Seq(Nat) /\ Len(t) = Len(s) + 1
  OBVIOUS
<1>2. \A i \in 1..Len(s) : s[i] = i
  BY DEF Files!Whole
<1>3. ASSUME NEW i \in 1..Len(s) + 1 PROVE t[i] = i
  <2>1. t[i] = IF i = Len(s) + 1 THEN Len(s) + 1 ELSE s[i]
    BY <1>1
  <2> QED BY <1>1, <1>2, <2>1
<1>4. h \in Seq(Nat) /\ Len(h) = Len(s) + 1 /\ \A i \in 1..Len(s) + 1 : h[i] = i
  BY <1>1
<1> HIDE DEF h, t
<1>5. t = h
  BY <1>1, <1>3, <1>4, SeqEqual
<1>6. t = [i \in 1..Len(t) |-> i]
  BY <1>1, <1>5 DEF h
<1> QED BY <1>6 DEF Files!Whole, t

\* A message that is no header moves no header and no part of an upload.
LEMMA UploadAppend ==
  ASSUME NEW u \in Seq(Files!Messages), NEW m \in Files!Messages, NEW r,
         r.left \in Nat, m.kind # "upload",
         Files!HeadersLead(u), Files!RestFollows(u, r)
  PROVE  Files!HeadersLead(Append(u, m)) /\ Files!RestFollows(Append(u, m), r)
<1> DEFINE t == Append(u, m)
<1>1. /\ Len(t) = Len(u) + 1 /\ Len(u) \in Nat /\ t[Len(u) + 1] = m
      /\ \A i \in 1..Len(u) : t[i] = u[i] /\ u[i].n \in Nat
  <2>1. \A i \in 1..Len(u) : u[i] \in Files!Messages
    OBVIOUS
  <2> QED BY <2>1, LineAppend DEF Files!Messages
<1> HIDE DEF t
<1>2. ASSUME NEW i \in 1..Len(t), t[i].kind = "upload", NEW k \in 1..t[i].n
      PROVE  i + k <= Len(t) /\ t[i + k] = Files!Part(k)
  <2>1. i \in 1..Len(u)
    BY <1>1, <1>2
  <2>2. u[i].kind = "upload" /\ k \in 1..u[i].n
    BY <1>1, <1>2, <2>1
  <2>3. i + k <= Len(u) /\ u[i + k] = Files!Part(k)
    BY <2>1, <2>2 DEF Files!HeadersLead
  <2>4. i + k \in 1..Len(u)
    BY <1>1, <2>1, <2>2, <2>3
  <2> QED BY <1>1, <2>3, <2>4
<1>3. ASSUME r.own
      PROVE  Files!Whole(r.got) /\ \A k \in 1..r.left : k <= Len(t) /\ t[k] = Files!Part(Len(r.got) + k)
  <2>1. Files!Whole(r.got) /\ \A k \in 1..r.left : k <= Len(u) /\ u[k] = Files!Part(Len(r.got) + k)
    BY <1>3 DEF Files!RestFollows
  <2>2. ASSUME NEW k \in 1..r.left PROVE k <= Len(t) /\ t[k] = Files!Part(Len(r.got) + k)
    <3>1. k <= Len(u) /\ u[k] = Files!Part(Len(r.got) + k) /\ k \in Nat \ {0}
      BY <1>3, <2>1
    <3>2. k \in 1..Len(u)
      BY <1>1, <3>1
    <3> QED BY <1>1, <3>1, <3>2
  <2> QED BY <2>1, <2>2
<1>4. Files!HeadersLead(t)
  BY <1>2 DEF Files!HeadersLead
<1>5. Files!RestFollows(t, r)
  BY <1>3 DEF Files!RestFollows
<1> QED BY <1>4, <1>5 DEF t

\* The header of an upload with its parts behind it.
LEMMA UploadBegins ==
  ASSUME Files!FilesAssumption, NEW u \in Seq(Files!Messages), NEW n \in 0..MaxSize, NEW r,
         r.left \in Nat,
         Files!HeadersLead(u), Files!RestFollows(u, r),
         NEW h, h = Files!Msg("upload", "blank", n)
  PROVE  /\ Files!HeadersLead(Append(u, h) \o Files!Parts(n))
         /\ Files!RestFollows(Append(u, h) \o Files!Parts(n), r)
<1> DEFINE t == Append(u, h) \o Files!Parts(n)
<1>0. n \in Nat /\ h \in Files!Messages /\ Files!Parts(n) \in Seq(Files!Messages) /\ h.n = n
  <2>1. n \in Nat /\ h.n = n
    BY DEF Files!FilesAssumption, Files!Msg
  <2> QED BY <2>1, MessageTypes
<1>1. /\ Len(t) = Len(u) + 1 + n /\ Len(u) \in Nat /\ t[Len(u) + 1] = h
      /\ \A i \in 1..Len(u) : t[i] = u[i] /\ u[i].n \in Nat
      /\ \A k \in 1..n : t[Len(u) + 1 + k] = Files!Part(k)
  <2>1. \A i \in 1..Len(u) : u[i] \in Files!Messages
    OBVIOUS
  <2>2. /\ Append(u, h) \in Seq(Files!Messages) /\ Len(Append(u, h)) = Len(u) + 1 /\ Len(u) \in Nat
        /\ Append(u, h)[Len(u) + 1] = h /\ \A i \in 1..Len(u) : Append(u, h)[i] = u[i]
    BY <1>0, LineAppend
  <2>3. Len(Files!Parts(n)) = n /\ \A k \in 1..n : Files!Parts(n)[k] = Files!Part(k)
    BY <1>0 DEF Files!Parts
  <2> DEFINE a == Append(u, h)
             b == Files!Parts(n)
  <2>4. /\ Len(a \o b) = Len(a) + Len(b)
        /\ \A i \in 1..Len(a) + Len(b) : (a \o b)[i] = IF i <= Len(a) THEN a[i] ELSE b[i - Len(a)]
    BY <1>0, <2>2, ConcatProperties
  <2> HIDE DEF a, b
  <2>5. t = a \o b
    BY DEF a, b
  <2> HIDE DEF t
  <2>6. Len(a) = Len(u) + 1 /\ Len(b) = n /\ Len(u) \in Nat
    BY <2>2, <2>3 DEF a, b
  <2>7. ASSUME NEW k \in 1..n PROVE t[Len(u) + 1 + k] = Files!Part(k)
    <3>1. Len(u) + 1 + k \in 1..Len(a) + Len(b) /\ ~(Len(u) + 1 + k <= Len(a)) /\ (Len(u) + 1 + k) - Len(a) = k
      BY <1>0, <2>6
    <3>2. t[Len(u) + 1 + k] = b[k]
      BY <2>4, <2>5, <3>1
    <3> QED BY <2>3, <3>2 DEF b
  <2>8. ASSUME NEW i \in 1..Len(u) + 1 PROVE t[i] = a[i]
    <3>1. i \in 1..Len(a) + Len(b) /\ i <= Len(a)
      BY <1>0, <2>6
    <3> QED BY <2>4, <2>5, <3>1
  <2>9. t[Len(u) + 1] = h /\ \A i \in 1..Len(u) : t[i] = u[i]
    <3>1. Len(u) + 1 \in 1..Len(u) + 1 /\ \A i \in 1..Len(u) : i \in 1..Len(u) + 1
      BY <2>6
    <3> QED BY <2>2, <2>8, <3>1 DEF a
  <2>10. \A i \in 1..Len(u) : u[i].n \in Nat
    BY <2>1 DEF Files!Messages
  <2> QED BY <2>4, <2>5, <2>6, <2>7, <2>9, <2>10
<1> HIDE DEF t
<1>2. ASSUME NEW k \in 1..n PROVE t[Len(u) + 1 + k].kind = "part"
  <2>1. t[Len(u) + 1 + k] = Files!Part(k)
    BY <1>1
  <2> QED BY <2>1 DEF Files!Part, Files!Msg
<1>3. ASSUME NEW i \in 1..Len(t), t[i].kind = "upload", NEW k \in 1..t[i].n
      PROVE  i + k <= Len(t) /\ t[i + k] = Files!Part(k)
  <2>1. CASE i \in 1..Len(u)
    <3>0. u[i].kind = "upload" /\ k \in 1..u[i].n /\ u[i].n \in Nat
      BY <1>1, <1>3, <2>1
    <3>3. i + k <= Len(u) /\ u[i + k] = Files!Part(k)
      BY <2>1, <3>0 DEF Files!HeadersLead
    <3>4. k \in Nat \ {0}
      BY <3>0
    <3>1. i + k <= Len(u) /\ u[i + k] = Files!Part(k) /\ k \in Nat \ {0}
      BY <3>3, <3>4
    <3>2. i + k \in 1..Len(u)
      BY <1>1, <2>1, <3>1
    <3> QED BY <1>0, <1>1, <3>1, <3>2
  <2>2. CASE i = Len(u) + 1
    <3>1. k \in 1..n
      BY <1>0, <1>1, <1>3, <2>2
    <3> QED BY <1>0, <1>1, <2>2, <3>1
  <2>3. CASE i \notin 1..Len(u) + 1
    <3>1. i - (Len(u) + 1) \in 1..n /\ Len(u) + 1 + (i - (Len(u) + 1)) = i
      BY <1>0, <1>1, <2>3
    <3>2. t[i].kind = "part"
      BY <1>2, <3>1
    <3> QED BY <1>3, <3>2
  <2>4. i \in 1..Len(u) \/ i = Len(u) + 1 \/ i \notin 1..Len(u) + 1
    BY <1>1
  <2> QED BY <2>1, <2>2, <2>3, <2>4
<1>4. ASSUME r.own
      PROVE  Files!Whole(r.got) /\ \A k \in 1..r.left : k <= Len(t) /\ t[k] = Files!Part(Len(r.got) + k)
  <2>1. Files!Whole(r.got) /\ \A k \in 1..r.left : k <= Len(u) /\ u[k] = Files!Part(Len(r.got) + k)
    BY <1>4 DEF Files!RestFollows
  <2>2. ASSUME NEW k \in 1..r.left PROVE k <= Len(t) /\ t[k] = Files!Part(Len(r.got) + k)
    <3>1. k <= Len(u) /\ u[k] = Files!Part(Len(r.got) + k) /\ k \in Nat \ {0}
      BY <1>4, <2>1
    <3>2. k \in 1..Len(u)
      BY <1>1, <3>1
    <3> QED BY <1>0, <1>1, <3>1, <3>2
  <2> QED BY <2>1, <2>2
<1>5. Files!HeadersLead(t)
  BY <1>3 DEF Files!HeadersLead
<1>6. Files!RestFollows(t, r)
  BY <1>4 DEF Files!RestFollows
<1> QED BY <1>5, <1>6 DEF t

\* What is first leaves the line: headers still lead.
LEMMA UploadTail ==
  ASSUME NEW u \in Seq(Files!Messages), u # <<>>, Files!HeadersLead(u)
  PROVE  Files!HeadersLead(Tail(u))
<1> DEFINE t == Tail(u)
<1>1. /\ Len(t) = Len(u) - 1 /\ Len(u) \in Nat
      /\ \A i \in 1..Len(t) : t[i] = u[i + 1] /\ u[i + 1].n \in Nat
  <2>1. Len(t) = Len(u) - 1 /\ Len(u) \in Nat /\ \A i \in 1..Len(t) : t[i] = u[i + 1]
    OBVIOUS
  <2>2. ASSUME NEW i \in 1..Len(t) PROVE u[i + 1] \in Files!Messages
    <3>1. i + 1 \in 1..Len(u)
      BY <2>1
    <3> QED BY <3>1
  <2> QED BY <2>1, <2>2 DEF Files!Messages
<1> HIDE DEF t
<1>2. ASSUME NEW i \in 1..Len(t), t[i].kind = "upload", NEW k \in 1..t[i].n
      PROVE  i + k <= Len(t) /\ t[i + k] = Files!Part(k)
  <2>1. i + 1 \in 1..Len(u) /\ u[i + 1].kind = "upload" /\ k \in 1..u[i + 1].n /\ k \in Nat \ {0}
    BY <1>1, <1>2
  <2>2. (i + 1) + k <= Len(u) /\ u[(i + 1) + k] = Files!Part(k)
    BY <2>1 DEF Files!HeadersLead
  <2>3. i + k \in 1..Len(t) /\ (i + k) + 1 = (i + 1) + k
    BY <1>1, <2>1, <2>2
  <2>4. t[i + k] = u[(i + k) + 1]
    BY <1>1, <2>3
  <2> QED BY <2>2, <2>3, <2>4
<1> QED BY <1>2 DEF t, Files!HeadersLead

\* A message that is sent while nothing is fed.
LEMMA SendKeepsUploads ==
  ASSUME Files!TypeOK, Files!UploadsFollow, NEW m \in Files!Messages, Files!Send(m),
         m.kind \notin {"upload", "part"}, UNCHANGED <<feeding, receiving>>,
         clicks' \in {clicks, clicks + 1}
  PROVE  Files!UploadsFollow'
<1>1. \A t \in Files!Transfer : \A i \in 1..Len(feeding'[t]) : feeding'[t][i].kind = "part"
  BY DEF Files!UploadsFollow
<1>2. ASSUME NEW t \in Files!Transfer, t > clicks' PROVE feeding'[t] = <<>>
  <2>1. t \in Nat /\ clicks \in Nat
    BY DEF Files!Transfer, Files!TypeOK
  <2>2. t > clicks
    BY <1>2, <2>1
  <2> QED BY <2>2 DEF Files!UploadsFollow
<1>3. ASSUME why' \intersect {"mixed", "unread"} = {}
      PROVE  /\ \A t, u \in Files!Transfer : feeding'[t] = <<>> \/ feeding'[u] = <<>> \/ t = u
             /\ \A t \in Files!Transfer :
                  Files!HeadersLead(Files!OnTheWay(t)') /\ Files!RestFollows(Files!OnTheWay(t)', receiving')
  <2>1. why \intersect {"mixed", "unread"} = {} /\ \A t \in Files!Transfer : feeding[t] = <<>>
    BY <1>3 DEF Files!Send, Files!Feeding
  <2>2. up \in Seq(Files!Messages) /\ up' = IF "dropped" \in why THEN up ELSE Append(up, m)
    BY DEF Files!Send, Files!TypeOK
  <2>3. ASSUME NEW t \in Files!Transfer
        PROVE  Files!HeadersLead(Files!OnTheWay(t)') /\ Files!RestFollows(Files!OnTheWay(t)', receiving')
    <3>1. Files!OnTheWay(t) = up /\ Files!Alone(t)
      <4>1. up \o <<>> = up
        BY <2>2, ConcatEmptySeq
      <4> QED BY <2>1, <4>1 DEF Files!OnTheWay, Files!Alone
    <3>2. Files!HeadersLead(up) /\ Files!RestFollows(up, receiving)
      BY <2>1, <3>1 DEF Files!UploadsFollow
    <3>3. receiving.left \in Nat
      BY DEF Files!TypeOK, Files!Nothing
    <3>4. Files!HeadersLead(up') /\ Files!RestFollows(up', receiving)
      BY <2>2, <3>2, <3>3, UploadAppend
    <3>5. Files!OnTheWay(t)' = up'
      <4>1. up' \in Seq(Files!Messages)
        BY <2>2
      <4>2. up' \o <<>> = up'
        BY <4>1, ConcatEmptySeq
      <4> QED BY <2>1, <4>2 DEF Files!OnTheWay
    <3> QED BY <3>4, <3>5
  <2> QED BY <2>1, <2>3
<1> QED BY <1>1, <1>2, <1>3 DEF Files!UploadsFollow

\* What touches neither the line to the agent nor what it stores keeps the uploads.
LEMMA UploadsUnchanged ==
  ASSUME Files!TypeOK, Files!UploadsFollow, Files!StoredFilesAreWhole,
         UNCHANGED <<up, feeding, receiving, stored>>, why \subseteq why',
         clicks' \in {clicks, clicks + 1}
  PROVE  Files!UploadsFollow' /\ Files!StoredFilesAreWhole'
<1>1. \A t \in Files!Transfer : Files!OnTheWay(t)' = Files!OnTheWay(t) /\ Files!Alone(t)' = Files!Alone(t)
  BY DEF Files!OnTheWay, Files!Alone
<1>2. ASSUME NEW t \in Files!Transfer, t > clicks' PROVE feeding'[t] = <<>>
  <2>1. t \in Nat /\ clicks \in Nat
    BY DEF Files!Transfer, Files!TypeOK
  <2>2. t > clicks
    BY <1>2, <2>1
  <2> QED BY <2>2 DEF Files!UploadsFollow
<1>3. Files!StoredFilesAreWhole'
  BY DEF Files!StoredFilesAreWhole
<1>4. /\ \A t \in Files!Transfer : \A i \in 1..Len(feeding'[t]) : feeding'[t][i].kind = "part"
      /\ \A t, u \in Files!Transfer : why \intersect {"mixed", "unread"} = {} =>
           feeding'[t] = <<>> \/ feeding'[u] = <<>> \/ t = u
  BY DEF Files!UploadsFollow
<1>5. ASSUME why' \intersect {"mixed", "unread"} = {}, NEW t \in Files!Transfer, Files!Alone(t)'
      PROVE  Files!HeadersLead(Files!OnTheWay(t)') /\ Files!RestFollows(Files!OnTheWay(t)', receiving')
  <2>1. why \intersect {"mixed", "unread"} = {}
    BY <1>5
  <2> QED BY <1>1, <1>5, <2>1 DEF Files!UploadsFollow
<1>6. why' \intersect {"mixed", "unread"} = {} => why \intersect {"mixed", "unread"} = {}
  OBVIOUS
<1> QED BY <1>2, <1>3, <1>4, <1>5, <1>6 DEF Files!UploadsFollow

\* A part that is sent comes behind those sent before.
LEMMA FeedUploadsStep ==
  ASSUME Files!TypeOK, Files!UploadsFollow, Files!StoredFilesAreWhole,
         NEW t \in Files!Transfer, Files!Feed(t)
  PROVE  Files!UploadsFollow' /\ Files!StoredFilesAreWhole'
<1> DEFINE S == Files!Messages
           s == feeding[t]
           m == Head(s)
<1>1. /\ s # <<>> /\ feeding' = [feeding EXCEPT ![t] = Tail(s)] /\ Files!Send(m)
      /\ UNCHANGED <<receiving, stored, clicks>>
  BY DEF Files!Feed, Files!agentVars
<1>0. up \in Seq(S) /\ s \in Seq(S) /\ feeding \in [Files!Transfer -> Seq(S)]
  BY DEF Files!TypeOK
<1>2. m.kind = "part" /\ m \in S
  <2>1. Len(s) \in Nat \ {0} /\ m = s[1]
    BY <1>0, <1>1
  <2>2. 1 \in 1..Len(s)
    BY <2>1
  <2> QED BY <1>0, <2>1, <2>2 DEF Files!UploadsFollow
<1>3. why' = why
  BY <1>1, <1>2 DEF Files!Send
<1>4. feeding'[t] = Tail(s) /\ \A u \in Files!Transfer \ {t} : feeding'[u] = feeding[u]
  BY <1>0, <1>1
<1>5. ASSUME NEW u \in Files!Transfer, NEW i \in 1..Len(feeding'[u]) PROVE feeding'[u][i].kind = "part"
  <2>1. CASE u = t
    <3>1. Len(Tail(s)) = Len(s) - 1 /\ Len(s) \in Nat /\ \A j \in 1..Len(Tail(s)) : Tail(s)[j] = s[j + 1]
      <4> HIDE DEF s, m, S
      <4> QED BY <1>0, <1>1
    <3>2. i + 1 \in 1..Len(s) /\ feeding'[u][i] = s[i + 1]
      <4>1. feeding'[u] = Tail(s) /\ i \in 1..Len(feeding'[u])
        BY <1>4, <1>5, <2>1
      <4> HIDE DEF s, m, S
      <4> QED BY <3>1, <4>1
    <3> QED BY <3>2 DEF Files!UploadsFollow
  <2>2. CASE u # t
    BY <1>4, <1>5, <2>2 DEF Files!UploadsFollow
  <2> QED BY <2>1, <2>2
<1>6. ASSUME NEW u \in Files!Transfer, u > clicks' PROVE feeding'[u] = <<>>
  <2>1. feeding[u] = <<>>
    BY <1>1, <1>6 DEF Files!UploadsFollow
  <2> QED BY <1>1, <1>4, <2>1
<1>7. ASSUME why' \intersect {"mixed", "unread"} = {}
      PROVE  /\ \A u, v \in Files!Transfer : feeding'[u] = <<>> \/ feeding'[v] = <<>> \/ u = v
             /\ \A u \in Files!Transfer : Files!Alone(u)' =>
                  Files!HeadersLead(Files!OnTheWay(u)') /\ Files!RestFollows(Files!OnTheWay(u)', receiving')
  <2>1. \A u \in Files!Transfer \ {t} : feeding[u] = <<>> /\ feeding'[u] = <<>>
    BY <1>1, <1>3, <1>4, <1>7 DEF Files!UploadsFollow
  <2>2. Files!HeadersLead(Files!OnTheWay(t)) /\ Files!RestFollows(Files!OnTheWay(t), receiving)
    BY <1>3, <1>7, <2>1 DEF Files!UploadsFollow, Files!Alone
  <2>3. Files!HeadersLead(Files!OnTheWay(t)') /\ Files!RestFollows(Files!OnTheWay(t)', receiving')
    <3>1. CASE "dropped" \in why
      <4>1. up' = <<>> /\ receiving = Files!Nothing
        BY <1>1, <3>1 DEF Files!Send, Files!TypeOK
      <4>2. Files!OnTheWay(t)' = feeding'[t]
        <5>1. Tail(s) \in Seq(S)
          BY <1>0, <1>1
        <5>2. <<>> \o Tail(s) = Tail(s)
          BY <5>1, ConcatEmptySeq
        <5> QED BY <1>4, <4>1, <5>2 DEF Files!OnTheWay
      <4>3. Files!HeadersLead(feeding'[t])
        BY <1>5 DEF Files!HeadersLead
      <4>4. Files!RestFollows(feeding'[t], receiving')
        BY <1>1, <4>1 DEF Files!RestFollows, Files!Nothing
      <4> QED BY <4>2, <4>3, <4>4
    <3>2. CASE "dropped" \notin why
      <4>1. up' = Append(up, m)
        BY <1>1, <3>2 DEF Files!Send
      <4>2. Files!OnTheWay(t)' = Files!OnTheWay(t)
        <5>1. up \in Seq(S) /\ s \in Seq(S) /\ m \in S /\ s # <<>>
          BY <1>0, <1>1, <1>2
        <5> HIDE DEF S
        <5>2. Append(up, m) \in Seq(S) /\ Append(up, m) = up \o <<m>> /\ <<m>> \in Seq(S)
          <6> HIDE DEF m
          <6> QED BY <5>1
        <5>3. Tail(s) \in Seq(S) /\ s = <<m>> \o Tail(s)
          <6> HIDE DEF s
          <6>1. Tail(s) \in Seq(S) /\ s = <<Head(s)>> \o Tail(s)
            BY <5>1
          <6> QED BY <6>1
        <5>4. (up \o <<m>>) \o Tail(s) = up \o (<<m>> \o Tail(s))
          <6> HIDE DEF s, m
          <6> QED BY <5>1, <5>2, <5>3, ConcatAssociative
        <5>5. up' \o feeding'[t] = up \o s
          <6> HIDE DEF s, m
          <6> QED BY <1>4, <4>1, <5>2, <5>3, <5>4
        <5> QED BY <5>5 DEF Files!OnTheWay
      <4> QED BY <1>1, <2>2, <4>2
    <3> QED BY <3>1, <3>2
  <2>4. ASSUME NEW u \in Files!Transfer, Files!Alone(u)' PROVE Files!OnTheWay(u)' = Files!OnTheWay(t)'
    <3>1. feeding'[u] = feeding'[t]
      BY <2>1, <2>4 DEF Files!Alone
    <3> QED BY <3>1 DEF Files!OnTheWay
  <2> QED BY <2>1, <2>3, <2>4
<1>8. Files!StoredFilesAreWhole'
  BY <1>1, <1>3 DEF Files!StoredFilesAreWhole
<1> QED BY <1>5, <1>6, <1>7, <1>8 DEF Files!UploadsFollow

\* An upload begins with its header and parts, and nothing else is fed.
LEMMA UploadUploadsStep ==
  ASSUME Files!FilesAssumption, Files!TypeOK, Files!UploadsFollow, Files!StoredFilesAreWhole,
         NEW n \in 0..MaxSize, Files!Upload(n)
  PROVE  Files!UploadsFollow' /\ Files!StoredFilesAreWhole'
<1> DEFINE h == Files!Msg("upload", "blank", n)
           s == Files!Parts(n)
<1>p. PICK t \in Files!Transfer : t = clicks + 1
  BY DEF Files!Upload, Files!TypeOK, Files!Transfer, Files!FilesAssumption
<1>1. /\ feeding' = [feeding EXCEPT ![t] = s] /\ Files!Send(h) /\ UNCHANGED <<receiving, stored>>
      /\ clicks' = t /\ clicks < MaxClicks
  BY <1>p DEF Files!Upload, Files!agentVars
<1>0. /\ up \in Seq(Files!Messages) /\ feeding \in [Files!Transfer -> Seq(Files!Messages)]
      /\ clicks \in Nat /\ receiving.left \in Nat
  BY <1>1 DEF Files!TypeOK, Files!Nothing
<1>2. h.kind = "upload"
  BY DEF Files!Msg
<1>3. why \subseteq why' /\ ("mixed" \in why' <=> "mixed" \in why \/ Files!Feeding)
      /\ ("unread" \in why' <=> "unread" \in why)
  BY <1>1, <1>2 DEF Files!Send
<1>4. /\ s \in Seq(Files!Messages) /\ Len(s) = n /\ n \in Nat
      /\ \A i \in 1..n : s[i].kind = "part"
  <2>1. n \in Nat
    BY DEF Files!FilesAssumption
  <2>2. Len(s) = n /\ \A i \in 1..n : s[i] = Files!Part(i)
    BY <2>1 DEF Files!Parts
  <2>3. \A i : Files!Part(i).kind = "part"
    BY DEF Files!Part, Files!Msg
  <2> QED BY <2>1, <2>2, <2>3, MessageTypes
<1> HIDE DEF h, s
<1>5. feeding'[t] = s /\ \A u \in Files!Transfer \ {t} : feeding'[u] = feeding[u]
  BY <1>0, <1>1
<1>6. ASSUME NEW u \in Files!Transfer, NEW i \in 1..Len(feeding'[u]) PROVE feeding'[u][i].kind = "part"
  BY <1>4, <1>5, <1>6 DEF Files!UploadsFollow
<1>7. ASSUME NEW u \in Files!Transfer, u > clicks' PROVE feeding'[u] = <<>>
  <2>1. u \in Nat /\ u # t /\ u > clicks
    BY <1>0, <1>1, <1>p, <1>7 DEF Files!Transfer
  <2> QED BY <1>5, <2>1 DEF Files!UploadsFollow
<1>8. ASSUME why' \intersect {"mixed", "unread"} = {}
      PROVE  /\ \A u, v \in Files!Transfer : feeding'[u] = <<>> \/ feeding'[v] = <<>> \/ u = v
             /\ \A u \in Files!Transfer : Files!Alone(u)' =>
                  Files!HeadersLead(Files!OnTheWay(u)') /\ Files!RestFollows(Files!OnTheWay(u)', receiving')
  <2>1. why \intersect {"mixed", "unread"} = {} /\ \A u \in Files!Transfer : feeding[u] = <<>>
    BY <1>3, <1>8 DEF Files!Feeding
  <2>2. \A u \in Files!Transfer \ {t} : feeding'[u] = <<>>
    BY <1>5, <2>1
  <2>3. Files!HeadersLead(Files!OnTheWay(t)') /\ Files!RestFollows(Files!OnTheWay(t)', receiving')
    <3>1. CASE "dropped" \in why
      <4>1. up' = <<>> /\ receiving = Files!Nothing
        BY <1>1, <3>1 DEF Files!Send, Files!TypeOK
      <4>2. Files!OnTheWay(t)' = s
        <5>1. <<>> \o s = s
          BY <1>4, ConcatEmptySeq
        <5> QED BY <1>5, <4>1, <5>1 DEF Files!OnTheWay
      <4>3. Files!HeadersLead(s)
        BY <1>4 DEF Files!HeadersLead
      <4>4. Files!RestFollows(s, receiving')
        BY <1>1, <4>1 DEF Files!RestFollows, Files!Nothing
      <4> QED BY <4>2, <4>3, <4>4
    <3>2. CASE "dropped" \notin why
      <4>1. Files!OnTheWay(t)' = Append(up, h) \o s
        BY <1>1, <1>5, <3>2 DEF Files!Send, Files!OnTheWay
      <4>2. Files!OnTheWay(t) = up /\ Files!Alone(t)
        <5>1. up \o <<>> = up
          BY <1>0, ConcatEmptySeq
        <5> QED BY <1>0, <2>1, <5>1 DEF Files!OnTheWay, Files!Alone
      <4>3. Files!HeadersLead(up) /\ Files!RestFollows(up, receiving)
        BY <1>0, <2>1, <4>2 DEF Files!UploadsFollow
      <4>4. Files!HeadersLead(Append(up, h) \o s) /\ Files!RestFollows(Append(up, h) \o s, receiving)
        BY <1>0, <4>3, UploadBegins DEF h, s
      <4> QED BY <1>1, <4>1, <4>4
    <3> QED BY <3>1, <3>2
  <2>4. ASSUME NEW u \in Files!Transfer, Files!Alone(u)' PROVE Files!OnTheWay(u)' = Files!OnTheWay(t)'
    <3>1. feeding'[u] = feeding'[t]
      BY <1>0, <2>2, <2>4 DEF Files!Alone
    <3> QED BY <3>1 DEF Files!OnTheWay
  <2> QED BY <2>2, <2>3, <2>4
<1>9. Files!StoredFilesAreWhole'
  BY <1>1, <1>3 DEF Files!StoredFilesAreWhole
<1> QED BY <1>6, <1>7, <1>8, <1>9 DEF Files!UploadsFollow

\* Every step of the page keeps the parts of an upload behind their header.
LEMMA PageUploadsStep ==
  ASSUME Files!FilesAssumption, Files!TypeOK, Files!UploadsFollow, Files!StoredFilesAreWhole,
         \/ Files!Refresh \/ Files!TakeMessage \/ Files!TakeTold
         \/ \E t \in Files!Transfer : Files!Feed(t) \/ Files!ReadFails(t)
         \/ \E p \in Files!Path : Files!GoTo(p)
         \/ \E n \in 0..MaxSize : Files!Download(n) \/ Files!Upload(n)
         \/ \E i \in 1..MaxSize + 1 : Files!PartWaited(i)
  PROVE  Files!UploadsFollow' /\ Files!StoredFilesAreWhole'
<1> USE DEF Files!pageVars, Files!agentVars, Files!workerVars
<1>s. ASSUME NEW m \in Files!Messages, Files!Send(m), m.kind \notin {"upload", "part"},
             UNCHANGED <<feeding, receiving, stored>>, clicks' \in {clicks, clicks + 1}
      PROVE  Files!UploadsFollow' /\ Files!StoredFilesAreWhole'
  <2>1. Files!UploadsFollow'
    BY <1>s, SendKeepsUploads
  <2>2. why \subseteq why'
    BY <1>s DEF Files!Send
  <2> QED BY <1>s, <2>1, <2>2 DEF Files!StoredFilesAreWhole
<1>l. ASSUME NEW p \in Files!Path, Files!ShowPath(p), UNCHANGED <<feeding, receiving, stored>>,
             clicks' \in {clicks, clicks + 1}
      PROVE  Files!UploadsFollow' /\ Files!StoredFilesAreWhole'
  <2>1. CASE p # path
    <3>1. Files!Send(Files!List(p)) /\ Files!List(p) \in Files!Messages /\ Files!List(p).kind = "list"
      BY <1>l, <2>1, MessageTypes DEF Files!ShowPath, Files!List, Files!Msg
    <3> QED BY <1>l, <1>s, <3>1
  <2>2. CASE p = path
    BY <1>l, <2>2, UploadsUnchanged DEF Files!ShowPath
  <2> QED BY <2>1, <2>2
<1>1. CASE Files!Refresh
  <2>1. Files!List(path) \in Files!Messages /\ Files!List(path).kind = "list"
    BY MessageTypes DEF Files!TypeOK, Files!List, Files!Msg
  <2> QED BY <1>1, <1>s, <2>1 DEF Files!Refresh
<1>2. ASSUME NEW t \in Files!Transfer, Files!ReadFails(t)
      PROVE  Files!UploadsFollow' /\ Files!StoredFilesAreWhole'
  <2>1. /\ feeding' = [feeding EXCEPT ![t] = <<>>] /\ "unread" \in why'
        /\ UNCHANGED clicks /\ feeding \in [Files!Transfer -> Seq(Files!Messages)]
    BY <1>2 DEF Files!ReadFails, Files!TypeOK
  <2>2. \A u \in Files!Transfer : feeding'[u] = <<>> \/ feeding'[u] = feeding[u]
    BY <2>1
  <2>3. Files!UploadsFollow'
    BY <2>1, <2>2 DEF Files!UploadsFollow
  <2>4. Files!StoredFilesAreWhole'
    BY <2>1 DEF Files!StoredFilesAreWhole
  <2> QED BY <2>3, <2>4
<1>3. CASE Files!TakeMessage
  <2> DEFINE m == Head(down)
  <2>1. m \in Files!Messages /\ UNCHANGED <<feeding, receiving, stored, clicks>>
    BY <1>3 DEF Files!TakeMessage, Files!TypeOK
  <2>2. CASE first /\ m.kind = "list"
    <3>1. Files!ShowPath(m.path) /\ m.path \in Files!Path
      BY <1>3, <2>1, <2>2 DEF Files!TakeMessage, Files!Messages
    <3> QED BY <1>l, <2>1, <3>1
  <2>3. CASE first /\ m.kind = "done"
    <3>1. Files!Send(Files!List("blank")) /\ Files!List("blank") \in Files!Messages /\ Files!List("blank").kind = "list"
      BY <1>3, <2>3, MessageTypes DEF Files!TakeMessage, Files!Path, Files!List, Files!Msg
    <3> QED BY <1>s, <2>1, <3>1
  <2>4. CASE ~(first /\ m.kind \in {"list", "done"})
    <3>1. up' = up /\ why \subseteq why'
      BY <1>3, <2>4 DEF Files!TakeMessage, Files!TakePart
    <3> QED BY <2>1, <3>1, UploadsUnchanged
  <2> QED BY <2>2, <2>3, <2>4
<1>4. CASE Files!TakeTold
  BY <1>4, UploadsUnchanged DEF Files!TakeTold
<1>5. ASSUME NEW p \in Files!Path, Files!GoTo(p) PROVE Files!UploadsFollow' /\ Files!StoredFilesAreWhole'
  BY <1>5, <1>l DEF Files!GoTo
<1>6. ASSUME NEW n \in 0..MaxSize, Files!Download(n) PROVE Files!UploadsFollow' /\ Files!StoredFilesAreWhole'
  <2>1. Files!Msg("download", "blank", n) \in Files!Messages /\ Files!Msg("download", "blank", n).kind = "download"
    BY MessageTypes DEF Files!Msg
  <2> QED BY <1>6, <1>s, <2>1 DEF Files!Download
<1>8. ASSUME NEW i \in 1..MaxSize + 1, Files!PartWaited(i) PROVE Files!UploadsFollow' /\ Files!StoredFilesAreWhole'
  BY <1>8, UploadsUnchanged DEF Files!PartWaited
<1> QED BY <1>1, <1>2, <1>3, <1>4, <1>5, <1>6, <1>8, FeedUploadsStep, UploadUploadsStep

\* What the agent takes is the first of what is under way.
LEMMA TakenFromTheLine ==
  ASSUME Files!TypeOK, NEW t \in Files!Transfer, up # <<>>, up' = Tail(up), UNCHANGED feeding
  PROVE  /\ Files!OnTheWay(t)' = Tail(Files!OnTheWay(t)) /\ Files!OnTheWay(t)[1] = Head(up)
         /\ Files!OnTheWay(t) \in Seq(Files!Messages) /\ Len(Files!OnTheWay(t)) \in Nat \ {0}
<1> DEFINE S == Files!Messages
           s == feeding[t]
           u == Files!OnTheWay(t)
<1>1. up \in Seq(S) /\ s \in Seq(S) /\ up # <<>> /\ u = up \o s /\ Files!OnTheWay(t)' = Tail(up) \o s
  BY DEF Files!OnTheWay, Files!TypeOK
<1> HIDE DEF S, s, u
<1>2. /\ u \in Seq(S) /\ Len(u) = Len(up) + Len(s) /\ Len(up) \in Nat \ {0} /\ Len(s) \in Nat
      /\ \A i \in 1..Len(up) + Len(s) : u[i] = IF i <= Len(up) THEN up[i] ELSE s[i - Len(up)]
  BY <1>1, ConcatProperties, EmptySeq, LenProperties
<1>3. u[1] = Head(up) /\ Len(u) \in Nat \ {0}
  BY <1>1, <1>2
<1>4. Tail(up) \o s = Tail(u)
  <2>1. up = <<Head(up)>> \o Tail(up) /\ <<Head(up)>> \in Seq(S) /\ Tail(up) \in Seq(S)
    BY <1>1
  <2>2. u = <<Head(up)>> \o (Tail(up) \o s)
    BY <1>1, <2>1, ConcatAssociative
  <2>3. Tail(up) \o s \in Seq(S)
    BY <1>1, <2>1
  <2> DEFINE w == Tail(up) \o s
             x == Head(up)
  <2>4. x \in S /\ w \in Seq(S)
    BY <1>1, <2>3
  <2> HIDE DEF w, x
  <2>5. Tail(<<x>> \o w) = w
    BY <2>4
  <2> QED BY <2>2, <2>5 DEF w, x
<1> QED BY <1>1, <1>2, <1>3, <1>4 DEF S, u

\* What the agent takes off the line keeps the uploads when what it then receives is
\* what is left.
LEMMA TakenKeepsUploads ==
  ASSUME Files!TypeOK, Files!UploadsFollow, up # <<>>, up' = Tail(up),
         UNCHANGED <<feeding, clicks>>, why \subseteq why',
         why \intersect {"mixed", "unread"} = {} =>
           \A t \in Files!Transfer :
             Files!Alone(t) => Files!RestFollows(Tail(Files!OnTheWay(t)), receiving')
  PROVE  Files!UploadsFollow'
<1>1. /\ \A t \in Files!Transfer : \A i \in 1..Len(feeding'[t]) : feeding'[t][i].kind = "part"
      /\ \A t \in Files!Transfer : t > clicks' => feeding'[t] = <<>>
  BY DEF Files!UploadsFollow
<1>2. ASSUME why' \intersect {"mixed", "unread"} = {}
      PROVE  /\ \A t, u \in Files!Transfer : feeding'[t] = <<>> \/ feeding'[u] = <<>> \/ t = u
             /\ \A t \in Files!Transfer : Files!Alone(t)' =>
                  Files!HeadersLead(Files!OnTheWay(t)') /\ Files!RestFollows(Files!OnTheWay(t)', receiving')
  <2>1. why \intersect {"mixed", "unread"} = {}
    BY <1>2
  <2>2. ASSUME NEW t \in Files!Transfer, Files!Alone(t)'
        PROVE  Files!HeadersLead(Files!OnTheWay(t)') /\ Files!RestFollows(Files!OnTheWay(t)', receiving')
    <3>1. Files!Alone(t)
      BY <2>2 DEF Files!Alone
    <3>2. Files!HeadersLead(Files!OnTheWay(t)) /\ Files!RestFollows(Tail(Files!OnTheWay(t)), receiving')
      BY <2>1, <3>1 DEF Files!UploadsFollow
    <3>3. Files!OnTheWay(t)' = Tail(Files!OnTheWay(t)) /\ Files!OnTheWay(t) \in Seq(Files!Messages)
          /\ Files!OnTheWay(t) # <<>>
      BY TakenFromTheLine
    <3> QED BY <3>2, <3>3, UploadTail
  <2>3. \A t, u \in Files!Transfer : feeding'[t] = <<>> \/ feeding'[u] = <<>> \/ t = u
    BY <2>1 DEF Files!UploadsFollow
  <2> QED BY <2>2, <2>3
<1> QED BY <1>1, <1>2 DEF Files!UploadsFollow

\* What the agent receives is the next part.
LEMMA ReceiveUploadsStep ==
  ASSUME Files!FilesAssumption, Files!TypeOK, Files!UploadsFollow, Files!StoredFilesAreWhole,
         Files!Receive
  PROVE  Files!UploadsFollow' /\ Files!StoredFilesAreWhole'
<1> DEFINE m == Head(up)
           n == IF m.kind = "part" THEN m.n ELSE 0
           r == [receiving EXCEPT !.left = @ - 1, !.got = IF receiving.own THEN Append(@, n) ELSE @]
           Clean == why \intersect {"mixed", "unread"} = {}
<1>1. /\ receiving # Files!Nothing /\ up # <<>> /\ up' = Tail(up) /\ UNCHANGED <<feeding, clicks>>
      /\ why \subseteq why'
      /\ \/ receiving' = Files!Nothing /\ stored' = IF r.own THEN stored \union {r.got} ELSE stored
         \/ receiving' = r /\ stored' = stored
         \/ receiving' = Files!Nothing /\ stored' = stored
  BY DEF Files!Receive, Files!pageVars
<1>2. receiving.left \in Nat \ {0} /\ receiving.got \in Seq(Nat) /\ receiving.own \in BOOLEAN
      /\ receiving \in [left : 1..MaxSize, got : Seq(Nat), own : BOOLEAN]
  <2> HIDE DEF r, n, m
  <2>1. receiving \in [left : 1..MaxSize, got : Seq(Nat), own : BOOLEAN]
    BY <1>1 DEF Files!TypeOK
  <2>2. receiving.left \in 1..MaxSize
    BY <2>1
  <2> QED BY <2>1, <2>2
<1>3. r.own = receiving.own /\ r.left = receiving.left - 1
      /\ (receiving.own => r.got = Append(receiving.got, n))
  <2> DEFINE g == IF receiving.own THEN Append(receiving.got, n) ELSE receiving.got
  <2>1. r = [receiving EXCEPT !.left = @ - 1, !.got = g]
    OBVIOUS
  <2> HIDE DEF n, g
  <2>2. r.own = receiving.own /\ r.left = receiving.left - 1 /\ r.got = g
    BY <1>2, <2>1
  <2> QED BY <2>2 DEF g
<1> HIDE DEF r
<1>4. ASSUME Clean, receiving.own, NEW t \in Files!Transfer, Files!Alone(t)
      PROVE  Files!Whole(r.got) /\ Files!RestFollows(Tail(Files!OnTheWay(t)), r)
  <2> DEFINE u == Files!OnTheWay(t)
  <2>1. u[1] = m /\ u \in Seq(Files!Messages) /\ Len(u) \in Nat \ {0}
    BY <1>1, TakenFromTheLine
  <2>2. Files!Whole(receiving.got)
        /\ \A k \in 1..receiving.left : k <= Len(u) /\ u[k] = Files!Part(Len(receiving.got) + k)
    BY <1>4 DEF Files!UploadsFollow, Files!RestFollows
  <2>3. m = Files!Part(Len(receiving.got) + 1)
    <3>1. 1 \in 1..receiving.left
      BY <1>2
    <3> QED BY <2>1, <2>2, <3>1
  <2>4. n = Len(receiving.got) + 1
    BY <2>3 DEF Files!Part, Files!Msg
  <2>5. r.got = Append(receiving.got, Len(receiving.got) + 1) /\ r.left = receiving.left - 1
    BY <1>3, <1>4, <2>4
  <2> HIDE DEF n, m
  <2>6. Len(r.got) = Len(receiving.got) + 1 /\ Len(receiving.got) \in Nat
    BY <1>2, <2>5
  <2>7. Files!Whole(r.got)
    BY <1>2, <2>2, <2>5, WholeAppend
  <2>8. ASSUME NEW k \in 1..r.left PROVE k <= Len(Tail(u)) /\ Tail(u)[k] = Files!Part(Len(r.got) + k)
    <3>1. k + 1 \in 1..receiving.left /\ k \in Nat \ {0}
      BY <1>2, <2>5
    <3> DEFINE a == Len(receiving.got)
               b == Len(r.got)
    <3>2. k + 1 <= Len(u) /\ u[k + 1] = Files!Part(a + (k + 1))
      BY <2>2, <3>1
    <3>3. a \in Nat /\ b = a + 1
      BY <2>6
    <3> HIDE DEF a, b, u
    <3>4. Len(Tail(u)) = Len(u) - 1 /\ \A i \in 1..Len(Tail(u)) : Tail(u)[i] = u[i + 1]
      BY <2>1
    <3>5. k \in 1..Len(Tail(u))
      BY <2>1, <3>1, <3>2, <3>4
    <3>6. a + (k + 1) = b + k
      BY <3>1, <3>3
    <3>7. k <= Len(Tail(u)) /\ Tail(u)[k] = Files!Part(b + k)
      BY <3>2, <3>4, <3>5, <3>6
    <3> QED BY <3>7 DEF b
  <2> QED BY <2>7, <2>8 DEF Files!RestFollows
<1>5. Clean => \E t \in Files!Transfer : Files!Alone(t)
  <2>1. CASE \E t \in Files!Transfer : feeding[t] # <<>>
    <3>1. PICK t \in Files!Transfer : feeding[t] # <<>>
      BY <2>1
    <3> QED BY <3>1 DEF Files!UploadsFollow, Files!Alone
  <2>2. CASE \A t \in Files!Transfer : feeding[t] = <<>>
    <3>1. 1 \in Files!Transfer
      BY DEF Files!Transfer, Files!FilesAssumption
    <3> QED BY <2>2, <3>1 DEF Files!Alone
  <2> QED BY <2>1, <2>2
<1>6. Files!StoredFilesAreWhole'
  <2>1. Clean /\ r.own => Files!Whole(r.got)
    BY <1>3, <1>4, <1>5
  <2> QED BY <1>1, <2>1 DEF Files!StoredFilesAreWhole
<1>7. ASSUME Clean, NEW t \in Files!Transfer, Files!Alone(t)
      PROVE  Files!RestFollows(Tail(Files!OnTheWay(t)), receiving')
  <2>1. CASE receiving' = Files!Nothing
    BY <2>1 DEF Files!RestFollows, Files!Nothing
  <2>2. CASE receiving' = r /\ receiving.own
    BY <1>4, <1>7, <2>2
  <2>3. CASE receiving' = r /\ ~receiving.own
    BY <1>3, <2>3 DEF Files!RestFollows
  <2> QED BY <1>1, <2>1, <2>2, <2>3
<1>8. Files!UploadsFollow'
  BY <1>1, <1>7, TakenKeepsUploads
<1> QED BY <1>6, <1>8

\* What the agent takes for an upload's header has its parts behind it, if it is one.
LEMMA TakesUploadsStep ==
  ASSUME Files!FilesAssumption, Files!TypeOK, Files!UploadsFollow, Files!StoredFilesAreWhole,
         Files!AgentTakes
  PROVE  Files!UploadsFollow' /\ Files!StoredFilesAreWhole'
<1> DEFINE m == Head(up)
           Clean == why \intersect {"mixed", "unread"} = {}
<1>1. /\ receiving = Files!Nothing /\ up # <<>> /\ up' = Tail(up) /\ UNCHANGED <<feeding, clicks, why>>
      /\ \/ receiving' = receiving
         \/ \E n \in Files!Asks(m, "upload") \ {0} :
              receiving' = [left |-> n, got |-> <<>>, own |-> m.kind = "upload"]
      /\ stored' \in {stored, stored \union {<<>>}}
  BY DEF Files!AgentTakes, Files!pageVars, Files!agentVars
<1>2. m \in Files!Messages
  BY <1>1 DEF Files!TypeOK
<1>3. Files!Whole(<<>>)
  <2>1. <<>> = [i \in 1..Len(<<>>) |-> i]
    OBVIOUS
  <2> QED BY <2>1 DEF Files!Whole
<1>4. Files!StoredFilesAreWhole'
  BY <1>1, <1>3 DEF Files!StoredFilesAreWhole
<1>5. ASSUME Clean, NEW t \in Files!Transfer, Files!Alone(t)
      PROVE  Files!RestFollows(Tail(Files!OnTheWay(t)), receiving')
  <2> DEFINE u == Files!OnTheWay(t)
  <2>1. CASE receiving' = receiving
    BY <1>1, <2>1 DEF Files!RestFollows, Files!Nothing
  <2>2. ASSUME NEW n \in Files!Asks(m, "upload") \ {0},
               receiving' = [left |-> n, got |-> <<>>, own |-> m.kind = "upload"]
        PROVE  Files!RestFollows(Tail(u), receiving')
    <3>1. CASE m.kind # "upload"
      BY <2>2, <3>1 DEF Files!RestFollows
    <3>2. CASE m.kind = "upload"
      <4>1. n = m.n /\ m.n \in Nat
        BY <1>2, <2>2, <3>2 DEF Files!Asks, Files!Messages
      <4>2. receiving'.left = n /\ receiving'.got = <<>>
        BY <2>2
      <4>3. u[1] = m /\ u \in Seq(Files!Messages) /\ Len(u) \in Nat \ {0}
        BY <1>1, TakenFromTheLine
      <4>4. \A k \in 1..n : 1 + k <= Len(u) /\ u[1 + k] = Files!Part(k)
        <5>1. Files!HeadersLead(u) /\ 1 \in 1..Len(u) /\ u[1] = m
          BY <1>5, <4>3 DEF Files!UploadsFollow
        <5> HIDE DEF u, m
        <5> QED BY <3>2, <4>1, <5>1 DEF Files!HeadersLead
      <4>5. ASSUME NEW k \in 1..n PROVE k <= Len(Tail(u)) /\ Tail(u)[k] = Files!Part(0 + k)
        <5>1. k \in Nat \ {0} /\ 1 + k <= Len(u) /\ u[1 + k] = Files!Part(k)
          BY <4>1, <4>4
        <5> HIDE DEF u, m
        <5>2. Len(Tail(u)) = Len(u) - 1 /\ \A i \in 1..Len(Tail(u)) : Tail(u)[i] = u[i + 1]
          BY <4>3
        <5>3. k \in 1..Len(Tail(u)) /\ k + 1 = 1 + k /\ 0 + k = k
          BY <4>3, <5>1, <5>2
        <5> QED BY <5>1, <5>2, <5>3
      <4>6. Len(receiving'.got) = 0
        BY <4>2
      <4> HIDE DEF u, m
      <4> QED BY <1>3, <4>2, <4>5, <4>6 DEF Files!RestFollows
    <3> QED BY <3>1, <3>2
  <2> QED BY <1>1, <2>1, <2>2
<1>6. Files!UploadsFollow'
  BY <1>1, <1>5, TakenKeepsUploads
<1> QED BY <1>4, <1>6

\* So does every step of the worker and of the agent.
LEMMA PeerUploadsStep ==
  ASSUME Files!FilesAssumption, Files!TypeOK, Files!UploadsFollow, Files!StoredFilesAreWhole,
         \/ Files!Work \/ Files!WorkFails \/ Files!Opened \/ Files!OpenFails
         \/ Files!Receive \/ Files!AgentTakes \/ Files!Drop
         \/ \E t \in Files!Transfer : Files!TaskSends(t)
         \/ UNCHANGED filesVars
  PROVE  Files!UploadsFollow' /\ Files!StoredFilesAreWhole'
<1> USE DEF Files!pageVars, Files!agentVars, Files!workerVars
<1>1. CASE Files!Work
  BY <1>1, UploadsUnchanged DEF Files!Work
<1>2. CASE Files!WorkFails
  BY <1>2, UploadsUnchanged DEF Files!WorkFails
<1>3. CASE Files!Opened
  BY <1>3, UploadsUnchanged DEF Files!Opened
<1>4. CASE Files!OpenFails
  BY <1>4, UploadsUnchanged DEF Files!OpenFails
<1>5. ASSUME NEW t \in Files!Transfer, Files!TaskSends(t) PROVE Files!UploadsFollow' /\ Files!StoredFilesAreWhole'
  BY <1>5, UploadsUnchanged DEF Files!TaskSends
<1>6. CASE Files!Drop
  <2>1. up' = <<>> /\ receiving' = Files!Nothing /\ why \subseteq why' /\ UNCHANGED <<feeding, stored, clicks>>
    BY <1>6 DEF Files!Drop
  <2>2. ASSUME NEW t \in Files!Transfer
        PROVE  Files!HeadersLead(Files!OnTheWay(t)') /\ Files!RestFollows(Files!OnTheWay(t)', receiving')
    <3>1. Files!OnTheWay(t)' = feeding[t]
      <4>1. feeding[t] \in Seq(Files!Messages)
        BY DEF Files!TypeOK
      <4>2. <<>> \o feeding[t] = feeding[t]
        BY <4>1, ConcatEmptySeq
      <4> QED BY <2>1, <4>2 DEF Files!OnTheWay
    <3> QED BY <2>1, <3>1 DEF Files!UploadsFollow, Files!HeadersLead, Files!RestFollows, Files!Nothing
  <2>3. /\ \A t \in Files!Transfer : \A i \in 1..Len(feeding'[t]) : feeding'[t][i].kind = "part"
        /\ \A t \in Files!Transfer : t > clicks' => feeding'[t] = <<>>
        /\ \A t, u \in Files!Transfer : why \intersect {"mixed", "unread"} = {} =>
             feeding'[t] = <<>> \/ feeding'[u] = <<>> \/ t = u
    BY <2>1 DEF Files!UploadsFollow
  <2>4. why' \intersect {"mixed", "unread"} = {} => why \intersect {"mixed", "unread"} = {}
    BY <2>1
  <2> QED BY <2>1, <2>2, <2>3, <2>4 DEF Files!UploadsFollow, Files!StoredFilesAreWhole
<1>7. CASE UNCHANGED filesVars
  BY <1>7, UploadsUnchanged DEF filesVars
<1> QED BY <1>1, <1>2, <1>3, <1>4, <1>5, <1>6, <1>7, ReceiveUploadsStep, TakesUploadsStep

-----------------------------------------------------------------------------
(* FileManager: what the page is owed *)

\* Of numbers that are some, one is the least.
LEMMA LeastOf ==
  ASSUME NEW T, T \subseteq Nat, T # {}
  PROVE  \E x \in T : \A y \in T : x <= y
<1> DEFINE R == OpToRel(<, Nat)
<1>1. IsWellFoundedOn(R, Nat)
  BY NatLessThanWellFounded
<1>2. \A x, y \in Nat : x < y => <<x, y>> \in R
  BY DEF OpToRel
<1> HIDE DEF R
<1>3. PICK x \in T : \A y \in T : <<y, x>> \notin R
  BY <1>1, WFMin
<1>4. ASSUME NEW y \in T PROVE x <= y
  <2>1. x \in Nat /\ y \in Nat /\ ~(y < x)
    BY <1>2, <1>3
  <2> QED BY <2>1
<1> QED BY <1>4

\* A set that has 0, and the successor of each of its numbers below n, has them up to n.
LEMMA NumbersUpTo ==
  ASSUME NEW n \in Nat, NEW T, 0 \in T, \A i \in 1..n : i - 1 \in T => i \in T
  PROVE  \A i \in 0..n : i \in T
<1> DEFINE Bad == {i \in 0..n : i \notin T}
<1>1. SUFFICES ASSUME Bad # {} PROVE FALSE
  OBVIOUS
<1>2. Bad \subseteq Nat
  OBVIOUS
<1> HIDE DEF Bad
<1>3. PICK m \in Bad : \A i \in Bad : m <= i
  BY <1>1, <1>2, LeastOf
<1>4. m \in 0..n /\ m \notin T
  BY DEF Bad
<1>5. m \in 1..n /\ m - 1 \in 0..n /\ ~(m <= m - 1)
  <2>1. m # 0
    BY <1>4
  <2> QED BY <1>4, <2>1
<1>6. m - 1 \notin Bad
  BY <1>3, <1>5
<1>7. m - 1 \in T
  BY <1>5, <1>6 DEF Bad
<1> QED BY <1>4, <1>5, <1>7

\* Each debt follows from the one before.
LEMMA DebtsSteps ==
  ASSUME NEW S, NEW s \in Seq(S), NEW start
  PROVE  /\ Files!Debts(start, s)[0] = start
         /\ \A i \in 1..Len(s) : Files!Debts(start, s)[i] = Files!After(Files!Debts(start, s)[i - 1], s[i])
<1> DEFINE Of(F, i) == IF i = 0 THEN start ELSE Files!After(F[i - 1], s[i])
           T == {n \in Nat : \E F : F = [i \in 0..n |-> Of(F, i)]}
<1>1. Len(s) \in Nat
  OBVIOUS
<1>2. 0 \in T
  <2> DEFINE F == [i \in 0..0 |-> start]
  <2>1. F = [i \in 0..0 |-> Of(F, i)]
    OBVIOUS
  <2> QED BY <2>1
<1>3. ASSUME NEW n \in 1..Len(s), n - 1 \in T PROVE n \in T
  <2>1. PICK F : F = [i \in 0..n - 1 |-> Of(F, i)]
    BY <1>3
  <2> DEFINE G == [i \in 0..n |-> IF i = n THEN Of(F, n) ELSE F[i]]
  <2>2. ASSUME NEW i \in 0..n PROVE G[i] = Of(G, i)
    <3>1. CASE i = 0
      <4>1. i # n /\ i \in 0..n - 1
        BY <3>1
      <4> QED BY <2>1, <3>1, <4>1
    <3>2. CASE i # 0 /\ i # n
      <4>1. i \in 0..n - 1 /\ i - 1 \in 0..n - 1 /\ i - 1 \in 0..n /\ i - 1 # n
        BY <3>2
      <4>2. G[i] = F[i] /\ G[i - 1] = F[i - 1] /\ F[i] = Of(F, i)
        BY <2>1, <3>2, <4>1
      <4> QED BY <3>2, <4>2
    <3>3. CASE i = n
      <4>1. n - 1 \in 0..n /\ n - 1 # n /\ n # 0 /\ n \in 0..n
        OBVIOUS
      <4>2. G[n] = Of(F, n) /\ G[n - 1] = F[n - 1]
        BY <4>1
      <4> QED BY <3>3, <4>1, <4>2
    <3> QED BY <3>1, <3>2, <3>3
  <2>3. G = [i \in 0..n |-> Of(G, i)]
    <3> DEFINE H == [i \in 0..n |-> Of(G, i)]
    <3>1. \A i \in 0..n : G[i] = H[i]
      BY <2>2
    <3> QED BY <3>1
  <2>4. \E K : K = [i \in 0..n |-> Of(K, i)]
    <3> HIDE DEF G
    <3> QED BY <2>3
  <2>5. n \in Nat
    BY <1>1
  <2> QED BY <2>4, <2>5
<1>4. Len(s) \in T
  <2> HIDE DEF T
  <2>1. \A i \in 0..Len(s) : i \in T
    BY <1>1, <1>2, <1>3, NumbersUpTo
  <2>2. Len(s) \in 0..Len(s)
    BY <1>1
  <2> QED BY <2>1, <2>2
<1> DEFINE U == CHOOSE F : F = [i \in 0..Len(s) |-> Of(F, i)]
<1>5. U = [i \in 0..Len(s) |-> Of(U, i)]
  BY <1>4
<1>6. Files!Debts(start, s) = U
  BY DEF Files!Debts
<1> HIDE DEF U
<1>7. U[0] = start
  <2>1. 0 \in 0..Len(s)
    BY <1>1
  <2> QED BY <1>5, <2>1
<1>8. ASSUME NEW i \in 1..Len(s) PROVE U[i] = Files!After(U[i - 1], s[i])
  <2>1. i \in 0..Len(s) /\ i # 0
    BY <1>1
  <2> QED BY <1>5, <2>1
<1> QED BY <1>6, <1>7, <1>8

Debt == [n : Nat, of : Nat]

\* What is owed after a message is a debt.
LEMMA AfterType ==
  ASSUME NEW e \in Debt, NEW m \in Files!Messages
  PROVE  Files!After(e, m) \in Debt
<1>1. m.n \in Nat
  BY DEF Files!Messages
<1>2. Files!Idle \in Debt /\ Files!Lost \in Debt /\ [n |-> 0, of |-> m.n] \in Debt
  BY <1>1 DEF Files!Idle, Files!Lost, Debt
<1>3. [e EXCEPT !.n = @ + 1] \in Debt
  BY DEF Debt
<1> QED BY <1>2, <1>3 DEF Files!After

\* So is what is owed at every place of a line.
LEMMA DebtsTypes ==
  ASSUME NEW s \in Seq(Files!Messages), NEW start \in Debt
  PROVE  \A i \in 0..Len(s) : Files!Debts(start, s)[i] \in Debt
<1> DEFINE debt == Files!Debts(start, s)
           T == {i \in Nat : debt[i] \in Debt}
<1>1. Len(s) \in Nat /\ \A i \in 1..Len(s) : s[i] \in Files!Messages
  OBVIOUS
<1>2. debt[0] = start /\ \A i \in 1..Len(s) : debt[i] = Files!After(debt[i - 1], s[i])
  BY DebtsSteps
<1> HIDE DEF debt
<1>3. 0 \in T
  BY <1>2
<1>4. ASSUME NEW i \in 1..Len(s), i - 1 \in T PROVE i \in T
  BY <1>1, <1>2, <1>4, AfterType
<1>5. \A i \in 0..Len(s) : i \in T
  <2> HIDE DEF T
  <2> QED BY <1>1, <1>3, <1>4, NumbersUpTo
<1> QED BY <1>5 DEF debt

\* Whatever follows from one debt to the next is the debts.
LEMMA DebtsAre ==
  ASSUME NEW S, NEW s \in Seq(S), NEW start, NEW f, f[0] = start,
         \A i \in 1..Len(s) : f[i] = Files!After(f[i - 1], s[i])
  PROVE  \A i \in 0..Len(s) : f[i] = Files!Debts(start, s)[i]
<1> DEFINE debt == Files!Debts(start, s)
           T == {i \in Nat : f[i] = debt[i]}
<1>1. Len(s) \in Nat
  OBVIOUS
<1>2. debt[0] = start /\ \A i \in 1..Len(s) : debt[i] = Files!After(debt[i - 1], s[i])
  BY DebtsSteps
<1> HIDE DEF debt
<1>3. 0 \in T
  BY <1>2
<1>4. ASSUME NEW i \in 1..Len(s), i - 1 \in T PROVE i \in T
  BY <1>1, <1>2, <1>4
<1>5. \A i \in 0..Len(s) : i \in T
  <2> HIDE DEF T
  <2> QED BY <1>1, <1>3, <1>4, NumbersUpTo
<1> QED BY <1>5 DEF debt

\* A message at the end of a line leaves what was owed before it.
LEMMA DebtsAppend ==
  ASSUME NEW S, NEW s \in Seq(S), NEW m \in S, NEW start
  PROVE  /\ \A i \in 0..Len(s) : Files!Debts(start, Append(s, m))[i] = Files!Debts(start, s)[i]
         /\ Files!Debts(start, Append(s, m))[Len(s) + 1] = Files!After(Files!Debts(start, s)[Len(s)], m)
<1> DEFINE w == Append(s, m)
           f == Files!Debts(start, w)
<1>1. /\ w \in Seq(S) /\ Len(w) = Len(s) + 1 /\ Len(s) \in Nat /\ w[Len(s) + 1] = m
      /\ \A i \in 1..Len(s) : w[i] = s[i]
  BY LineAppend
<1> HIDE DEF w
<1>2. f[0] = start /\ \A i \in 1..Len(w) : f[i] = Files!After(f[i - 1], w[i])
  BY <1>1, DebtsSteps
<1> HIDE DEF f
<1>3. \A i \in 1..Len(s) : f[i] = Files!After(f[i - 1], s[i])
  <2>1. \A i \in 1..Len(s) : i \in 1..Len(w)
    BY <1>1
  <2> QED BY <1>1, <1>2, <2>1
<1>4. \A i \in 0..Len(s) : f[i] = Files!Debts(start, s)[i]
  <2>1. f[0] = start
    BY <1>2
  <2> QED BY <1>3, <2>1, DebtsAre
<1>5. f[Len(s) + 1] = Files!After(f[Len(s)], m)
  <2>1. Len(s) + 1 \in 1..Len(w) /\ (Len(s) + 1) - 1 = Len(s)
    BY <1>1
  <2> QED BY <1>1, <1>2, <2>1
<1>6. Len(s) \in 0..Len(s)
  BY <1>1
<1> QED BY <1>4, <1>5, <1>6 DEF w, f

\* To take the first message is to owe what is owed after it.
LEMMA DebtsTail ==
  ASSUME NEW S, NEW s \in Seq(S), s # <<>>, NEW start
  PROVE  \A i \in 0..Len(s) - 1 :
           Files!Debts(Files!After(start, Head(s)), Tail(s))[i] = Files!Debts(start, s)[i + 1]
<1> DEFINE w == Tail(s)
           debt == Files!Debts(start, s)
           f == [i \in 0..Len(s) - 1 |-> debt[i + 1]]
<1>1. /\ w \in Seq(S) /\ Len(w) = Len(s) - 1 /\ Len(s) \in Nat \ {0} /\ Head(s) = s[1]
      /\ \A i \in 1..Len(w) : w[i] = s[i + 1]
  OBVIOUS
<1>2. debt[0] = start /\ \A i \in 1..Len(s) : debt[i] = Files!After(debt[i - 1], s[i])
  BY DebtsSteps
<1> HIDE DEF debt, w
<1>3. f[0] = Files!After(start, Head(s))
  <2>1. 0 \in 0..Len(s) - 1 /\ 1 \in 1..Len(s) /\ 0 + 1 = 1 /\ 1 - 1 = 0
    BY <1>1
  <2>2. f[0] = debt[1] /\ debt[1] = Files!After(debt[0], s[1])
    BY <1>2, <2>1
  <2> QED BY <1>1, <1>2, <2>2
<1>4. ASSUME NEW i \in 1..Len(w) PROVE f[i] = Files!After(f[i - 1], w[i])
  <2>1. i \in 0..Len(s) - 1 /\ i - 1 \in 0..Len(s) - 1 /\ i + 1 \in 1..Len(s) /\ (i + 1) - 1 = i /\ (i - 1) + 1 = i
    BY <1>1
  <2>2. f[i] = debt[i + 1] /\ f[i - 1] = debt[i]
    BY <2>1
  <2>3. debt[i + 1] = Files!After(debt[i], s[i + 1])
    BY <1>2, <2>1
  <2> QED BY <1>1, <2>2, <2>3
<1> HIDE DEF f
<1>5. \A i \in 0..Len(w) : f[i] = Files!Debts(Files!After(start, Head(s)), w)[i]
  BY <1>1, <1>3, <1>4, DebtsAre
<1>6. \A i \in 0..Len(s) - 1 : f[i] = debt[i + 1]
  BY DEF f
<1> QED BY <1>1, <1>5, <1>6 DEF w, debt

-----------------------------------------------------------------------------
(* FileManager: the page and the worker take turns *)

\* The next part on its way is the next one of the file.
LEMMA NextPart ==
  ASSUME Files!FilesIInv, down # <<>>, down[1].kind = "part", {"foreign", "empty"} \intersect why = {}
  PROVE  /\ Files!Taken < Files!Count /\ down[1] = Files!Part(Files!Taken + 1)
         /\ Files!Owed = [n |-> Files!Taken, of |-> Files!Count]
<1>1. Files!PartsFollow(down, Files!Debts(Files!Owed, down)) /\ down \in Seq(Files!Messages)
  BY DEF Files!FilesIInv, Files!DownloadsFollow, Files!TypeOK
<1>2. Files!Debts(Files!Owed, down)[0] = Files!Owed
  BY <1>1, DebtsSteps
<1>3. 1 \in 1..Len(down) /\ 1 - 1 = 0
  BY <1>1
<1>4. Files!Owed # Files!Lost => Files!Owing(Files!Owed) /\ down[1] = Files!Part(Files!Owed.n + 1)
  BY <1>1, <1>2, <1>3 DEF Files!PartsFollow
<1>5. Files!Owed = Files!Idle \/ (Files!Taken < Files!Count /\ Files!Owed = [n |-> Files!Taken, of |-> Files!Count])
  BY DEF Files!Owed
<1>6. Files!Idle # Files!Lost /\ ~Files!Owing(Files!Idle)
  <2>1. Files!Idle.n = 0 /\ Files!Lost.n = 1 /\ Files!Idle.of = 0
    BY DEF Files!Idle, Files!Lost
  <2> QED BY <2>1 DEF Files!Owing
<1>7. CASE Files!Owed = Files!Idle
  BY <1>4, <1>6, <1>7
<1>8. CASE Files!Taken < Files!Count /\ Files!Owed = [n |-> Files!Taken, of |-> Files!Count]
  <2>1. Files!Owed.n = Files!Taken /\ Files!Owed.of = Files!Count
    BY <1>8
  <2>2. Files!Owed # Files!Lost
    <3>1. Files!Lost.n = 1 /\ Files!Lost.of = 0 /\ ~(1 < 0)
      BY DEF Files!Lost
    <3> QED BY <1>8, <2>1, <3>1
  <2> QED BY <1>4, <1>8, <2>1, <2>2
<1> QED BY <1>5, <1>7, <1>8

\* The worker is through with so many parts.
LEMMA PassedType ==
  ASSUME Files!TypeOK
  PROVE  /\ Files!Passed \in Nat /\ Len(file.got) \in Nat /\ file.missed \in Nat
         /\ Files!Passed = Len(file.got) + file.missed
         /\ file' = file => Files!Passed' = Files!Passed
<1>1. file.got \in Seq(Nat) /\ file.missed \in Nat
  BY DEF Files!TypeOK
<1>2. Len(file.got) \in Nat
  BY <1>1
<1> QED BY <1>1, <1>2 DEF Files!Passed

\* What does not touch the file leaves the turns as they are.
LEMMA TurnsUnchanged ==
  ASSUME Files!InTurn, Files!SavedFilesAreWhole,
         UNCHANGED <<first, ready, waiting, work, file, told, saved>>,
         why \subseteq why', why' \subseteq why \union {"crossed", "mixed", "failed", "dropped", "unread", "swallowed"}
  PROVE  Files!InTurn' /\ Files!SavedFilesAreWhole' /\ Files!Owed' = Files!Owed
<1>1. /\ Files!Count' = Files!Count /\ Files!InWork' = Files!InWork
      /\ Files!HasFile' = Files!HasFile /\ Files!Turns' = Files!Turns
  BY DEF Files!Count, Files!InWork, Files!HasFile, Files!Turns, Files!NoFile, Files!HasHeader,
         Files!TakesHandle, Files!Writes, Files!IsBroken, Files!Passed
<1>2. Files!Taken' = Files!Taken /\ Files!InOrder' = Files!InOrder
  BY <1>1 DEF Files!Taken, Files!InOrder, Files!Passed
<1>3. Files!Owed' = Files!Owed
  BY <1>1, <1>2 DEF Files!Owed
<1>4. Files!InTurn'
  BY <1>1, <1>2 DEF Files!InTurn
<1>5. Files!SavedFilesAreWhole'
  BY DEF Files!SavedFilesAreWhole
<1> QED BY <1>3, <1>4, <1>5

\* A part that comes.
LEMMA TurnsPart ==
  ASSUME Files!FilesIInv, down # <<>>, ~first, NEW m, m = down[1], m.kind # "error",
         Files!TakePart(m), UNCHANGED <<first, ready, file, told, saved>>
  PROVE  /\ Files!InTurn' /\ Files!SavedFilesAreWhole'
         /\ {"foreign", "empty"} \intersect why' = {} => Files!Owed' = Files!After(Files!Owed, m)
<1> DEFINE S == Files!Messages
<1>1. Files!SavedFilesAreWhole'
  BY DEF Files!TakePart, Files!SavedFilesAreWhole, Files!FilesIInv
<1>2. CASE "foreign" \in why'
  BY <1>1, <1>2 DEF Files!InTurn
<1>3. CASE "foreign" \notin why'
  <2>1. /\ m.kind = "part" /\ "foreign" \notin why /\ ("empty" \in why' <=> "empty" \in why)
        /\ ("overtaken" \notin why' => "overtaken" \notin why /\ (ready => waiting = <<>>))
    BY <1>3 DEF Files!TakePart
  <2>2. /\ m \in S /\ work \in Seq(S) /\ waiting \in Seq(S) /\ file.got \in Seq(Nat)
        /\ file.expects \in Nat /\ ready \in BOOLEAN
        /\ Files!Passed \in Nat /\ Files!Passed' = Files!Passed
    BY PassedType DEF Files!FilesIInv, Files!TypeOK, Files!FilesAssumption
  <2>3. Files!Turns /\ ("empty" \in why <=> ~Files!HasFile /\ Files!Count = 0)
    BY <2>1 DEF Files!FilesIInv, Files!InTurn
  <2>4. "empty" \notin why => /\ Files!Taken < Files!Count /\ m = Files!Part(Files!Taken + 1)
                              /\ Files!Owed = [n |-> Files!Taken, of |-> Files!Count]
    BY <2>1, NextPart
  <2>5. ~Files!HasFile
    <3>1. Files!HasFile => Files!Count = 0 /\ Files!Taken = 0
      <4> SUFFICES ASSUME Files!HasFile PROVE Files!Count = 0 /\ Files!Taken = 0
        OBVIOUS
      <4>1. file = Files!Closed /\ work = <<>> /\ waiting = <<>>
        BY DEF Files!HasFile
      <4>2. file.expects = 0 /\ Len(file.got) = 0 /\ file.missed = 0
        BY <4>1 DEF Files!Closed
      <4> QED BY <4>1, <4>2 DEF Files!Count, Files!Taken, Files!InWork, Files!Passed
    <3> QED BY <2>3, <2>4, <3>1
  <2>6. /\ Len(Append(work, m)) = Len(work) + 1 /\ Len(work) \in Nat /\ Len(Append(waiting, m)) = Len(waiting) + 1
        /\ Len(waiting) \in Nat /\ Files!Passed \in Nat
        /\ Append(work, m)[Len(work) + 1] = m /\ Append(waiting, m)[Len(waiting) + 1] = m
        /\ \A i \in 1..Len(work) : Append(work, m)[i] = work[i]
        /\ \A i \in 1..Len(waiting) : Append(waiting, m)[i] = waiting[i]
    <3> HIDE DEF S
    <3> QED BY <2>2, LineAppend
  <2>l. Files!Passed \in Nat /\ Len(work) \in Nat /\ Len(waiting) \in Nat
    BY <2>6
  <2>7. /\ Files!Turns' /\ ~Files!HasFile' /\ Files!Count' = Files!Count /\ Files!Taken' = Files!Taken + 1
        /\ Files!Taken \in Nat
        /\ "empty" \notin why' /\ "overtaken" \notin why' => Files!InOrder'
    <3>1. CASE ready
      <4>0. ~Files!IsBroken
        <5> SUFFICES ASSUME Files!IsBroken PROVE FALSE
          OBVIOUS
        <5>1. file # Files!Closed /\ file.expects > 0 /\ Files!Passed >= file.expects /\ work = <<>>
          BY <3>1 DEF Files!IsBroken, Files!Closed
        <5>2. Files!Count = file.expects /\ Files!InWork = work /\ Len(work) = 0
          BY <5>1 DEF Files!Count, Files!InWork
        <5>3. Files!Taken = Files!Passed + 0 + Len(waiting)
          BY <5>2 DEF Files!Taken
        <5>4. Files!Taken < file.expects
          BY <2>2, <2>3, <2>4, <5>1, <5>2
        <5> QED BY <2>2, <2>l, <5>1, <5>3, <5>4
      <4>1. Files!Writes /\ work' = Append(work, m) /\ waiting' = waiting
        BY <2>3, <2>5, <3>1, <4>0 DEF Files!Turns, Files!NoFile, Files!HasHeader, Files!TakesHandle, Files!TakePart
      <4>2. file # Files!Closed /\ file' # Files!Closed
        BY <4>1 DEF Files!Writes, Files!Closed
      <4>3. Files!Writes' /\ ~Files!HasFile' /\ Files!Count' = Files!Count /\ Files!InWork = work /\ Files!InWork' = work'
        BY <4>1, <4>2 DEF Files!Writes, Files!HasFile, Files!Count, Files!InWork
      <4>4. /\ Files!Taken = Files!Passed + Len(work) + Len(waiting) /\ Files!Taken' = Files!Passed + Len(work') + Len(waiting)
        BY <2>2, <4>1, <4>3 DEF Files!Taken
      <4>5. Files!Taken' = Files!Taken + 1 /\ Files!Taken \in Nat
        <5>1. Len(work') = Len(work) + 1
          BY <2>6, <4>1
        <5> DEFINE g == Files!Passed
                   w == Len(work)
                   x == Len(waiting)
                   t == Files!Taken
                   u == Files!Taken'
        <5>2. g \in Nat /\ w \in Nat /\ x \in Nat /\ t = g + w + x /\ u = g + (w + 1) + x
          BY <2>l, <4>1, <4>3, <4>4, <5>1
        <5> HIDE DEF g, w, x, t, u
        <5>3. u = t + 1 /\ t \in Nat
          BY <5>2
        <5> QED BY <5>3 DEF t, u
      <4>6. ASSUME "empty" \notin why', "overtaken" \notin why' PROVE Files!InOrder'
        <5>1. Files!InOrder /\ waiting = <<>>
          BY <2>1, <3>1, <4>6 DEF Files!FilesIInv, Files!InTurn
        <5>2. m = Files!Part(Files!Passed + (Len(work) + 1))
          <6>1. Files!Taken + 1 = Files!Passed + (Len(work) + 1)
            <7>1. Len(waiting) = 0
              BY <5>1
            <7> DEFINE g == Files!Passed
                       w == Len(work)
                       t == Files!Taken
            <7>2. g \in Nat /\ w \in Nat /\ t = g + w + 0
              BY <2>l, <4>4, <7>1
            <7> HIDE DEF g, w, t
            <7>3. t + 1 = g + (w + 1)
              BY <7>2
            <7> QED BY <7>3 DEF g, w, t
          <6> QED BY <2>1, <2>4, <4>6, <6>1
        <5>3. ASSUME NEW i \in 1..Len(work') PROVE work'[i] = Files!Part(Files!Passed + i)
          <6>1. CASE i = Len(work) + 1
            BY <2>6, <4>1, <5>2, <6>1
          <6>2. CASE i # Len(work) + 1
            <7>1. i \in 1..Len(work) /\ work'[i] = work[i]
              BY <2>6, <4>1, <6>2
            <7> QED BY <4>3, <5>1, <7>1 DEF Files!InOrder
          <6> QED BY <6>1, <6>2
        <5>4. \A i \in 1..Len(waiting') : waiting'[i] = Files!Part(Files!Passed + Len(work') + i)
          BY <4>1, <5>1
        <5> QED BY <2>2, <4>3, <5>1, <5>3, <5>4 DEF Files!InOrder
      <4> QED BY <2>2, <4>3, <4>5, <4>6 DEF Files!Turns
    <3>2. CASE ~ready
      <4>1. (Files!HasHeader \/ Files!TakesHandle \/ Files!IsBroken) /\ waiting' = Append(waiting, m) /\ work' = work
        BY <2>3, <2>5, <3>2 DEF Files!Turns, Files!NoFile, Files!Writes, Files!TakePart
      <4>2. /\ Files!HasHeader' \/ Files!TakesHandle' \/ Files!IsBroken'
            /\ ~Files!HasFile' /\ Files!Count' = Files!Count /\ Files!InWork' = Files!InWork
        BY <3>2, <4>1 DEF Files!HasHeader, Files!TakesHandle, Files!IsBroken, Files!HasFile, Files!Count, Files!InWork
      <4>3. Len(Files!InWork) \in Nat
        BY <2>6 DEF Files!InWork
      <4>4. /\ Files!Taken = Files!Passed + Len(Files!InWork) + Len(waiting)
            /\ Files!Taken' = Files!Passed + Len(Files!InWork) + Len(waiting')
        BY <2>2, <4>2 DEF Files!Taken
      <4>5. Files!Taken' = Files!Taken + 1 /\ Files!Taken \in Nat
        <5>1. Len(waiting') = Len(waiting) + 1
          BY <2>6, <4>1
        <5> DEFINE g == Files!Passed
                   w == Len(Files!InWork)
                   x == Len(waiting)
                   t == Files!Taken
                   u == Files!Taken'
        <5>2. g \in Nat /\ w \in Nat /\ x \in Nat /\ t = g + w + x /\ u = g + w + (x + 1)
          BY <2>l, <4>1, <4>3, <4>4, <5>1
        <5> HIDE DEF g, w, x, t, u
        <5>3. u = t + 1 /\ t \in Nat
          BY <5>2
        <5> QED BY <5>3 DEF t, u
      <4>6. ASSUME "empty" \notin why', "overtaken" \notin why' PROVE Files!InOrder'
        <5>1. Files!InOrder
          BY <2>1, <4>6 DEF Files!FilesIInv, Files!InTurn
        <5>2. m = Files!Part(Files!Passed + Len(Files!InWork) + (Len(waiting) + 1))
          <6>1. Files!Taken + 1 = Files!Passed + Len(Files!InWork) + (Len(waiting) + 1)
            <7> DEFINE g == Files!Passed
                       w == Len(Files!InWork)
                       x == Len(waiting)
                       t == Files!Taken
            <7>1. g \in Nat /\ w \in Nat /\ x \in Nat /\ t = g + w + x
              BY <2>l, <4>3, <4>4
            <7> HIDE DEF g, w, x, t
            <7>2. t + 1 = g + w + (x + 1)
              BY <7>1
            <7> QED BY <7>2 DEF g, w, x, t
          <6> QED BY <2>1, <2>4, <4>6, <6>1
        <5>3. ASSUME NEW i \in 1..Len(waiting')
              PROVE  waiting'[i] = Files!Part(Files!Passed + Len(Files!InWork) + i)
          <6>1. CASE i = Len(waiting) + 1
            BY <2>6, <4>1, <5>2, <6>1
          <6>2. CASE i # Len(waiting) + 1
            <7>1. i \in 1..Len(waiting) /\ waiting'[i] = waiting[i]
              BY <2>6, <4>1, <6>2
            <7> QED BY <5>1, <7>1 DEF Files!InOrder
          <6> QED BY <6>1, <6>2
        <5> QED BY <2>2, <4>2, <5>1, <5>3 DEF Files!InOrder
      <4> QED BY <4>2, <4>5, <4>6 DEF Files!Turns
    <3> QED BY <3>1, <3>2
  <2>8. Files!Count \in Nat
    <3>1. work # <<>> => work[1] \in S
      BY <2>2
    <3> QED BY <2>2, <3>1 DEF Files!Count, Files!Messages
  <2>9. "empty" \notin why' => Files!Taken' <= Files!Count' /\ Files!Owed' = Files!After(Files!Owed, m)
    <3> SUFFICES ASSUME "empty" \notin why' PROVE Files!Taken' <= Files!Count' /\ Files!Owed' = Files!After(Files!Owed, m)
      OBVIOUS
    <3> DEFINE a == Files!Taken
               b == Files!Count
               e == Files!Owed
    <3>1. a < b /\ a \in Nat /\ b \in Nat /\ e = [n |-> a, of |-> b] /\ Files!Taken' = a + 1 /\ Files!Count' = b
      BY <2>1, <2>4, <2>7, <2>8
    <3>2. Files!Owed' = IF a + 1 < b THEN [n |-> a + 1, of |-> b] ELSE Files!Idle
      BY <3>1 DEF Files!Owed
    <3> HIDE DEF a, b, e
    <3>3. e.n = a /\ e.of = b /\ [e EXCEPT !.n = @ + 1] = [n |-> a + 1, of |-> b]
      BY <3>1
    <3>4. e # Files!Lost
      BY <3>1, <3>3 DEF Files!Lost
    <3>5. Files!After(e, m) = IF a + 1 < b THEN [n |-> a + 1, of |-> b] ELSE Files!Idle
      BY <2>1, <3>3, <3>4 DEF Files!After
    <3> QED BY <3>1, <3>2, <3>5 DEF e
  <2> QED BY <1>1, <2>1, <2>3, <2>5, <2>7, <2>9 DEF Files!InTurn
<1> QED BY <1>2, <1>3

\* A header.
LEMMA TurnsHeader ==
  ASSUME Files!FilesIInv, first, NEW m \in Files!Messages, m.kind = "file",
         first' = FALSE, work' = Append(work, m),
         why' = why \union (IF m.n = 0 THEN {"empty"} ELSE {}),
         UNCHANGED <<ready, waiting, file, told, saved>>
  PROVE  /\ Files!InTurn' /\ Files!SavedFilesAreWhole'
         /\ {"foreign", "empty"} \intersect why' = {} => Files!Owed' = Files!After(Files!Owed, m)
<1>1. Files!SavedFilesAreWhole'
  BY DEF Files!SavedFilesAreWhole, Files!FilesIInv
<1>2. CASE "foreign" \in why'
  BY <1>1, <1>2 DEF Files!InTurn
<1>3. CASE "foreign" \notin why'
  <2>1. Files!NoFile /\ "empty" \notin why
    BY <1>3 DEF Files!FilesIInv, Files!InTurn, Files!Turns, Files!HasHeader, Files!TakesHandle, Files!Writes, Files!HasFile, Files!IsBroken
  <2>2. work = <<>> /\ work' = <<m>> /\ waiting' = <<>> /\ waiting = <<>> /\ file = Files!Closed /\ file' = Files!Closed
    BY <2>1 DEF Files!NoFile
  <2>3. /\ Len(work') = 1 /\ work'[1] = m /\ work' # <<>> /\ m.n \in Nat
        /\ Files!Closed.expects = 0 /\ Files!Closed.got = <<>> /\ Files!Closed.missed = 0
    BY <2>2 DEF Files!Messages, Files!Closed
  <2>4. Files!Count' = m.n /\ Files!Count = 0 /\ Files!Taken' = 0 /\ Files!Taken = 0 /\ Files!InWork' = <<>>
    BY <2>2, <2>3 DEF Files!Count, Files!Taken, Files!InWork, Files!Passed
  <2>5. Files!HasHeader' /\ ~Files!HasFile'
    BY <2>1, <2>2, <2>3 DEF Files!HasHeader, Files!HasFile, Files!NoFile
  <2>6. "overtaken" \notin why' => Files!InOrder'
    <3>1. told' = <<>> /\ file'.got = <<>>
      BY <2>1, <2>2, <2>3 DEF Files!NoFile
    <3>2. Files!Whole(<<>>)
      BY DEF Files!Whole
    <3> QED BY <2>2, <2>4, <3>1, <3>2 DEF Files!InOrder
  <2>7. "empty" \notin why' => Files!Owed' = Files!After(Files!Owed, m)
    <3> SUFFICES ASSUME "empty" \notin why' PROVE Files!Owed' = Files!After(Files!Owed, m)
      OBVIOUS
    <3>1. m.n # 0
      OBVIOUS
    <3>2. Files!Owed = Files!Idle /\ Files!Owed' = [n |-> 0, of |-> m.n]
      BY <2>3, <2>4, <3>1 DEF Files!Owed
    <3>3. Files!Idle.n = 0 /\ Files!Lost.n = 1 /\ Files!Idle.of = 0
      BY DEF Files!Idle, Files!Lost
    <3>4. Files!Idle # Files!Lost /\ ~Files!Owing(Files!Idle)
      BY <3>3 DEF Files!Owing
    <3> QED BY <3>1, <3>2, <3>4 DEF Files!After
  <2>8. "empty" \in why' <=> m.n = 0
    BY <2>1
  <2>9. ~first'
    OBVIOUS
  <2> QED BY <1>1, <2>3, <2>4, <2>5, <2>6, <2>7, <2>8, <2>9 DEF Files!InTurn, Files!Turns
<1> QED BY <1>2, <1>3

\* One of those that wait goes on.
LEMMA Removed ==
  ASSUME NEW S, NEW s \in Seq(S), NEW i \in 1..Len(s)
  PROVE  /\ Files!RemoveAt(s, i) \in Seq(S) /\ Len(Files!RemoveAt(s, i)) = Len(s) - 1 /\ Len(s) \in Nat
         /\ i = 1 => \A k \in 1..Len(s) - 1 : Files!RemoveAt(s, i)[k] = s[k + 1]
<1> DEFINE a == SubSeq(s, 1, i - 1)
           b == SubSeq(s, i + 1, Len(s))
<1>1. Files!RemoveAt(s, i) = a \o b
  BY DEF Files!RemoveAt
<1>2. /\ a \in Seq(S) /\ b \in Seq(S) /\ Len(a) = i - 1 /\ Len(b) = Len(s) - i /\ Len(s) \in Nat
      /\ \A k \in 1..Len(s) - i : b[k] = s[k + i]
  <2>1. Len(s) \in Nat /\ i \in Nat /\ i - 1 \in 0..Len(s)
    OBVIOUS
  <2>2. a \in Seq(S) /\ Len(a) = i - 1
    BY <2>1
  <2>3. b \in Seq(S) /\ Len(b) = Len(s) - i
    BY <2>1
  <2>4. ASSUME NEW k \in 1..Len(s) - i PROVE b[k] = s[k + i]
    <3>1. k \in 1..((Len(s) - (i + 1)) + 1) /\ (i + 1) + k - 1 = k + i
      BY <2>1
    <3>2. b[k] = s[(i + 1) + k - 1]
      BY <2>1, <3>1
    <3> QED BY <3>1, <3>2
  <2> QED BY <2>1, <2>2, <2>3, <2>4
<1> HIDE DEF a, b
<1>3. /\ a \o b \in Seq(S) /\ Len(a \o b) = Len(a) + Len(b)
      /\ \A k \in 1..Len(a) + Len(b) : (a \o b)[k] = IF k <= Len(a) THEN a[k] ELSE b[k - Len(a)]
  BY <1>2, ConcatProperties
<1>4. Len(a) + Len(b) = Len(s) - 1
  BY <1>2
<1>5. ASSUME i = 1, NEW k \in 1..Len(s) - 1 PROVE (a \o b)[k] = s[k + 1]
  <2>1. Len(a) = 0 /\ ~(k <= 0) /\ k - 0 = k /\ k \in 1..Len(s) - i
    BY <1>2, <1>5
  <2>2. (a \o b)[k] = b[k]
    BY <1>3, <1>4, <2>1
  <2> QED BY <1>2, <1>5, <2>1, <2>2
<1> QED BY <1>1, <1>2, <1>3, <1>4, <1>5

\* A part whose wait is over goes to the worker in its turn.
LEMMA TurnsWaited ==
  ASSUME Files!FilesIInv, NEW i \in Nat, Files!PartWaited(i)
  PROVE  Files!InTurn' /\ Files!SavedFilesAreWhole' /\ ("foreign" \notin why' => Files!Owed' = Files!Owed)
<1> DEFINE S == Files!Messages
           m == waiting[i]
<1>0. /\ ready /\ i \in 1..Len(waiting) /\ waiting' = Files!RemoveAt(waiting, i) /\ work' = Append(work, m)
      /\ why' = why \union (IF i > 1 THEN {"overtaken"} ELSE {})
      /\ UNCHANGED <<first, ready, file, told, saved, down>>
  BY DEF Files!PartWaited, Files!FilesIInv, Files!TypeOK
<1>1. Files!SavedFilesAreWhole'
  BY <1>0 DEF Files!SavedFilesAreWhole, Files!FilesIInv
<1>2. CASE "foreign" \in why'
  BY <1>1, <1>2 DEF Files!InTurn
<1>3. CASE "foreign" \notin why'
  <2>1. /\ "foreign" \notin why /\ ("empty" \in why' <=> "empty" \in why)
        /\ ("overtaken" \notin why' => "overtaken" \notin why /\ i = 1)
    BY <1>0, <1>3
  <2>2. work \in Seq(S) /\ waiting \in Seq(S) /\ file.got \in Seq(Nat) /\ Files!Passed \in Nat
        /\ Files!Passed' = Files!Passed /\ file.expects \in Nat
    BY <1>0, PassedType DEF Files!FilesIInv, Files!TypeOK, Files!FilesAssumption
  <2>3. Files!Turns /\ ("empty" \in why <=> ~first /\ ~Files!HasFile /\ Files!Count = 0)
    BY <2>1 DEF Files!FilesIInv, Files!InTurn
  <2>4. Files!Writes
    <3>1. waiting # <<>> /\ ready /\ Len(waiting) \in Nat \ {0}
      <4> HIDE DEF S
      <4> QED BY <1>0, <2>2
    <3>2. ~Files!IsBroken
      <4> SUFFICES ASSUME Files!IsBroken PROVE FALSE
        OBVIOUS
      <4>1. /\ file # Files!Closed /\ file.expects > 0 /\ Files!Passed >= file.expects /\ work = <<>>
            /\ ~first /\ ~Files!HasFile
        BY <3>1 DEF Files!IsBroken, Files!HasFile, Files!Closed
      <4>2. Files!Count = file.expects /\ Files!InWork = work /\ Len(work) = 0
        BY <4>1 DEF Files!Count, Files!InWork
      <4>3. Files!Taken = Files!Passed + 0 + Len(waiting)
        BY <4>2 DEF Files!Taken
      <4>4. Files!Count # 0
        BY <2>2, <4>1, <4>2
      <4>5. Files!Taken <= Files!Count
        BY <2>1, <2>3, <4>4 DEF Files!FilesIInv, Files!InTurn
      <4> QED BY <2>2, <3>1, <4>1, <4>2, <4>3, <4>5
    <3> QED BY <2>3, <3>1, <3>2 DEF Files!Turns, Files!NoFile, Files!HasHeader, Files!TakesHandle, Files!HasFile
  <2>5. /\ Len(waiting') = Len(waiting) - 1 /\ Len(waiting) \in Nat \ {0}
        /\ i = 1 => \A k \in 1..Len(waiting) - 1 : waiting'[k] = waiting[k + 1]
    <3>1. Len(waiting) \in Nat \ {0}
      BY <1>0, <2>2
    <3> HIDE DEF S
    <3>2. /\ Len(Files!RemoveAt(waiting, i)) = Len(waiting) - 1
          /\ i = 1 => \A k \in 1..Len(waiting) - 1 : Files!RemoveAt(waiting, i)[k] = waiting[k + 1]
      BY <1>0, <2>2, Removed
    <3> QED BY <1>0, <3>1, <3>2
  <2>6. /\ Len(work') = Len(work) + 1 /\ Len(work) \in Nat /\ work'[Len(work) + 1] = m
        /\ \A k \in 1..Len(work) : work'[k] = work[k]
    <3>1. m \in S
      BY <1>0, <2>2
    <3> HIDE DEF S, m
    <3> QED BY <1>0, <2>2, <3>1, LineAppend
  <2>7. file # Files!Closed /\ file' # Files!Closed
    BY <1>0, <2>4 DEF Files!Writes, Files!Closed
  <2>8. Files!Writes' /\ ~Files!HasFile' /\ ~Files!HasFile /\ Files!Count' = Files!Count
        /\ Files!InWork = work /\ Files!InWork' = work'
    BY <1>0, <2>4, <2>7 DEF Files!Writes, Files!HasFile, Files!Count, Files!InWork
  <2>9. Files!Taken' = Files!Taken
    <3> DEFINE g == Files!Passed
               w == Len(work)
               x == Len(waiting)
    <3>1. /\ Files!Taken = g + w + x /\ Files!Taken' = g + (w + 1) + (x - 1)
          /\ g \in Nat /\ w \in Nat /\ x \in Nat \ {0}
      BY <1>0, <2>2, <2>5, <2>6, <2>8 DEF Files!Taken
    <3> HIDE DEF g, w, x
    <3>2. g + w + x = g + (w + 1) + (x - 1)
      BY <3>1
    <3> QED BY <3>1, <3>2
  <2>10. Files!Owed' = Files!Owed
    BY <2>8, <2>9 DEF Files!Owed
  <2>11. ASSUME "overtaken" \notin why', "empty" \notin why' PROVE Files!InOrder'
    <3>1. Files!InOrder /\ i = 1
      BY <2>1, <2>11 DEF Files!FilesIInv, Files!InTurn
    <3> DEFINE g == Files!Passed
               w == Len(work)
               x == Len(waiting)
    <3>n. g \in Nat /\ w \in Nat /\ x \in Nat \ {0}
      BY <2>2, <2>5, <2>6
    <3>2. /\ \A k \in 1..w : work[k] = Files!Part(g + k)
          /\ \A k \in 1..x : waiting[k] = Files!Part(g + w + k)
      BY <2>8, <3>1 DEF Files!InOrder
    <3>3. /\ work'[w + 1] = waiting[1] /\ \A k \in 1..w : work'[k] = work[k]
          /\ \A k \in 1..x - 1 : waiting'[k] = waiting[k + 1]
          /\ Len(work') = w + 1 /\ Len(waiting') = x - 1
      BY <2>5, <2>6, <3>1
    <3> HIDE DEF g, w, x
    <3>4. ASSUME NEW k \in 1..w + 1 PROVE work'[k] = Files!Part(g + k)
      <4>1. CASE k = w + 1
        <5>1. 1 \in 1..x /\ g + w + 1 = g + (w + 1)
          BY <3>n
        <5> QED BY <3>2, <3>3, <4>1, <5>1
      <4>2. CASE k # w + 1
        <5>1. k \in 1..w
          BY <3>n, <4>2
        <5> QED BY <3>2, <3>3, <5>1
      <4> QED BY <4>1, <4>2
    <3>5. ASSUME NEW k \in 1..x - 1 PROVE waiting'[k] = Files!Part(g + (w + 1) + k)
      <4>1. k + 1 \in 1..x /\ g + w + (k + 1) = g + (w + 1) + k
        BY <3>n
      <4> QED BY <3>2, <3>3, <4>1
    <3>6. /\ \A k \in 1..Len(work') : work'[k] = Files!Part(g + k)
          /\ \A k \in 1..Len(waiting') : waiting'[k] = Files!Part(g + Len(work') + k)
      BY <3>3, <3>4, <3>5
    <3>7. (file'.missed = 0 => Files!Whole(file'.got)) /\ \A k \in 1..Len(told') : Files!Whole(told'[k].got)
      BY <1>0, <3>1 DEF Files!InOrder
    <3> QED BY <1>0, <2>2, <2>8, <3>6, <3>7 DEF Files!InOrder, g
  <2>12. "empty" \notin why' => Files!Taken' <= Files!Count'
    BY <2>1, <2>8, <2>9 DEF Files!FilesIInv, Files!InTurn
  <2>13. Files!Turns' /\ ("empty" \in why' <=> ~first' /\ ~Files!HasFile' /\ Files!Count' = 0)
    BY <1>0, <2>1, <2>3, <2>8 DEF Files!Turns
  <2> QED BY <1>1, <2>10, <2>11, <2>12, <2>13 DEF Files!InTurn
<1> QED BY <1>2, <1>3

\* The page takes what the worker tells in its turn.
LEMMA TurnsTold ==
  ASSUME Files!FilesIInv, Files!TakeTold
  PROVE  Files!InTurn' /\ Files!SavedFilesAreWhole' /\ ("foreign" \notin why' => Files!Owed' = Files!Owed)
<1>0. told # <<>> /\ UNCHANGED <<waiting, work, file, down, why>>
  BY DEF Files!TakeTold
<1>1. CASE "foreign" \in why'
  <2>1. Files!SavedFilesAreWhole'
    BY <1>1 DEF Files!SavedFilesAreWhole
  <2> QED BY <1>1, <2>1 DEF Files!InTurn
<1>2. CASE "foreign" \notin why'
  <2>1. Files!Turns /\ ("empty" \in why <=> ~first /\ ~Files!HasFile /\ Files!Count = 0)
    BY <1>0, <1>2 DEF Files!FilesIInv, Files!InTurn
  <2>2. /\ Files!Count' = Files!Count /\ Files!InWork' = Files!InWork /\ Files!Taken' = Files!Taken
        /\ Files!Owed' = Files!Owed
    <3>1. Files!Count' = Files!Count /\ Files!InWork' = Files!InWork
      BY <1>0 DEF Files!Count, Files!InWork
    <3>2. Files!Taken' = Files!Taken
      BY <1>0, <3>1 DEF Files!Taken, Files!Passed
    <3> QED BY <3>1, <3>2 DEF Files!Owed
  <2>3. (Files!TakesHandle /\ file.handle = "open") \/ Files!HasFile
    BY <1>0, <2>1 DEF Files!Turns, Files!NoFile, Files!HasHeader, Files!TakesHandle, Files!Writes, Files!IsBroken
  <2>4. /\ told' = <<>>
        /\ ~first
    <3>1. \E x : told = <<x>>
      <4>1. told = <<[ready |-> TRUE, got |-> <<>>]>> \/ Len(told) = 1
        BY <2>3 DEF Files!TakesHandle, Files!HasFile
      <4>2. told \in Seq([ready : BOOLEAN, got : Seq(Nat)])
        BY DEF Files!FilesIInv, Files!TypeOK
      <4>3. Len(told) = 1 => told = <<told[1]>>
        BY <4>2
      <4> QED BY <4>1, <4>3
    <3>2. PICK x : told = <<x>>
      BY <3>1
    <3>3. told' = Tail(told)
      BY DEF Files!TakeTold
    <3>4. Tail(<<x>>) = <<>>
      OBVIOUS
    <3> QED BY <2>3, <3>2, <3>3, <3>4 DEF Files!TakesHandle, Files!HasFile
  <2>5. "empty" \notin why' /\ "overtaken" \notin why' => Files!InOrder'
    <3>1. "empty" \notin why' /\ "overtaken" \notin why' => Files!InOrder
      BY <1>0, <1>2 DEF Files!FilesIInv, Files!InTurn
    <3>2. Files!InOrder => Files!InOrder'
      BY <1>0, <2>2, <2>4 DEF Files!InOrder, Files!Passed
    <3> QED BY <3>1, <3>2
  <2>6. CASE Files!TakesHandle /\ file.handle = "open"
    <3>1. told[1].ready = TRUE /\ Head(told) = told[1]
      BY <1>0, <2>6 DEF Files!TakesHandle
    <3>2. ready' = TRUE /\ UNCHANGED <<first, saved>>
      BY <3>1 DEF Files!TakeTold
    <3>3. Files!SavedFilesAreWhole'
      BY <1>0, <3>2 DEF Files!FilesIInv, Files!SavedFilesAreWhole
    <3>4. Files!Writes' /\ ~Files!HasFile' /\ ~Files!HasFile
      <4>1. file.expects = 0 \/ Len(file.got) < file.expects
        <5>1. file.expects \in Nat /\ Len(file.got) = 0
          BY <2>6 DEF Files!FilesIInv, Files!TypeOK, Files!TakesHandle
        <5> QED BY <5>1
      <4>2. file # Files!Closed
        BY <2>6 DEF Files!Closed
      <4> QED BY <1>0, <2>4, <2>6, <3>2, <4>1, <4>2 DEF Files!Writes, Files!HasFile
    <3>5. "empty" \notin why' => Files!Taken' <= Files!Count'
      BY <1>0, <1>2, <2>2 DEF Files!FilesIInv, Files!InTurn
    <3>6. Files!Turns' /\ ("empty" \in why' <=> ~first' /\ ~Files!HasFile' /\ Files!Count' = 0)
      BY <1>0, <2>1, <2>2, <3>2, <3>4 DEF Files!Turns
    <3> QED BY <2>2, <2>5, <3>3, <3>5, <3>6 DEF Files!InTurn
  <2>7. CASE Files!HasFile
    <3>1. told[1].ready = FALSE /\ Head(told) = told[1]
      <4> DEFINE R == [ready : BOOLEAN, got : Seq(Nat)]
      <4>1. told \in Seq(R)
        BY DEF Files!FilesIInv, Files!TypeOK
      <4>2. Len(told) = 1 /\ ~told[1].ready
        BY <2>7 DEF Files!HasFile
      <4>3. told[1] \in R /\ Head(told) = told[1]
        <5> HIDE DEF R
        <5>1. 1 \in 1..Len(told)
          BY <4>2
        <5> QED BY <1>0, <4>1, <5>1
      <4> QED BY <4>2, <4>3
    <3>2. ready' = FALSE /\ first' = TRUE /\ saved' = saved \union {told[1].got}
      BY <3>1 DEF Files!TakeTold
    <3>3. Files!NoFile' /\ "empty" \notin why
      BY <1>0, <2>1, <2>4, <2>7, <3>2 DEF Files!NoFile, Files!HasFile
    <3>4. Files!SavedFilesAreWhole'
      <4> SUFFICES ASSUME "overtaken" \notin why PROVE \A s \in saved' : Files!Whole(s)
        BY <1>0 DEF Files!SavedFilesAreWhole
      <4>1. Files!InOrder /\ \A s \in saved : Files!Whole(s)
        BY <1>0, <1>2, <3>3 DEF Files!FilesIInv, Files!InTurn, Files!SavedFilesAreWhole
      <4>2. Files!Whole(told[1].got)
        <5>1. 1 \in 1..Len(told)
          BY <2>7 DEF Files!HasFile
        <5> QED BY <4>1, <5>1 DEF Files!InOrder
      <4> QED BY <3>2, <4>1, <4>2
    <3>5. Files!Taken' <= Files!Count'
      BY <1>0, <1>2, <2>2, <3>3 DEF Files!FilesIInv, Files!InTurn
    <3> QED BY <1>0, <2>2, <2>5, <3>2, <3>3, <3>4, <3>5 DEF Files!InTurn, Files!Turns
  <2> QED BY <2>3, <2>6, <2>7
<1> QED BY <1>1, <1>2

\* The worker gets the handle of the file in its turn.
LEMMA TurnsOpened ==
  ASSUME Files!FilesIInv, Files!Opened
  PROVE  Files!InTurn' /\ Files!SavedFilesAreWhole' /\ ("foreign" \notin why' => Files!Owed' = Files!Owed)
<1> DEFINE o == [ready |-> TRUE, got |-> <<>>]
<1>0. /\ file.handle = "asked" /\ file' = [file EXCEPT !.handle = "open"] /\ told' = Append(told, o)
      /\ UNCHANGED <<first, ready, waiting, work, saved, why, down>>
  BY DEF Files!Opened, Files!Say, Files!pageVars
<1>1. file \in [handle : {"none", "asked", "open", "broken"}, expects : 0..MaxSize, got : Seq(Nat), missed : Nat]
  BY DEF Files!FilesIInv, Files!TypeOK
<1>2. /\ file'.handle = "open" /\ file'.expects = file.expects /\ file'.got = file.got /\ file'.missed = file.missed
      /\ file # Files!Closed /\ file' # Files!Closed
  BY <1>0, <1>1 DEF Files!Closed
<1>3. Files!SavedFilesAreWhole'
  BY <1>0 DEF Files!FilesIInv, Files!SavedFilesAreWhole
<1>4. CASE "foreign" \in why'
  BY <1>3, <1>4 DEF Files!InTurn
<1>5. CASE "foreign" \notin why'
  <2>1. Files!TakesHandle /\ told = <<>> /\ ("empty" \in why <=> ~first /\ ~Files!HasFile /\ Files!Count = 0)
    BY <1>0, <1>2, <1>5 DEF Files!FilesIInv, Files!InTurn, Files!Turns, Files!NoFile, Files!HasHeader, Files!TakesHandle,
                       Files!Writes, Files!HasFile, Files!IsBroken
  <2>2. told' = <<o>>
    BY <1>0, <2>1
  <2>3. Files!TakesHandle' /\ ~Files!HasFile' /\ ~Files!HasFile
    BY <1>0, <1>2, <2>1, <2>2 DEF Files!TakesHandle, Files!HasFile
  <2>4. Files!Count' = Files!Count /\ Files!InWork' = Files!InWork
    BY <1>0, <1>2 DEF Files!Count, Files!InWork
  <2>5. Files!Taken' = Files!Taken
    BY <1>0, <1>2, <2>4 DEF Files!Taken, Files!Passed
  <2>6. Files!Owed' = Files!Owed
    BY <2>4, <2>5 DEF Files!Owed
  <2>7. "empty" \notin why' => Files!Taken' <= Files!Count'
    BY <1>0, <1>5, <2>4, <2>5 DEF Files!FilesIInv, Files!InTurn
  <2>8. Files!InOrder => Files!InOrder'
    <3>1. \A i \in 1..Len(told') : Files!Whole(told'[i].got)
      <4>1. Files!Whole(<<>>)
        BY DEF Files!Whole
      <4>2. Len(told') = 1 /\ told'[1].got = <<>>
        BY <2>2
      <4> QED BY <4>1, <4>2
    <3> QED BY <1>0, <1>2, <2>4, <3>1 DEF Files!InOrder, Files!Passed
  <2>9. "empty" \notin why' /\ "overtaken" \notin why' => Files!InOrder'
    BY <1>0, <1>5, <2>8 DEF Files!FilesIInv, Files!InTurn
  <2> QED BY <1>0, <1>3, <2>1, <2>3, <2>4, <2>6, <2>7, <2>9 DEF Files!InTurn, Files!Turns
<1> QED BY <1>4, <1>5

\* A handle that is not to be had leaves a file that is broken.
LEMMA TurnsOpenFails ==
  ASSUME Files!FilesIInv, Files!OpenFails
  PROVE  Files!InTurn' /\ Files!SavedFilesAreWhole' /\ ("foreign" \notin why' => Files!Owed' = Files!Owed)
<1>0. /\ file.handle = "asked" /\ file' = [file EXCEPT !.handle = "broken"]
      /\ UNCHANGED <<first, ready, waiting, work, told, saved, why, down>>
  BY DEF Files!OpenFails, Files!pageVars
<1>1. file \in [handle : {"none", "asked", "open", "broken"}, expects : 0..MaxSize, got : Seq(Nat), missed : Nat]
  BY DEF Files!FilesIInv, Files!TypeOK
<1>2. /\ file'.handle = "broken" /\ file'.expects = file.expects /\ file'.got = file.got /\ file'.missed = file.missed
      /\ file # Files!Closed /\ file' # Files!Closed
  BY <1>0, <1>1 DEF Files!Closed
<1>3. Files!SavedFilesAreWhole'
  BY <1>0 DEF Files!FilesIInv, Files!SavedFilesAreWhole
<1>4. CASE "foreign" \in why'
  BY <1>3, <1>4 DEF Files!InTurn
<1>5. CASE "foreign" \notin why'
  <2>1. Files!TakesHandle /\ ("empty" \in why <=> ~first /\ ~Files!HasFile /\ Files!Count = 0)
    BY <1>0, <1>2, <1>5 DEF Files!FilesIInv, Files!InTurn, Files!Turns, Files!NoFile, Files!HasHeader, Files!TakesHandle,
                       Files!Writes, Files!HasFile, Files!IsBroken
  <2>2. Files!IsBroken' /\ ~Files!HasFile' /\ ~Files!HasFile
    BY <1>0, <1>2, <2>1 DEF Files!TakesHandle, Files!IsBroken, Files!HasFile
  <2>3. Files!Count' = Files!Count /\ Files!InWork' = Files!InWork
    BY <1>0, <1>2 DEF Files!Count, Files!InWork
  <2>4. Files!Taken' = Files!Taken
    BY <1>0, <1>2, <2>3 DEF Files!Taken, Files!Passed
  <2>5. Files!Owed' = Files!Owed
    BY <2>3, <2>4 DEF Files!Owed
  <2>6. "empty" \notin why' => Files!Taken' <= Files!Count'
    BY <1>0, <1>5, <2>3, <2>4 DEF Files!FilesIInv, Files!InTurn
  <2>7. Files!InOrder => Files!InOrder'
    BY <1>0, <1>2, <2>3 DEF Files!InOrder, Files!Passed
  <2>8. "empty" \notin why' /\ "overtaken" \notin why' => Files!InOrder'
    BY <1>0, <1>5, <2>7 DEF Files!FilesIInv, Files!InTurn
  <2> QED BY <1>0, <1>3, <2>1, <2>2, <2>3, <2>5, <2>6, <2>8 DEF Files!InTurn, Files!Turns
<1> QED BY <1>4, <1>5

\* The worker takes its work in its turn.
LEMMA TurnsWork ==
  ASSUME Files!FilesIInv, Files!Work
  PROVE  Files!InTurn' /\ Files!SavedFilesAreWhole' /\ ("foreign" \notin why' => Files!Owed' = Files!Owed)
<1> DEFINE S == Files!Messages
           m == Head(work)
           n == IF m.kind = "part" THEN m.n ELSE 0
           got == Append(file.got, n)
           say == [ready |-> FALSE, got |-> got]
<1>0. /\ work # <<>> /\ work' = Tail(work)
      /\ UNCHANGED <<first, ready, waiting, saved, why, down>>
  BY DEF Files!Work, Files!pageVars
<1>1. \/ /\ m.kind = "file" /\ file = Files!Closed
         /\ file' = [handle |-> "asked", expects |-> m.n, got |-> <<>>, missed |-> 0] /\ told' = told
      \/ /\ file.handle = "open" /\ Len(got) = file.expects
         /\ file' = Files!Closed /\ told' = Append(told, say)
      \/ /\ file.handle = "open" /\ Len(got) # file.expects
         /\ file' = [file EXCEPT !.got = got] /\ told' = told
      \/ file.handle # "open" /\ (m.kind # "file" \/ file # Files!Closed)
  BY DEF Files!Work, Files!Say, Files!Written, Files!Closed
<1>2. Files!SavedFilesAreWhole'
  BY <1>0 DEF Files!FilesIInv, Files!SavedFilesAreWhole
<1>3. CASE "foreign" \in why'
  BY <1>2, <1>3 DEF Files!InTurn
<1>4. CASE "foreign" \notin why'
  <2>1. Files!Turns /\ ("empty" \in why <=> ~first /\ ~Files!HasFile /\ Files!Count = 0)
    BY <1>0, <1>4 DEF Files!FilesIInv, Files!InTurn
  <2>2. "empty" \notin why => Files!Taken <= Files!Count /\ ("overtaken" \notin why => Files!InOrder)
    BY <1>0, <1>4 DEF Files!FilesIInv, Files!InTurn
  <2>3. Files!HasHeader \/ Files!Writes
    BY <1>0, <2>1 DEF Files!Turns, Files!NoFile, Files!TakesHandle, Files!HasFile, Files!IsBroken
  <2>4. /\ file \in [handle : {"none", "asked", "open", "broken"}, expects : 0..MaxSize, got : Seq(Nat), missed : Nat]
        /\ work \in Seq(S) /\ waiting \in Seq(S) /\ file.got \in Seq(Nat) /\ file.expects \in Nat
    BY DEF Files!FilesIInv, Files!TypeOK
  <2>p. file.missed \in Nat /\ Files!Passed = Len(file.got) + file.missed
    BY PassedType DEF Files!FilesIInv
  <2>5. Len(file.got) \in Nat /\ Len(work) \in Nat \ {0} /\ Len(waiting) \in Nat
    <3> HIDE DEF S
    <3> QED BY <1>0, <2>4
  <2>6. Len(work') = Len(work) - 1 /\ (\A i \in 1..Len(work) - 1 : work'[i] = work[i + 1]) /\ m = work[1] /\ m \in S
    <3> HIDE DEF S
    <3> QED BY <1>0, <2>4
  <2>7. n \in Nat /\ m.n \in Nat
    BY <2>6 DEF Files!Messages
  <2>8. Len(got) = Len(file.got) + 1 /\ got \in Seq(Nat)
    <3> HIDE DEF n
    <3> QED BY <2>4, <2>7
  <2>9. CASE Files!HasHeader
    <3>1. /\ file = Files!Closed /\ m.kind = "file" /\ Len(work) = 1 /\ told = <<>> /\ ~first /\ ~ready
      BY <2>6, <2>9 DEF Files!HasHeader
    <3>2. Files!Closed.handle = "none" /\ Files!Closed.got = <<>> /\ Files!Closed.missed = 0
      BY DEF Files!Closed
    <3>3. file' = [handle |-> "asked", expects |-> m.n, got |-> <<>>, missed |-> 0] /\ told' = <<>>
      <4> HIDE DEF got, say, m
      <4> QED BY <1>1, <3>1, <3>2
    <3>4. /\ file'.handle = "asked" /\ file'.expects = m.n /\ file'.got = <<>> /\ file'.missed = 0 /\ file' # Files!Closed
      <4> HIDE DEF m
      <4>1. file'.handle = "asked" /\ file'.expects = m.n /\ file'.got = <<>> /\ file'.missed = 0
        BY <3>3
      <4> QED BY <3>2, <4>1
    <3>5. work' = <<>>
      <4> HIDE DEF S
      <4>1. work' \in Seq(S) /\ Len(work') = 0
        BY <1>0, <2>4, <2>6, <3>1
      <4> QED BY <4>1
    <3>6. Files!TakesHandle' /\ ~Files!HasFile' /\ ~Files!HasFile
      BY <1>0, <3>1, <3>3, <3>4, <3>5 DEF Files!TakesHandle, Files!HasFile
    <3>7. Files!Count' = Files!Count /\ Files!InWork' = <<>> /\ Files!InWork = <<>>
      BY <1>0, <2>6, <3>1, <3>4, <3>5 DEF Files!Count, Files!InWork
    <3>8. Files!Taken' = Files!Taken
      BY <1>0, <3>1, <3>2, <3>4, <3>7 DEF Files!Taken, Files!Passed
    <3>9. Files!Owed' = Files!Owed
      BY <3>7, <3>8 DEF Files!Owed
    <3>10. Files!InOrder => Files!InOrder'
      BY <1>0, <3>1, <3>2, <3>3, <3>4, <3>7 DEF Files!InOrder, Files!Passed
    <3> QED BY <1>0, <1>2, <2>1, <2>2, <3>6, <3>7, <3>8, <3>9, <3>10 DEF Files!InTurn, Files!Turns
  <2>10. CASE Files!Writes
    <3> DEFINE a == Len(file.got)
               b == file.missed
               g == Files!Passed
               w == Len(work)
               x == Len(waiting)
    <3>1. /\ file.handle = "open" /\ file # Files!Closed /\ ~first /\ ready /\ told = <<>>
          /\ (file.expects = 0 \/ a < file.expects) /\ ~Files!HasFile
      BY <2>10 DEF Files!Writes, Files!Closed, Files!HasFile
    <3>2. Files!InWork = work /\ Files!Count = file.expects /\ Files!Taken = g + w + x
      BY <3>1 DEF Files!InWork, Files!Count, Files!Taken
    <3>3. ("empty" \in why <=> file.expects = 0) /\ ("empty" \notin why => g + w + x <= file.expects)
      BY <2>1, <2>2, <3>1, <3>2
    <3>4. /\ a \in Nat /\ b \in Nat /\ g = a + b /\ g \in Nat /\ w \in Nat \ {0} /\ x \in Nat
          /\ Len(got) = a + 1 /\ Len(work') = w - 1
      BY <2>p, <2>5, <2>6, <2>8
    <3>5. ASSUME "empty" \notin why, "overtaken" \notin why
          PROVE  /\ b = 0 => Files!Whole(got)
                 /\ \A i \in 1..w - 1 : work'[i] = Files!Part(g + 1 + i)
                 /\ \A i \in 1..x : waiting[i] = Files!Part(g + 1 + (w - 1) + i)
      <4>1. /\ b = 0 => Files!Whole(file.got)
            /\ \A i \in 1..w : work[i] = Files!Part(g + i)
            /\ \A i \in 1..x : waiting[i] = Files!Part(g + w + i)
        BY <2>2, <3>2, <3>5 DEF Files!InOrder
      <4>2. n = g + 1
        <5>1. 1 \in 1..w
          BY <3>4
        <5>2. m = Files!Part(g + 1)
          BY <2>6, <4>1, <5>1
        <5> HIDE DEF m, g
        <5> QED BY <5>2 DEF Files!Part, Files!Msg
      <4>3. ASSUME b = 0 PROVE Files!Whole(got)
        <5>0. g = a
          <6> HIDE DEF a, b, g
          <6> QED BY <3>4, <4>3
        <5>1. got = Append(file.got, Len(file.got) + 1)
          <6> HIDE DEF g, b
          <6> QED BY <4>2, <5>0
        <5> HIDE DEF got
        <5> QED BY <2>4, <4>1, <4>3, <5>1, WholeAppend
      <4> HIDE DEF a, b, g, w, x
      <4>4. ASSUME NEW i \in 1..w - 1 PROVE work'[i] = Files!Part(g + 1 + i)
        <5>1. i + 1 \in 1..w /\ g + (i + 1) = g + 1 + i
          BY <3>4
        <5>2. work'[i] = work[i + 1]
          BY <2>6 DEF w
        <5> QED BY <4>1, <5>1, <5>2
      <4>5. \A i \in 1..x : waiting[i] = Files!Part(g + 1 + (w - 1) + i)
        <5>1. g + 1 + (w - 1) = g + w
          BY <3>4
        <5> QED BY <4>1, <5>1
      <4> QED BY <4>3, <4>4, <4>5
    <3>6. CASE Len(got) = file.expects
      <4>1. file' = Files!Closed /\ told' = <<say>>
        <5>1. file' = Files!Closed /\ told' = Append(told, say)
          <6> HIDE DEF got, say, m
          <6> QED BY <1>1, <3>1, <3>6
        <5> HIDE DEF say
        <5> QED BY <3>1, <5>1
      <4>2. "empty" \notin why /\ w = 1 /\ x = 0 /\ b = 0
        <5> HIDE DEF a, b, g, w, x, got
        <5>1. file.expects = a + 1
          BY <3>4, <3>6
        <5> QED BY <3>3, <3>4, <5>1
      <4>3. work' = <<>> /\ waiting = <<>>
        <5> HIDE DEF S
        <5>1. work' \in Seq(S) /\ Len(work') = 0 /\ Len(waiting) = 0
          BY <1>0, <2>4, <2>6, <4>2
        <5> QED BY <2>4, <5>1
      <4>4. Len(told') = 1 /\ told'[1] = say /\ say.ready = FALSE /\ say.got = got
        <5> HIDE DEF got
        <5> QED BY <4>1
      <4>5. Files!HasFile'
        BY <1>0, <3>1, <4>1, <4>3, <4>4 DEF Files!HasFile
      <4>6. Files!Count' = 0 /\ Files!InWork' = <<>> /\ file'.got = <<>> /\ file'.missed = 0
        BY <4>1, <4>3 DEF Files!Count, Files!InWork, Files!Closed
      <4>7. Files!Taken' = 0
        BY <1>0, <4>3, <4>6 DEF Files!Taken, Files!Passed
      <4>8. Files!Owed' = Files!Idle
        BY <4>6, <4>7 DEF Files!Owed
      <4>9. Files!Owed = Files!Idle
        <5>1. Files!Taken = Files!Count
          <6> HIDE DEF a, b, g, w, x, got
          <6> QED BY <3>2, <3>4, <3>6, <4>2
        <5>2. Files!Count \in Nat
          BY <2>4, <3>2
        <5> QED BY <5>1, <5>2 DEF Files!Owed
      <4>10. "overtaken" \notin why => Files!InOrder'
        <5> SUFFICES ASSUME "overtaken" \notin why PROVE Files!InOrder'
          OBVIOUS
        <5> HIDE DEF a, b, g, w, x, got, say
        <5>1. Files!Whole(got)
          BY <3>5, <4>2
        <5>2. Files!Whole(<<>>)
          BY DEF Files!Whole
        <5> QED BY <1>0, <4>3, <4>4, <4>6, <5>1, <5>2 DEF Files!InOrder
      <4> QED BY <1>0, <1>2, <4>2, <4>5, <4>6, <4>7, <4>8, <4>9, <4>10 DEF Files!InTurn, Files!Turns
    <3>7. CASE Len(got) # file.expects
      <4>1. file' = [file EXCEPT !.got = got] /\ told' = told
        <5> HIDE DEF got, say, m
        <5> QED BY <1>1, <3>1, <3>7
      <4>2. /\ file'.handle = "open" /\ file'.expects = file.expects /\ file'.got = got
            /\ file'.missed = b /\ file' # Files!Closed
        <5> HIDE DEF got
        <5>1. file'.handle = "open" /\ file'.expects = file.expects /\ file'.got = got /\ file'.missed = b
          BY <2>4, <3>1, <4>1
        <5> QED BY <5>1 DEF Files!Closed
      <4>3. Files!Writes' /\ ~Files!HasFile'
        <5>1. file.expects = 0 \/ Len(got) < file.expects
          <6> HIDE DEF a, b, g, got
          <6> QED BY <2>4, <3>1, <3>4, <3>7
        <5> QED BY <1>0, <3>1, <4>1, <4>2, <5>1 DEF Files!Writes, Files!HasFile
      <4>4. Files!InWork' = work' /\ Files!Count' = Files!Count
        BY <3>2, <4>2 DEF Files!InWork, Files!Count
      <4>p. Files!Passed' = g + 1
        <5>1. Files!Passed' = (a + 1) + b
          BY <3>4, <4>2 DEF Files!Passed
        <5> DEFINE q == Files!Passed'
        <5>2. q = (a + 1) + b
          BY <5>1
        <5> HIDE DEF a, b, g, q
        <5>3. q = g + 1
          BY <3>4, <5>2
        <5> QED BY <5>3 DEF q
      <4>5. Files!Taken' = Files!Taken
        <5>1. Files!Taken' = (g + 1) + (w - 1) + x
          <6>1. Files!Taken' = Files!Passed' + Len(work') + x
            BY <1>0, <4>4 DEF Files!Taken
          <6> QED BY <3>4, <4>p, <6>1
        <5> DEFINE q == Files!Taken'
        <5>2. q = (g + 1) + (w - 1) + x
          BY <5>1
        <5> HIDE DEF a, b, g, w, x, q
        <5>3. q = g + w + x
          BY <3>4, <5>2
        <5> QED BY <3>2, <5>3 DEF q
      <4>6. Files!Owed' = Files!Owed
        BY <4>4, <4>5 DEF Files!Owed
      <4>7. "empty" \notin why /\ "overtaken" \notin why => Files!InOrder'
        <5> SUFFICES ASSUME "empty" \notin why, "overtaken" \notin why PROVE Files!InOrder'
          OBVIOUS
        <5>1. /\ \A i \in 1..Len(work') : work'[i] = Files!Part(Files!Passed' + i)
              /\ \A i \in 1..Len(waiting) : waiting[i] = Files!Part(Files!Passed' + Len(work') + i)
          BY <3>4, <3>5, <4>p
        <5>2. b = 0 => Files!Whole(got)
          BY <3>5
        <5>3. \A i \in 1..Len(told') : Files!Whole(told'[i].got)
          BY <3>1, <4>1
        <5> HIDE DEF got
        <5> QED BY <1>0, <4>2, <4>4, <5>1, <5>2, <5>3 DEF Files!InOrder
      <4> QED BY <1>0, <1>2, <2>1, <2>2, <3>1, <4>3, <4>4, <4>5, <4>6, <4>7 DEF Files!InTurn, Files!Turns
    <3> QED BY <3>6, <3>7
  <2> QED BY <2>3, <2>9, <2>10
<1> QED BY <1>3, <1>4

\* What the worker could not write, or close, leaves the parts that follow in their order.
LEMMA TurnsWorkFails ==
  ASSUME Files!FilesIInv, Files!WorkFails
  PROVE  Files!InTurn' /\ Files!SavedFilesAreWhole' /\ ("foreign" \notin why' => Files!Owed' = Files!Owed)
<1> DEFINE S == Files!Messages
           m == Head(work)
           n == IF m.kind = "part" THEN m.n ELSE 0
           got == Append(file.got, n)
<1>0. /\ work # <<>> /\ work' = Tail(work) /\ file.handle = "open"
      /\ UNCHANGED <<first, ready, waiting, told, saved, why, down>>
  BY DEF Files!WorkFails, Files!pageVars
<1>1. \/ file' = [file EXCEPT !.missed = @ + 1]
      \/ Len(got) = file.expects /\ file' = [file EXCEPT !.handle = "broken", !.got = got]
  BY DEF Files!WorkFails, Files!Written
<1>2. Files!SavedFilesAreWhole'
  BY <1>0 DEF Files!FilesIInv, Files!SavedFilesAreWhole
<1>3. CASE "foreign" \in why'
  BY <1>2, <1>3 DEF Files!InTurn
<1>4. CASE "foreign" \notin why'
  <2>1. Files!Turns /\ ("empty" \in why <=> ~first /\ ~Files!HasFile /\ Files!Count = 0)
    BY <1>0, <1>4 DEF Files!FilesIInv, Files!InTurn
  <2>2. "empty" \notin why => Files!Taken <= Files!Count /\ ("overtaken" \notin why => Files!InOrder)
    BY <1>0, <1>4 DEF Files!FilesIInv, Files!InTurn
  <2>3. Files!Writes
    <3>1. file # Files!Closed
      BY <1>0 DEF Files!Closed
    <3> QED BY <1>0, <2>1, <3>1 DEF Files!Turns, Files!NoFile, Files!HasHeader, Files!TakesHandle, Files!HasFile,
                                    Files!IsBroken
  <2>4. /\ file \in [handle : {"none", "asked", "open", "broken"}, expects : 0..MaxSize, got : Seq(Nat), missed : Nat]
        /\ work \in Seq(S) /\ waiting \in Seq(S) /\ file.got \in Seq(Nat) /\ file.expects \in Nat
        /\ file.missed \in Nat
    BY DEF Files!FilesIInv, Files!TypeOK
  <2>5. Len(file.got) \in Nat /\ Len(work) \in Nat \ {0} /\ Len(waiting) \in Nat
    <3> HIDE DEF S
    <3> QED BY <1>0, <2>4
  <2>6. Len(work') = Len(work) - 1 /\ (\A i \in 1..Len(work) - 1 : work'[i] = work[i + 1]) /\ m = work[1] /\ m \in S
    <3> HIDE DEF S
    <3> QED BY <1>0, <2>4
  <2>7. n \in Nat
    BY <2>6 DEF Files!Messages
  <2>8. Len(got) = Len(file.got) + 1 /\ got \in Seq(Nat)
    <3> HIDE DEF n
    <3> QED BY <2>4, <2>7
  <2> DEFINE a == Len(file.got)
             b == file.missed
             g == Files!Passed
             w == Len(work)
             x == Len(waiting)
  <2>9. /\ file # Files!Closed /\ ~first /\ ready /\ told = <<>>
        /\ (file.expects = 0 \/ a < file.expects) /\ ~Files!HasFile
    BY <2>3 DEF Files!Writes, Files!Closed, Files!HasFile
  <2>10. Files!InWork = work /\ Files!Count = file.expects /\ Files!Taken = g + w + x
    BY <2>9 DEF Files!InWork, Files!Count, Files!Taken
  <2>11. ("empty" \in why <=> file.expects = 0) /\ ("empty" \notin why => g + w + x <= file.expects)
    BY <2>1, <2>2, <2>9, <2>10
  <2>12. a \in Nat /\ b \in Nat /\ g = a + b /\ g \in Nat /\ w \in Nat \ {0} /\ x \in Nat /\ Len(work') = w - 1
    BY <2>4, <2>5, <2>6 DEF Files!Passed
  <2>13. ASSUME "empty" \notin why, "overtaken" \notin why
         PROVE  /\ b = 0 => Files!Whole(file.got) /\ n = a + 1
                /\ \A i \in 1..w - 1 : work'[i] = Files!Part((g + 1) + i)
                /\ \A i \in 1..x : waiting[i] = Files!Part((g + 1) + (w - 1) + i)
    <3>1. /\ b = 0 => Files!Whole(file.got)
          /\ \A i \in 1..w : work[i] = Files!Part(g + i)
          /\ \A i \in 1..x : waiting[i] = Files!Part(g + w + i)
      BY <2>2, <2>10, <2>13 DEF Files!InOrder
    <3>2. n = g + 1
      <4>1. 1 \in 1..w
        BY <2>12
      <4>2. m = Files!Part(g + 1)
        BY <2>6, <3>1, <4>1
      <4> HIDE DEF m, g
      <4> QED BY <4>2 DEF Files!Part, Files!Msg
    <3> HIDE DEF a, b, g, w, x, n
    <3>3. b = 0 => n = a + 1
      BY <2>12, <3>2
    <3>4. ASSUME NEW i \in 1..w - 1 PROVE work'[i] = Files!Part((g + 1) + i)
      <4>1. i + 1 \in 1..w /\ g + (i + 1) = (g + 1) + i
        BY <2>12
      <4>2. work'[i] = work[i + 1]
        BY <2>6 DEF w
      <4> QED BY <3>1, <4>1, <4>2
    <3>5. \A i \in 1..x : waiting[i] = Files!Part((g + 1) + (w - 1) + i)
      <4>1. (g + 1) + (w - 1) = g + w
        BY <2>12
      <4> QED BY <3>1, <4>1
    <3> QED BY <3>1, <3>3, <3>4, <3>5
  <2>14. \/ /\ file'.handle = "open" /\ file'.expects = file.expects /\ file'.got = file.got
            /\ file'.missed = b + 1
         \/ /\ Len(got) = file.expects /\ file'.handle = "broken" /\ file'.expects = file.expects
            /\ file'.got = got /\ file'.missed = b
    <3> HIDE DEF got
    <3> QED BY <1>0, <1>1, <2>4
  <2>15. file' # Files!Closed
    BY <2>14 DEF Files!Closed
  <2>16. Files!Passed' = g + 1
    <3>1. Files!Passed' = a + (b + 1) \/ Files!Passed' = (a + 1) + b
      BY <2>8, <2>14 DEF Files!Passed
    <3> DEFINE q == Files!Passed'
    <3>2. q = a + (b + 1) \/ q = (a + 1) + b
      BY <3>1
    <3> HIDE DEF a, b, g, q
    <3>3. q = g + 1
      BY <2>12, <3>2
    <3> QED BY <3>3 DEF q
  <2>17. Files!InWork' = work' /\ Files!Count' = Files!Count
    BY <2>10, <2>14, <2>15 DEF Files!InWork, Files!Count
  <2>18. Files!Taken' = Files!Taken
    <3>1. Files!Taken' = Files!Passed' + Len(work') + x
      BY <1>0, <2>17 DEF Files!Taken
    <3> DEFINE q == Files!Taken'
    <3>2. q = (g + 1) + (w - 1) + x
      BY <2>12, <2>16, <3>1
    <3> HIDE DEF a, b, g, w, x, q
    <3>3. q = g + w + x
      BY <2>12, <3>2
    <3> QED BY <2>10, <3>3 DEF q
  <2>19. Files!Owed' = Files!Owed
    BY <2>17, <2>18 DEF Files!Owed
  <2>20. ~Files!HasFile'
    BY <2>15 DEF Files!HasFile
  <2>21. Files!Turns'
    <3>1. CASE file'.handle = "open"
      <4>1. file'.got = file.got /\ file'.expects = file.expects
        BY <2>14, <3>1
      <4>2. Files!Writes'
        BY <1>0, <2>9, <3>1, <4>1 DEF Files!Writes
      <4> QED BY <4>2 DEF Files!Turns
    <3>2. CASE file'.handle # "open"
      <4>1. Len(got) = file.expects /\ file'.handle = "broken" /\ file'.expects = file.expects
        BY <2>14, <3>2
      <4>2. file.expects = a + 1
        BY <2>8, <4>1
      <4>3. w = 1 /\ file.expects > 0 /\ g + 1 >= file.expects
        <5> HIDE DEF a, b, g, w, x
        <5> QED BY <2>11, <2>12, <4>2
      <4>4. work' = <<>>
        <5> HIDE DEF S
        <5>1. work' \in Seq(S) /\ Len(work') = 0
          BY <1>0, <2>4, <2>6, <4>3
        <5> QED BY <5>1
      <4>5. Files!IsBroken'
        <5> HIDE DEF g
        <5> QED BY <1>0, <2>9, <2>16, <4>1, <4>3, <4>4 DEF Files!IsBroken
      <4> QED BY <4>5 DEF Files!Turns
    <3> QED BY <3>1, <3>2
  <2>22. "empty" \notin why /\ "overtaken" \notin why => Files!InOrder'
    <3> SUFFICES ASSUME "empty" \notin why, "overtaken" \notin why PROVE Files!InOrder'
      OBVIOUS
    <3>1. /\ \A i \in 1..Len(work') : work'[i] = Files!Part(Files!Passed' + i)
          /\ \A i \in 1..Len(waiting) : waiting[i] = Files!Part(Files!Passed' + Len(work') + i)
      BY <2>12, <2>13, <2>16
    <3>2. file'.missed = 0 => Files!Whole(file'.got)
      <4>1. CASE file'.missed = b + 1
        <5>1. b + 1 # 0
          <6> HIDE DEF b
          <6> QED BY <2>12
        <5> QED BY <4>1, <5>1
      <4>2. CASE file'.got = got /\ file'.missed = b
        <5>1. ASSUME b = 0 PROVE Files!Whole(got)
          <6>1. Files!Whole(file.got) /\ got = Append(file.got, Len(file.got) + 1)
            BY <2>13, <5>1
          <6> HIDE DEF got
          <6> QED BY <2>4, <6>1, WholeAppend
        <5> HIDE DEF got, b
        <5> QED BY <4>2, <5>1
      <4> QED BY <2>14, <4>1, <4>2
    <3>3. \A i \in 1..Len(told') : Files!Whole(told'[i].got)
      BY <1>0, <2>9
    <3> QED BY <1>0, <2>17, <3>1, <3>2, <3>3 DEF Files!InOrder
  <2> QED BY <1>0, <1>2, <2>1, <2>2, <2>9, <2>17, <2>18, <2>19, <2>20, <2>21, <2>22 DEF Files!InTurn
<1> QED BY <1>3, <1>4

-----------------------------------------------------------------------------
(* FileManager: downloads *)

\* No part is owed where none is told of, and what is Idle or Lost owes none.
LEMMA IdleOwesNone ==
  /\ ~Files!Owing(Files!Idle) /\ ~Files!Owing(Files!Lost) /\ Files!Idle # Files!Lost
  /\ Files!Idle \in Debt /\ Files!Lost \in Debt
<1>1. Files!Idle.n = 0 /\ Files!Idle.of = 0 /\ Files!Lost.n = 1 /\ Files!Lost.of = 0
  BY DEF Files!Idle, Files!Lost
<1> QED BY <1>1 DEF Files!Owing, Debt, Files!Idle, Files!Lost

\* After a message that is no part and no header what is owed is lost, or stays.
LEMMA AfterOther ==
  ASSUME NEW e, NEW m, m.kind \notin {"part", "file"}
  PROVE  /\ Files!After(e, m) = e \/ Files!After(e, m) = Files!Lost
         /\ m.kind = "error" => Files!After(e, m) = e
         /\ ~Files!Owing(e) => Files!After(e, m) = e
BY DEF Files!After

\* A message goes to the end of the line.
LEMMA FollowAppend ==
  ASSUME NEW s \in Seq(Files!Messages), NEW m \in Files!Messages, NEW start, NEW debt, NEW next,
         debt = Files!Debts(start, s), next = Files!Debts(start, Append(s, m)),
         Files!PartsFollow(s, debt),
         m.kind = "part" /\ debt[Len(s)] # Files!Lost =>
           Files!Owing(debt[Len(s)]) /\ m = Files!Part(debt[Len(s)].n + 1)
  PROVE  /\ Files!PartsFollow(Append(s, m), next)
         /\ next[Len(Append(s, m))] = Files!After(debt[Len(s)], m)
<1> DEFINE S == Files!Messages
           w == Append(s, m)
<1>1. /\ w \in Seq(S) /\ Len(w) = Len(s) + 1 /\ Len(s) \in Nat /\ w[Len(s) + 1] = m
      /\ \A i \in 1..Len(s) : w[i] = s[i]
  <2> HIDE DEF S
  <2>1. s \in Seq(S) /\ m \in S
    BY DEF S
  <2> QED BY <2>1, LineAppend
<1>2. /\ \A i \in 0..Len(s) : next[i] = debt[i]
      /\ next[Len(s) + 1] = Files!After(debt[Len(s)], m)
  BY DebtsAppend
<1> HIDE DEF w
<1>3. ASSUME NEW i \in 1..Len(w), next[i - 1] # Files!Lost, w[i].kind = "part"
      PROVE  Files!Owing(next[i - 1]) /\ w[i] = Files!Part(next[i - 1].n + 1)
  <2>1. CASE i = Len(s) + 1
    <3>1. i - 1 = Len(s) /\ Len(s) \in 0..Len(s)
      BY <1>1, <2>1
    <3> QED BY <1>1, <1>2, <1>3, <2>1, <3>1
  <2>2. CASE i # Len(s) + 1
    <3>1. i \in 1..Len(s) /\ i - 1 \in 0..Len(s)
      BY <1>1, <2>2
    <3> QED BY <1>1, <1>2, <1>3, <3>1 DEF Files!PartsFollow
  <2> QED BY <2>1, <2>2
<1>4. Files!PartsFollow(w, next)
  BY <1>3 DEF Files!PartsFollow
<1> QED BY <1>1, <1>2, <1>4 DEF w

\* A gap that is told stays told behind one more message, if that message opens no other.
LEMMA GapsAppend ==
  ASSUME NEW s \in Seq(Files!Messages), NEW m \in Files!Messages, NEW start, NEW debt, NEW next,
         NEW tasks, NEW others,
         debt = Files!Debts(start, s), next = Files!Debts(start, Append(s, m)),
         Files!GapsAreTold(s, tasks, debt),
         Files!Owing(Files!After(debt[Len(s)], m)) /\ (\A t \in Files!Transfer : ~Files!Begun(others[t])) =>
           /\ Files!Owing(debt[Len(s)])
           /\ m.kind = "error" \/ \A t \in Files!Transfer : ~Files!Begun(tasks[t])
  PROVE  Files!GapsAreTold(Append(s, m), others, next)
<1> DEFINE S == Files!Messages
           w == Append(s, m)
<1>1. /\ w \in Seq(S) /\ Len(w) = Len(s) + 1 /\ Len(s) \in Nat /\ w[Len(s) + 1] = m
      /\ \A i \in 1..Len(s) : w[i] = s[i]
  <2> HIDE DEF S
  <2>1. s \in Seq(S) /\ m \in S
    BY DEF S
  <2> QED BY <2>1, LineAppend
<1>2. /\ \A i \in 0..Len(s) : next[i] = debt[i]
      /\ next[Len(s) + 1] = Files!After(debt[Len(s)], m)
  BY DebtsAppend
<1> HIDE DEF w
<1>3. ASSUME Files!Owing(next[Len(w)]), \A t \in Files!Transfer : ~Files!Begun(others[t])
      PROVE  \E i \in 1..Len(w) : w[i].kind = "error" /\ Files!Owing(next[i - 1])
  <2>1. /\ Files!Owing(debt[Len(s)])
        /\ m.kind = "error" \/ \A t \in Files!Transfer : ~Files!Begun(tasks[t])
    BY <1>1, <1>2, <1>3
  <2>2. CASE m.kind = "error"
    <3>1. Len(s) + 1 \in 1..Len(w) /\ (Len(s) + 1) - 1 = Len(s) /\ Len(s) \in 0..Len(s)
      BY <1>1
    <3> QED BY <1>1, <1>2, <2>1, <2>2, <3>1
  <2>3. CASE \A t \in Files!Transfer : ~Files!Begun(tasks[t])
    <3>1. PICK i \in 1..Len(s) : s[i].kind = "error" /\ Files!Owing(debt[i - 1])
      BY <2>1, <2>3 DEF Files!GapsAreTold
    <3>2. i \in 1..Len(w) /\ i - 1 \in 0..Len(s)
      BY <1>1
    <3> QED BY <1>1, <1>2, <3>1, <3>2
  <2> QED BY <2>1, <2>2, <2>3
<1> QED BY <1>3 DEF Files!GapsAreTold, w

\* The page takes the first message: what follows it is owed as before.
LEMMA FollowTail ==
  ASSUME NEW s \in Seq(Files!Messages), s # <<>>, NEW start, NEW debt, NEW next,
         debt = Files!Debts(start, s), next = Files!Debts(Files!After(start, Head(s)), Tail(s)),
         Files!PartsFollow(s, debt)
  PROVE  /\ Files!PartsFollow(Tail(s), next) /\ next[Len(Tail(s))] = debt[Len(s)]
         /\ \A tasks : /\ Files!GapsAreTold(s, tasks, debt)
                       /\ ~(Head(s).kind = "error" /\ Files!Owing(start))
                       => Files!GapsAreTold(Tail(s), tasks, next)
<1> DEFINE S == Files!Messages
           w == Tail(s)
<1>1. /\ w \in Seq(S) /\ Len(w) = Len(s) - 1 /\ Len(s) \in Nat \ {0} /\ Head(s) = s[1]
      /\ \A i \in 1..Len(w) : w[i] = s[i + 1]
  <2> HIDE DEF S
  <2>1. s \in Seq(S)
    BY DEF S
  <2> QED BY <2>1
<1>2. \A i \in 0..Len(s) - 1 : next[i] = debt[i + 1]
  BY DebtsTail
<1>0. debt[0] = start
  BY DebtsSteps
<1> HIDE DEF w
<1>3. ASSUME NEW i \in 1..Len(w), next[i - 1] # Files!Lost, w[i].kind = "part"
      PROVE  Files!Owing(next[i - 1]) /\ w[i] = Files!Part(next[i - 1].n + 1)
  <2>1. i - 1 \in 0..Len(s) - 1 /\ i + 1 \in 1..Len(s) /\ (i - 1) + 1 = (i + 1) - 1
    BY <1>1
  <2>2. next[i - 1] = debt[(i + 1) - 1] /\ w[i] = s[i + 1]
    BY <1>1, <1>2, <2>1
  <2> QED BY <1>3, <2>1, <2>2 DEF Files!PartsFollow
<1>4. next[Len(w)] = debt[Len(s)]
  <2>1. Len(w) \in 0..Len(s) - 1 /\ Len(w) + 1 = Len(s)
    BY <1>1
  <2> QED BY <1>2, <2>1
<1>5. ASSUME NEW tasks, Files!GapsAreTold(s, tasks, debt), ~(Head(s).kind = "error" /\ Files!Owing(start))
      PROVE  Files!GapsAreTold(w, tasks, next)
  <2> SUFFICES ASSUME Files!Owing(next[Len(w)]), \A t \in Files!Transfer : ~Files!Begun(tasks[t])
               PROVE  \E i \in 1..Len(w) : w[i].kind = "error" /\ Files!Owing(next[i - 1])
    BY DEF Files!GapsAreTold
  <2>1. PICK i \in 1..Len(s) : s[i].kind = "error" /\ Files!Owing(debt[i - 1])
    BY <1>4, <1>5 DEF Files!GapsAreTold
  <2>2. i # 1
    <3>1. i = 1 => i - 1 = 0
      OBVIOUS
    <3> QED BY <1>0, <1>1, <1>5, <2>1, <3>1
  <2>3. i - 1 \in 1..Len(w) /\ (i - 1) - 1 \in 0..Len(s) - 1 /\ ((i - 1) - 1) + 1 = i - 1 /\ (i - 1) + 1 = i
    BY <1>1, <2>2
  <2>4. w[i - 1] = s[i] /\ next[(i - 1) - 1] = debt[i - 1]
    BY <1>1, <1>2, <2>3
  <2> QED BY <2>1, <2>3, <2>4
<1>6. Files!PartsFollow(w, next)
  BY <1>3 DEF Files!PartsFollow
<1> QED BY <1>4, <1>5, <1>6 DEF w

\* What a task has left of a file.
LEMMA RestBegins ==
  ASSUME NEW e \in Debt, Files!Owing(e)
  PROVE  /\ Files!Rest(e) # <<>> /\ Files!Rest(e)[1] = Files!Part(e.n + 1) /\ Head(Files!Rest(e)) = Files!Part(e.n + 1)
         /\ Files!Begun(Files!Rest(e))
         /\ e.n + 1 < e.of => Tail(Files!Rest(e)) = Files!Rest([e EXCEPT !.n = @ + 1])
         /\ ~(e.n + 1 < e.of) => Tail(Files!Rest(e)) = <<>>
<1> DEFINE S == {Files!Part(i) : i \in Nat}
           a == e.n
           k == e.of - e.n
           r == [i \in 1..k |-> Files!Part(a + i)]
           q == [i \in 1..k - 1 |-> Files!Part((a + 1) + i)]
<1>1. a \in Nat /\ k \in Nat \ {0} /\ e.of \in Nat /\ k = e.of - a /\ a = e.n
  BY DEF Debt, Files!Owing
<1>2. Files!Rest(e) = r
  BY DEF Files!Rest
<1>3. Files!Rest([e EXCEPT !.n = @ + 1]) = q
  <2>1. [e EXCEPT !.n = @ + 1].n = a + 1 /\ [e EXCEPT !.n = @ + 1].of = e.of
    BY DEF Debt
  <2>2. e.of - (a + 1) = k - 1
    BY <1>1
  <2> HIDE DEF a, k
  <2>3. Files!Rest([e EXCEPT !.n = @ + 1]) = [i \in 1..e.of - (a + 1) |-> Files!Part((a + 1) + i)]
    BY <2>1 DEF Files!Rest
  <2> QED BY <2>2, <2>3
<1> HIDE DEF a, k
<1>4. r \in Seq(S) /\ Len(r) = k /\ \A i \in 1..k : r[i] = Files!Part(a + i)
  <2>1. \A i \in 1..k : Files!Part(a + i) \in S
    <3>1. \A i \in 1..k : a + i \in Nat
      BY <1>1
    <3> QED BY <3>1
  <2> HIDE DEF S
  <2> QED BY <1>1, <2>1
<1>5. q \in Seq(S) /\ Len(q) = k - 1 /\ \A i \in 1..k - 1 : q[i] = Files!Part((a + 1) + i)
  <2>1. \A i \in 1..k - 1 : Files!Part((a + 1) + i) \in S
    <3>1. \A i \in 1..k - 1 : (a + 1) + i \in Nat
      BY <1>1
    <3> QED BY <3>1
  <2> DEFINE j == k - 1
             b == a + 1
  <2>2. j \in Nat /\ \A i \in 1..j : Files!Part(b + i) \in S
    BY <1>1, <2>1
  <2>3. q = [i \in 1..j |-> Files!Part(b + i)]
    OBVIOUS
  <2> HIDE DEF S, j, b, q
  <2>4. q \in Seq(S) /\ Len(q) = j /\ \A i \in 1..j : q[i] = Files!Part(b + i)
    BY <2>2, <2>3
  <2> QED BY <2>4 DEF j, b
<1> HIDE DEF r, q, S
<1>6. 1 \in 1..k /\ r # <<>>
  BY <1>1, <1>4
<1>7. r[1] = Files!Part(a + 1) /\ Head(r) = r[1]
  BY <1>4, <1>6
<1>8. Tail(r) = q
  <2>1. Tail(r) \in Seq(S) /\ Len(Tail(r)) = k - 1 /\ \A i \in 1..k - 1 : Tail(r)[i] = r[i + 1]
    BY <1>1, <1>4, <1>6
  <2>2. ASSUME NEW i \in 1..k - 1 PROVE Tail(r)[i] = q[i]
    <3>1. i + 1 \in 1..k /\ a + (i + 1) = (a + 1) + i
      BY <1>1
    <3> QED BY <1>4, <1>5, <2>1, <3>1
  <2> QED BY <1>5, <2>1, <2>2, SeqEqual
<1>9. ~(a + 1 < e.of) => q = <<>>
  <2>1. ~(a + 1 < e.of) => Len(q) = 0
    BY <1>1, <1>5
  <2> QED BY <1>5, <2>1
<1>10. Files!Begun(r)
  <2>1. Files!Part(a + 1).kind = "part"
    BY DEF Files!Part, Files!Msg
  <2> QED BY <1>6, <1>7, <2>1 DEF Files!Begun
<1> QED BY <1>1, <1>2, <1>3, <1>6, <1>7, <1>8, <1>9, <1>10

\* All parts of a file are its rest, when none has gone.
LEMMA PartsAreTheRest ==
  ASSUME NEW n \in Nat
  PROVE  Files!Parts(n) = Files!Rest([n |-> 0, of |-> n])
<1>1. Files!Rest([n |-> 0, of |-> n]) = [i \in 1..n - 0 |-> Files!Part(0 + i)]
  BY DEF Files!Rest
<1>2. 1..n - 0 = 1..n /\ \A i \in 1..n : 0 + i = i
  OBVIOUS
<1> QED BY <1>1, <1>2 DEF Files!Parts

\* A download that begins, and what a task sends first.
LEMMA FreshBegins ==
  ASSUME Files!FilesAssumption, NEW n \in 0..MaxSize
  PROVE  /\ Files!Fresh(<<Files!Header(n)>> \o Files!Parts(n)) /\ ~Files!Begun(<<Files!Header(n)>> \o Files!Parts(n))
         /\ Head(<<Files!Header(n)>> \o Files!Parts(n)) = Files!Header(n)
         /\ Tail(<<Files!Header(n)>> \o Files!Parts(n)) = Files!Parts(n)
<1> DEFINE S == Files!Messages
           h == Files!Header(n)
           p == Files!Parts(n)
           s == <<h>> \o p
<1>1. h \in S /\ p \in Seq(S) /\ h.kind = "file" /\ h.n = n
  BY MessageTypes DEF Files!Header, Files!Msg
<1>2. s # <<>> /\ s[1] = h /\ Head(s) = h /\ Tail(s) = p
  <2> HIDE DEF S, h, p
  <2>1. <<h>> \in Seq(S) /\ Len(<<h>>) = 1 /\ <<h>>[1] = h
    BY <1>1
  <2>2. s \in Seq(S) /\ Len(s) = 1 + Len(p) /\ Len(p) \in Nat
        /\ \A i \in 1..1 + Len(p) : s[i] = IF i <= 1 THEN h ELSE p[i - 1]
    <3>1. s \in Seq(S) /\ Len(s) = Len(<<h>>) + Len(p) /\ Len(p) \in Nat
          /\ \A i \in 1..Len(<<h>>) + Len(p) : s[i] = IF i <= Len(<<h>>) THEN <<h>>[i] ELSE p[i - Len(<<h>>)]
      BY <1>1, <2>1, ConcatProperties, LenProperties
    <3>2. \A i \in 1..1 + Len(p) : i <= 1 => i = 1
      OBVIOUS
    <3> HIDE DEF s
    <3> QED BY <2>1, <3>1, <3>2
  <2>3. 1 \in 1..1 + Len(p)
    BY <2>2
  <2>4. s # <<>> /\ s[1] = h /\ Head(s) = h
    <3>1. s[1] = h
      BY <2>2, <2>3
    <3> HIDE DEF s
    <3> QED BY <2>2, <3>1
  <2>5. Tail(s) = p
    <3>1. Tail(s) \in Seq(S) /\ Len(Tail(s)) = Len(p) /\ \A i \in 1..Len(p) : Tail(s)[i] = s[i + 1]
      <4> HIDE DEF s
      <4> QED BY <2>2, <2>4
    <3>2. ASSUME NEW i \in 1..Len(p) PROVE Tail(s)[i] = p[i]
      <4>1. i + 1 \in 1..1 + Len(p) /\ ~(i + 1 <= 1) /\ (i + 1) - 1 = i
        BY <2>2
      <4> HIDE DEF s
      <4> QED BY <2>2, <3>1, <4>1
    <3> HIDE DEF s
    <3> QED BY <1>1, <3>1, <3>2, SeqEqual
  <2> QED BY <2>4, <2>5
<1> HIDE DEF h, p
<1>3. s = <<Files!Header(s[1].n)>> \o Files!Parts(s[1].n)
  BY <1>1, <1>2 DEF h, p
<1>4. s[1].kind = "file"
  BY <1>1, <1>2
<1> HIDE DEF s
<1>5. Files!Fresh(s) /\ ~Files!Begun(s)
  BY <1>2, <1>3, <1>4 DEF Files!Fresh, Files!Begun
<1> QED BY <1>2, <1>5 DEF s, h, p

\* A task that sends.
LEMMA TasksSend ==
  ASSUME Files!FilesAssumption, NEW tasks \in [Files!Transfer -> Seq(Files!Messages)], NEW t \in Files!Transfer,
         tasks[t] # <<>>, NEW e \in Debt, Files!TasksFit(tasks, e), NEW m, m = Head(tasks[t]), NEW others,
         others = [tasks EXCEPT ![t] = Tail(tasks[t])]
  PROVE  /\ m.kind = "part" /\ e # Files!Lost => Files!Owing(e) /\ m = Files!Part(e.n + 1)
         /\ Files!TasksFit(others, Files!After(e, m))
         /\ Files!Owing(Files!After(e, m)) => Files!Begun(others[t])
<1> DEFINE next == Files!After(e, m)
<1>1. others[t] = Tail(tasks[t]) /\ \A u \in Files!Transfer \ {t} : others[u] = tasks[u]
  OBVIOUS
<1>2. CASE e = Files!Lost
  <2>1. next = Files!Lost
    BY <1>2 DEF Files!After
  <2> QED BY <1>2, <2>1, IdleOwesNone DEF Files!TasksFit
<1>3. CASE e # Files!Lost
  <2>1. /\ \A u \in Files!Transfer : tasks[u] = <<>> \/ Files!Fresh(tasks[u]) \/ (Files!Owing(e) /\ tasks[u] = Files!Rest(e))
        /\ \A u, v \in Files!Transfer : Files!Begun(tasks[u]) /\ Files!Begun(tasks[v]) => u = v
    BY <1>3 DEF Files!TasksFit
  <2>2. Files!Owing(e) => Files!Begun(Files!Rest(e))
    BY RestBegins
  <2>3. \A s : Files!Fresh(s) => ~Files!Begun(s)
    BY DEF Files!Fresh, Files!Begun
  <2>4. ~Files!Begun(<<>>)
    BY DEF Files!Begun
  <2>5. CASE Files!Fresh(tasks[t])
    <3> DEFINE n == tasks[t][1].n
    <3>1. n \in 0..MaxSize
      <4>1. tasks[t] \in Seq(Files!Messages) /\ Len(tasks[t]) \in Nat
        OBVIOUS
      <4>2. 1 \in 1..Len(tasks[t])
        BY <4>1
      <4>3. tasks[t][1] \in Files!Messages
        BY <4>1, <4>2
      <4> QED BY <4>3 DEF Files!Messages
    <3>2. tasks[t] = <<Files!Header(n)>> \o Files!Parts(n)
      BY <2>5 DEF Files!Fresh
    <3> HIDE DEF n
    <3>3. m = Files!Header(n) /\ others[t] = Files!Parts(n) /\ n \in Nat
      <4>1. n \in Nat
        BY <3>1 DEF Files!FilesAssumption
      <4> DEFINE w == <<Files!Header(n)>> \o Files!Parts(n)
      <4>2. Head(w) = Files!Header(n) /\ Tail(w) = Files!Parts(n)
        BY <3>1, FreshBegins
      <4>3. tasks[t] = w
        BY <3>2
      <4> HIDE DEF w
      <4> QED BY <1>1, <4>1, <4>2, <4>3
    <3>4. m.kind = "file" /\ m.n = n
      BY <3>3 DEF Files!Header, Files!Msg
    <3>5. CASE Files!Owing(e) \/ n = 0
      <4>1. next = Files!Lost
        BY <1>3, <3>4, <3>5 DEF Files!After
      <4> QED BY <3>4, <4>1, IdleOwesNone DEF Files!TasksFit
    <3>6. CASE ~Files!Owing(e) /\ n # 0
      <4>1. next = [n |-> 0, of |-> n]
        BY <1>3, <3>4, <3>6 DEF Files!After
      <4>2. next \in Debt /\ Files!Owing(next)
        BY <3>3, <3>6, <4>1 DEF Debt, Files!Owing
      <4>3. others[t] = Files!Rest(next)
        BY <3>3, <4>1, PartsAreTheRest
      <4>4. Files!Begun(others[t])
        BY <4>2, <4>3, RestBegins
      <4>5. \A u \in Files!Transfer \ {t} : (others[u] = <<>> \/ Files!Fresh(others[u])) /\ ~Files!Begun(others[u])
        BY <1>1, <2>1, <2>3, <2>4, <3>6
      <4> HIDE DEF next
      <4>6. Files!TasksFit(others, next)
        BY <4>2, <4>3, <4>5 DEF Files!TasksFit
      <4> QED BY <3>4, <4>4, <4>6 DEF next
    <3> QED BY <3>5, <3>6
  <2>6. CASE Files!Owing(e) /\ tasks[t] = Files!Rest(e)
    <3>1. m = Files!Part(e.n + 1) /\ Files!Begun(tasks[t])
      BY <2>6, RestBegins
    <3>2. m.kind = "part"
      BY <3>1 DEF Files!Part, Files!Msg
    <3>3. \A u \in Files!Transfer \ {t} : (others[u] = <<>> \/ Files!Fresh(others[u])) /\ ~Files!Begun(others[u])
      BY <1>1, <2>1, <2>2, <2>3, <2>4, <3>1
    <3>4. CASE e.n + 1 < e.of
      <4>1. next = [e EXCEPT !.n = @ + 1]
        BY <1>3, <3>2, <3>4 DEF Files!After
      <4>2. next \in Debt /\ Files!Owing(next)
        BY <3>4, <4>1 DEF Debt, Files!Owing
      <4>3. others[t] = Files!Rest(next)
        BY <1>1, <2>6, <3>4, <4>1, RestBegins
      <4>4. Files!Begun(others[t])
        BY <4>2, <4>3, RestBegins
      <4> HIDE DEF next
      <4>5. Files!TasksFit(others, next)
        BY <3>3, <4>2, <4>3 DEF Files!TasksFit
      <4> QED BY <2>6, <3>1, <4>4, <4>5 DEF next
    <3>5. CASE ~(e.n + 1 < e.of)
      <4>1. next = Files!Idle
        BY <1>3, <3>2, <3>5 DEF Files!After
      <4>2. others[t] = <<>>
        BY <1>1, <2>6, <3>5, RestBegins
      <4>3. Files!TasksFit(others, next)
        <5> HIDE DEF next
        <5> QED BY <2>4, <3>3, <4>2 DEF Files!TasksFit
      <4> QED BY <2>6, <3>1, <4>1, <4>3, IdleOwesNone
    <3> QED BY <3>4, <3>5
  <2> QED BY <2>1, <2>5, <2>6
<1> QED BY <1>2, <1>3

\* A message that is no part and no file leaves what the tasks have fitting.
LEMMA TasksLeave ==
  ASSUME NEW tasks \in [Files!Transfer -> Seq(Files!Messages)], NEW e, Files!TasksFit(tasks, e)
  PROVE  /\ \A m : m.kind \notin {"part", "file"} => Files!TasksFit(tasks, Files!After(e, m))
         /\ \A t \in Files!Transfer : Files!TasksFit([tasks EXCEPT ![t] = <<>>], e)
<1>1. ASSUME NEW m, m.kind \notin {"part", "file"} PROVE Files!TasksFit(tasks, Files!After(e, m))
  <2>1. Files!After(e, m) = e \/ Files!After(e, m) = Files!Lost
    BY <1>1, AfterOther
  <2>2. Files!TasksFit(tasks, Files!Lost)
    BY DEF Files!TasksFit
  <2> QED BY <2>1, <2>2
<1>2. ASSUME NEW t \in Files!Transfer PROVE Files!TasksFit([tasks EXCEPT ![t] = <<>>], e)
  <2> DEFINE others == [tasks EXCEPT ![t] = <<>>]
  <2>1. others[t] = <<>> /\ \A u \in Files!Transfer \ {t} : others[u] = tasks[u]
    OBVIOUS
  <2>2. ~Files!Begun(<<>>)
    BY DEF Files!Begun
  <2> HIDE DEF others
  <2>3. Files!TasksFit(others, e)
    BY <2>1, <2>2 DEF Files!TasksFit
  <2> QED BY <2>3 DEF others
<1> QED BY <1>1, <1>2

\* So does a task that gets a file of its own.
LEMMA TasksBegin ==
  ASSUME Files!FilesAssumption, NEW tasks, NEW e, Files!TasksFit(tasks, e), NEW t \in Files!Transfer,
         ~Files!Begun(tasks[t]), NEW n \in 0..MaxSize, NEW others, others[t] = <<Files!Header(n)>> \o Files!Parts(n),
         \A u \in Files!Transfer \ {t} : others[u] = tasks[u]
  PROVE  /\ Files!TasksFit(others, e)
         /\ \A u \in Files!Transfer : Files!Begun(others[u]) <=> Files!Begun(tasks[u])
<1>1. Files!Fresh(others[t]) /\ ~Files!Begun(others[t])
  BY FreshBegins
<1>2. \A u \in Files!Transfer : Files!Begun(others[u]) <=> Files!Begun(tasks[u])
  BY <1>1
<1>3. \A u \in Files!Transfer : Files!Fresh(others[u]) \/ others[u] = tasks[u]
  BY <1>1
<1> QED BY <1>2, <1>3 DEF Files!TasksFit

\* What the page is owed is a debt.
LEMMA OwedType ==
  ASSUME Files!FilesAssumption, Files!TypeOK
  PROVE  Files!Owed \in Debt
<1>1. /\ file.got \in Seq(Nat) /\ file.expects \in Nat /\ work \in Seq(Files!Messages)
      /\ waiting \in Seq(Files!Messages)
  BY DEF Files!TypeOK, Files!FilesAssumption
<1>2. Files!Count \in Nat
  <2>1. work # <<>> => work[1] \in Files!Messages
    BY <1>1
  <2> QED BY <1>1, <2>1 DEF Files!Count, Files!Messages
<1>3. Files!Taken \in Nat
  <2>1. Len(file.got) \in Nat /\ Len(work) \in Nat /\ Len(waiting) \in Nat /\ Len(<<>>) \in Nat
    <3> DEFINE S == Files!Messages
    <3>1. Len(work) \in Nat /\ Len(waiting) \in Nat
      <4>1. work \in Seq(S) /\ waiting \in Seq(S)
        BY <1>1
      <4> HIDE DEF S
      <4> QED BY <4>1
    <3> QED BY <1>1, <3>1
  <2>2. Len(Files!InWork) \in Nat
    BY <2>1 DEF Files!InWork
  <2> DEFINE g == Files!Passed
             w == Len(Files!InWork)
             x == Len(waiting)
  <2>3. Files!Taken = g + w + x /\ g \in Nat /\ w \in Nat /\ x \in Nat
    BY <2>1, <2>2, PassedType DEF Files!Taken
  <2> HIDE DEF g, w, x
  <2> QED BY <2>3
<1> QED BY <1>2, <1>3, IdleOwesNone DEF Files!Owed, Debt

\* What touches neither the line to the page, the tasks nor what is owed keeps the downloads.
LEMMA DownUnchanged ==
  ASSUME Files!DownloadsFollow, why \subseteq why', UNCHANGED <<down, task>>, Files!Owed' = Files!Owed
  PROVE  Files!DownloadsFollow'
BY DEF Files!DownloadsFollow

\* The agent answers.
LEMMA DownAnswers ==
  ASSUME Files!FilesAssumption, Files!TypeOK, Files!DownloadsFollow, why \subseteq why', UNCHANGED task,
         Files!Owed' = Files!Owed, NEW m \in Files!Messages, m.kind \notin {"part", "file"},
         down' = Append(down, m)
  PROVE  Files!DownloadsFollow'
<1>1. PICK debt : debt = Files!Debts(Files!Owed, down)
  OBVIOUS
<1>2. PICK next : next = Files!Debts(Files!Owed, Append(down, m))
  OBVIOUS
<1>3. /\ Files!PartsFollow(down, debt) /\ Files!TasksFit(task, debt[Len(down)])
      /\ {"failed", "dropped"} \intersect why = {} => Files!GapsAreTold(down, task, debt)
  BY <1>1 DEF Files!DownloadsFollow
<1>4. down \in Seq(Files!Messages) /\ task \in [Files!Transfer -> Seq(Files!Messages)]
  BY DEF Files!TypeOK
<1>5. /\ Files!PartsFollow(Append(down, m), next)
      /\ next[Len(Append(down, m))] = Files!After(debt[Len(down)], m)
  BY <1>1, <1>2, <1>3, <1>4, FollowAppend
<1>6. Files!TasksFit(task, Files!After(debt[Len(down)], m))
  BY <1>3, <1>4, TasksLeave
<1>7. Files!GapsAreTold(down, task, debt) => Files!GapsAreTold(Append(down, m), task, next)
  <2>1. Files!Owing(Files!After(debt[Len(down)], m)) => Files!Owing(debt[Len(down)])
    BY AfterOther, IdleOwesNone
  <2> QED BY <1>1, <1>2, <1>4, <2>1, GapsAppend
<1>8. /\ Files!PartsFollow(down', next) /\ Files!TasksFit(task', next[Len(down')])
      /\ {"failed", "dropped"} \intersect why' = {} => Files!GapsAreTold(down', task', next)
      /\ next = Files!Debts(Files!Owed', down')
  BY <1>2, <1>3, <1>5, <1>6, <1>7
<1> QED BY <1>8 DEF Files!DownloadsFollow

\* A download's task begins.
LEMMA DownBegins ==
  ASSUME Files!FilesAssumption, Files!TypeOK, Files!DownloadsFollow, UNCHANGED <<why, down>>,
         Files!Owed' = Files!Owed, NEW t \in Files!Transfer, task[t] = <<>>, NEW n \in 0..MaxSize,
         task' = [task EXCEPT ![t] = <<Files!Header(n)>> \o Files!Parts(n)]
  PROVE  Files!DownloadsFollow'
<1>1. PICK debt : debt = Files!Debts(Files!Owed, down)
  OBVIOUS
<1>2. /\ Files!PartsFollow(down, debt) /\ Files!TasksFit(task, debt[Len(down)])
      /\ {"failed", "dropped"} \intersect why = {} => Files!GapsAreTold(down, task, debt)
  BY <1>1 DEF Files!DownloadsFollow
<1>3. task \in [Files!Transfer -> Seq(Files!Messages)]
  BY DEF Files!TypeOK
<1>4. /\ Files!TasksFit(task', debt[Len(down)])
      /\ \A u \in Files!Transfer : Files!Begun(task'[u]) <=> Files!Begun(task[u])
  <2>1. PICK others : others = task'
    OBVIOUS
  <2>2. /\ others[t] = <<Files!Header(n)>> \o Files!Parts(n)
        /\ \A u \in Files!Transfer \ {t} : others[u] = task[u]
    BY <1>3, <2>1
  <2>3. /\ Files!TasksFit(others, debt[Len(down)])
        /\ \A u \in Files!Transfer : Files!Begun(others[u]) <=> Files!Begun(task[u])
    <3>1. ~Files!Begun(task[t])
      BY DEF Files!Begun
    <3>2. PICK tasks : tasks = task
      OBVIOUS
    <3>3. PICK last : last = debt[Len(down)]
      OBVIOUS
    <3>4. /\ Files!TasksFit(tasks, last) /\ ~Files!Begun(tasks[t])
          /\ \A u \in Files!Transfer \ {t} : others[u] = tasks[u]
      BY <1>2, <2>2, <3>1, <3>2, <3>3
    <3>5. Files!TasksFit(others, last)
      BY <2>2, <3>4, TasksBegin
    <3>6. \A u \in Files!Transfer : Files!Begun(others[u]) <=> Files!Begun(tasks[u])
      BY <2>2, <3>4, TasksBegin
    <3> QED BY <3>2, <3>3, <3>5, <3>6
  <2> QED BY <2>1, <2>3
<1>5. Files!GapsAreTold(down, task, debt) => Files!GapsAreTold(down, task', debt)
  BY <1>4 DEF Files!GapsAreTold
<1>6. /\ Files!PartsFollow(down', debt) /\ Files!TasksFit(task', debt[Len(down')])
      /\ {"failed", "dropped"} \intersect why' = {} => Files!GapsAreTold(down', task', debt)
      /\ debt = Files!Debts(Files!Owed', down')
  BY <1>1, <1>2, <1>4, <1>5
<1> QED BY <1>6 DEF Files!DownloadsFollow

\* It sends, or fails.
LEMMA DownSends ==
  ASSUME Files!FilesAssumption, Files!TypeOK, Files!DownloadsFollow, UNCHANGED why,
         Files!Owed' = Files!Owed, NEW t \in Files!Transfer, Files!TaskSends(t)
  PROVE  Files!DownloadsFollow'
<1>1. PICK debt : debt = Files!Debts(Files!Owed, down)
  OBVIOUS
<1>2. /\ Files!PartsFollow(down, debt) /\ Files!TasksFit(task, debt[Len(down)])
      /\ {"failed", "dropped"} \intersect why = {} => Files!GapsAreTold(down, task, debt)
  BY <1>1 DEF Files!DownloadsFollow
<1>3. down \in Seq(Files!Messages) /\ task \in [Files!Transfer -> Seq(Files!Messages)] /\ task[t] # <<>>
  BY DEF Files!TypeOK, Files!TaskSends
<1>4. debt[Len(down)] \in Debt
  <2>1. Len(down) \in 0..Len(down)
    BY <1>3
  <2> QED BY <1>1, <1>3, <2>1, OwedType, DebtsTypes
<1>5. CASE down' = Append(down, Head(task[t])) /\ task' = [task EXCEPT ![t] = Tail(task[t])]
  <2>1. PICK m : m = Head(task[t])
    OBVIOUS
  <2>2. m \in Files!Messages
    BY <1>3, <2>1
  <2>3. PICK next : next = Files!Debts(Files!Owed, Append(down, m))
    OBVIOUS
  <2>4. PICK last : last = debt[Len(down)]
    OBVIOUS
  <2>5. /\ m.kind = "part" /\ last # Files!Lost => Files!Owing(last) /\ m = Files!Part(last.n + 1)
        /\ Files!TasksFit(task', Files!After(last, m))
        /\ Files!Owing(Files!After(last, m)) => Files!Begun(task'[t])
    BY <1>2, <1>3, <1>4, <1>5, <2>1, <2>4, TasksSend
  <2>6. /\ Files!PartsFollow(Append(down, m), next) /\ next[Len(Append(down, m))] = Files!After(last, m)
    BY <1>1, <1>2, <1>3, <2>2, <2>3, <2>4, <2>5, FollowAppend
  <2>7. Files!GapsAreTold(down, task, debt) => Files!GapsAreTold(Append(down, m), task', next)
    BY <1>1, <1>3, <2>2, <2>3, <2>4, <2>5, GapsAppend
  <2>8. /\ Files!PartsFollow(down', next) /\ Files!TasksFit(task', next[Len(down')])
        /\ {"failed", "dropped"} \intersect why' = {} => Files!GapsAreTold(down', task', next)
        /\ next = Files!Debts(Files!Owed', down')
    BY <1>2, <1>5, <2>1, <2>3, <2>5, <2>6, <2>7
  <2> QED BY <2>8 DEF Files!DownloadsFollow
<1>6. CASE down' = Append(down, Files!Error) /\ task' = [task EXCEPT ![t] = <<>>]
  <2>1. PICK m : m = Files!Error
    OBVIOUS
  <2>2. m \in Files!Messages /\ m.kind = "error"
    BY <2>1, MessageTypes DEF Files!Error, Files!Msg
  <2>3. PICK next : next = Files!Debts(Files!Owed, Append(down, m))
    OBVIOUS
  <2>4. PICK last : last = debt[Len(down)]
    OBVIOUS
  <2>5. Files!After(last, m) = last /\ Files!TasksFit(task', last)
    BY <1>2, <1>3, <1>6, <2>2, <2>4, AfterOther, TasksLeave
  <2>6. /\ Files!PartsFollow(Append(down, m), next) /\ next[Len(Append(down, m))] = Files!After(last, m)
    BY <1>1, <1>2, <1>3, <2>2, <2>3, <2>4, FollowAppend
  <2>7. Files!GapsAreTold(down, task, debt) => Files!GapsAreTold(Append(down, m), task', next)
    BY <1>1, <1>3, <2>2, <2>3, <2>4, <2>5, GapsAppend
  <2>8. /\ Files!PartsFollow(down', next) /\ Files!TasksFit(task', next[Len(down')])
        /\ {"failed", "dropped"} \intersect why' = {} => Files!GapsAreTold(down', task', next)
        /\ next = Files!Debts(Files!Owed', down')
    BY <1>2, <1>6, <2>1, <2>3, <2>5, <2>6, <2>7
  <2> QED BY <2>8 DEF Files!DownloadsFollow
<1> QED BY <1>5, <1>6 DEF Files!TaskSends

\* The page takes what came first.
LEMMA DownTakes ==
  ASSUME Files!FilesAssumption, Files!TypeOK, Files!DownloadsFollow, why \subseteq why', UNCHANGED task,
         down # <<>>, down' = Tail(down), Files!Owed' = Files!After(Files!Owed, Head(down)),
         Head(down).kind = "error" /\ Files!Owing(Files!Owed) => "failed" \in why'
  PROVE  Files!DownloadsFollow'
<1>1. PICK debt : debt = Files!Debts(Files!Owed, down)
  OBVIOUS
<1>2. PICK next : next = Files!Debts(Files!After(Files!Owed, Head(down)), Tail(down))
  OBVIOUS
<1>3. /\ Files!PartsFollow(down, debt) /\ Files!TasksFit(task, debt[Len(down)])
      /\ {"failed", "dropped"} \intersect why = {} => Files!GapsAreTold(down, task, debt)
  BY <1>1 DEF Files!DownloadsFollow
<1>4. down \in Seq(Files!Messages)
  BY DEF Files!TypeOK
<1>5. /\ Files!PartsFollow(Tail(down), next) /\ next[Len(Tail(down))] = debt[Len(down)]
      /\ \A tasks : /\ Files!GapsAreTold(down, tasks, debt)
                    /\ ~(Head(down).kind = "error" /\ Files!Owing(Files!Owed))
                    => Files!GapsAreTold(Tail(down), tasks, next)
  BY <1>1, <1>2, <1>3, <1>4, FollowTail
<1>6. {"failed", "dropped"} \intersect why' = {} => Files!GapsAreTold(Tail(down), task, next)
  BY <1>3, <1>5
<1>7. /\ Files!PartsFollow(down', next) /\ Files!TasksFit(task', next[Len(down')])
      /\ {"failed", "dropped"} \intersect why' = {} => Files!GapsAreTold(down', task', next)
      /\ next = Files!Debts(Files!Owed', down')
  BY <1>2, <1>3, <1>5, <1>6
<1> QED BY <1>7 DEF Files!DownloadsFollow

\* A connection that drops leaves nothing to take.
LEMMA DownDrops ==
  ASSUME Files!Drop
  PROVE  Files!DownloadsFollow'
<1>1. /\ down' = <<>> /\ "dropped" \in why' /\ \A t \in Files!Transfer : task'[t] = <<>>
  BY DEF Files!Drop
<1>2. Len(down') = 0 /\ ~Files!Begun(<<>>)
  BY <1>1 DEF Files!Begun
<1>3. \A debt : Files!PartsFollow(down', debt)
  BY <1>2 DEF Files!PartsFollow
<1>4. \A e : Files!TasksFit(task', e)
  BY <1>1, <1>2 DEF Files!TasksFit
<1> QED BY <1>1, <1>3, <1>4 DEF Files!DownloadsFollow

-----------------------------------------------------------------------------
(* FileManager: the invariant *)

\* Every step of the page keeps the turns, the saved files and the downloads.
LEMMA PageRestStep ==
  ASSUME Files!FilesAssumption, Files!FilesIInv,
         \/ Files!Refresh \/ Files!TakeMessage \/ Files!TakeTold
         \/ \E t \in Files!Transfer : Files!Feed(t) \/ Files!ReadFails(t)
         \/ \E p \in Files!Path : Files!GoTo(p)
         \/ \E n \in 0..MaxSize : Files!Download(n) \/ Files!Upload(n)
         \/ \E i \in 1..MaxSize + 1 : Files!PartWaited(i)
  PROVE  /\ Files!InTurn' /\ Files!SavedFilesAreWhole'
         /\ {"foreign", "empty"} \intersect why' = {} => Files!DownloadsFollow'
<1> USE DEF Files!pageVars, Files!agentVars, Files!workerVars
<1>0. /\ Files!TypeOK /\ Files!InTurn /\ Files!SavedFilesAreWhole
      /\ {"foreign", "empty"} \intersect why = {} => Files!DownloadsFollow
  BY DEF Files!FilesIInv
\* The user asks for something.
<1>a. ASSUME UNCHANGED <<first, ready, waiting, work, file, told, saved, down, task>>, why \subseteq why',
             why' \subseteq why \union {"crossed", "mixed", "unread"}
      PROVE  /\ Files!InTurn' /\ Files!SavedFilesAreWhole'
             /\ {"foreign", "empty"} \intersect why' = {} => Files!DownloadsFollow'
  <2>1. Files!InTurn' /\ Files!SavedFilesAreWhole' /\ Files!Owed' = Files!Owed
    BY <1>0, <1>a, TurnsUnchanged
  <2>2. {"foreign", "empty"} \intersect why' = {} => Files!DownloadsFollow'
    BY <1>0, <1>a, <2>1, DownUnchanged
  <2> QED BY <2>1, <2>2
<1>s. \A m : Files!Send(m) => why \subseteq why' /\ why' \subseteq why \union {"crossed", "mixed", "unread"}
  BY DEF Files!Send
<1>l. \A p : Files!ShowPath(p) => why \subseteq why' /\ why' \subseteq why \union {"crossed", "mixed", "unread"}
  BY <1>s DEF Files!ShowPath
<1>1. CASE Files!Refresh
  BY <1>1, <1>a, <1>s DEF Files!Refresh
<1>2. ASSUME NEW t \in Files!Transfer, Files!Feed(t)
      PROVE  /\ Files!InTurn' /\ Files!SavedFilesAreWhole'
             /\ {"foreign", "empty"} \intersect why' = {} => Files!DownloadsFollow'
  BY <1>2, <1>a, <1>s DEF Files!Feed
<1>9. ASSUME NEW t \in Files!Transfer, Files!ReadFails(t)
      PROVE  /\ Files!InTurn' /\ Files!SavedFilesAreWhole'
             /\ {"foreign", "empty"} \intersect why' = {} => Files!DownloadsFollow'
  BY <1>9, <1>a DEF Files!ReadFails
<1>3. CASE Files!TakeMessage
  <2> DEFINE m == Head(down)
  <2>1. /\ down # <<>> /\ down' = Tail(down) /\ UNCHANGED <<ready, file, told, saved, task>>
        /\ m = down[1] /\ m \in Files!Messages
    <3>1. down # <<>> /\ down' = Tail(down) /\ UNCHANGED <<ready, file, told, saved, task>>
      BY <1>3 DEF Files!TakeMessage
    <3> DEFINE S == Files!Messages
    <3>2. down \in Seq(S)
      BY <1>0 DEF Files!TypeOK
    <3>3. Head(down) = down[1] /\ Head(down) \in S
      <4> HIDE DEF S
      <4> QED BY <3>1, <3>2
    <3> QED BY <3>1, <3>3
  <2>2. first => "foreign" \in why \/ (Files!NoFile /\ "empty" \notin why /\ Files!Owed = Files!Idle)
    <3> SUFFICES ASSUME first, "foreign" \notin why PROVE Files!NoFile /\ "empty" \notin why /\ Files!Owed = Files!Idle
      OBVIOUS
    <3>1. Files!NoFile /\ "empty" \notin why
      BY <1>0 DEF Files!InTurn, Files!Turns, Files!HasHeader, Files!TakesHandle, Files!Writes, Files!HasFile,
                   Files!IsBroken
    <3>2. file.expects = 0
      BY <3>1 DEF Files!NoFile, Files!Closed
    <3>3. Files!Count = 0
      BY <3>1, <3>2 DEF Files!Count, Files!NoFile
    <3>4. Files!Taken = 0
      BY <3>1 DEF Files!Taken, Files!Passed, Files!InWork, Files!NoFile, Files!Closed
    <3> QED BY <3>1, <3>3, <3>4 DEF Files!Owed
  \* A message that leaves what is owed to the page as it is.
  <2>a. ASSUME UNCHANGED <<first, waiting, work>>, why \subseteq why',
               why' \subseteq why \union {"crossed", "mixed", "failed", "unread"}, first \/ m.kind = "error",
               m.kind = "error" /\ ~first => "failed" \in why', m.kind # "file"
        PROVE  /\ Files!InTurn' /\ Files!SavedFilesAreWhole'
               /\ {"foreign", "empty"} \intersect why' = {} => Files!DownloadsFollow'
    <3>1. Files!InTurn' /\ Files!SavedFilesAreWhole' /\ Files!Owed' = Files!Owed
      BY <1>0, <2>1, <2>a, TurnsUnchanged
    <3>2. ASSUME {"foreign", "empty"} \intersect why' = {} PROVE Files!DownloadsFollow'
      <4>1. {"foreign", "empty"} \intersect why = {}
        BY <2>a, <3>2
      <4>2. Files!After(Files!Owed, m) = Files!Owed
        <5>1. CASE m.kind = "error"
          BY <5>1, AfterOther
        <5>2. CASE m.kind # "error"
          <6>1. first /\ Files!Owed = Files!Idle /\ Files!NoFile
            BY <2>2, <2>a, <4>1, <5>2
          <6>2. m.kind # "part"
            <7>1. Files!Idle = [n |-> 0, of |-> 0]
              BY DEF Files!Idle
            <7>2. m.kind = "part" => Files!Taken < Files!Count /\ Files!Owed = [n |-> Files!Taken, of |-> Files!Count]
              BY <2>1, <4>1, NextPart
            <7>3. [n |-> 0, of |-> 0] = [n |-> Files!Taken, of |-> Files!Count] => Files!Taken = 0 /\ Files!Count = 0
              OBVIOUS
            <7> QED BY <6>1, <7>1, <7>2, <7>3
          <6> QED BY <2>a, <6>1, <6>2, AfterOther, IdleOwesNone
        <5> QED BY <5>1, <5>2
      <4>3. m.kind = "error" /\ Files!Owing(Files!Owed) => "failed" \in why'
        BY <2>2, <2>a, <4>1, IdleOwesNone
      <4> QED BY <1>0, <2>1, <2>a, <3>1, <4>1, <4>2, <4>3, DownTakes
    <3> QED BY <3>1, <3>2
  <2>3. CASE m.kind = "error"
    <3>1. why' = why \union (IF first THEN {} ELSE {"failed"}) /\ UNCHANGED <<first, waiting, work>>
      BY <1>3, <2>3 DEF Files!TakeMessage
    <3> QED BY <2>3, <2>a, <3>1
  <2>4. CASE m.kind # "error" /\ ~first
    <3>1. Files!TakePart(m) /\ UNCHANGED <<first, ready, file, told, saved>> /\ why \subseteq why'
      BY <1>3, <2>1, <2>4 DEF Files!TakeMessage, Files!TakePart
    <3>2. /\ Files!InTurn' /\ Files!SavedFilesAreWhole'
          /\ {"foreign", "empty"} \intersect why' = {} => Files!Owed' = Files!After(Files!Owed, m)
      BY <2>1, <2>4, <3>1, TurnsPart
    <3>3. {"foreign", "empty"} \intersect why' = {} => Files!DownloadsFollow'
      BY <1>0, <2>1, <2>4, <3>1, <3>2, DownTakes
    <3> QED BY <3>2, <3>3
  <2>5. CASE first /\ m.kind = "file"
    <3>1. /\ first' = FALSE /\ work' = Append(work, m)
          /\ why' = why \union (IF m.n = 0 THEN {"empty"} ELSE {}) /\ UNCHANGED waiting
      BY <1>3, <2>5 DEF Files!TakeMessage
    <3>2. /\ Files!InTurn' /\ Files!SavedFilesAreWhole'
          /\ {"foreign", "empty"} \intersect why' = {} => Files!Owed' = Files!After(Files!Owed, m)
      <4> HIDE DEF m
      <4> QED BY <2>1, <2>5, <3>1, TurnsHeader
    <3>3. why \subseteq why' /\ ({"foreign", "empty"} \intersect why' = {} => {"foreign", "empty"} \intersect why = {})
      BY <3>1
    <3>4. {"foreign", "empty"} \intersect why' = {} => Files!DownloadsFollow'
      BY <1>0, <2>1, <2>5, <3>2, <3>3, DownTakes
    <3> QED BY <3>2, <3>4
  <2>6. CASE first /\ m.kind = "list"
    <3>1. Files!ShowPath(m.path) /\ UNCHANGED <<first, waiting, work>>
      BY <1>3, <2>6 DEF Files!TakeMessage
    <3>2. why \subseteq why' /\ why' \subseteq why \union {"crossed", "mixed", "failed", "unread"}
      BY <1>l, <3>1
    <3> QED BY <2>6, <2>a, <3>1, <3>2
  <2>7. CASE first /\ m.kind = "done"
    <3>1. Files!Send(Files!List("blank")) /\ UNCHANGED <<first, waiting, work>>
      BY <1>3, <2>7 DEF Files!TakeMessage
    <3>2. why \subseteq why' /\ why' \subseteq why \union {"crossed", "mixed", "failed", "unread"}
      BY <1>s, <3>1
    <3> QED BY <2>7, <2>a, <3>1, <3>2
  <2>8. CASE first /\ m.kind \notin {"error", "file", "list", "done"}
    <3>1. UNCHANGED <<first, waiting, work, why>>
      BY <1>3, <2>8 DEF Files!TakeMessage
    <3> QED BY <2>8, <2>a, <3>1
  <2> QED BY <2>3, <2>4, <2>5, <2>6, <2>7, <2>8
<1>4. CASE Files!TakeTold
  <2>1. Files!InTurn' /\ Files!SavedFilesAreWhole' /\ ("foreign" \notin why' => Files!Owed' = Files!Owed)
    BY <1>4, TurnsTold
  <2>2. UNCHANGED <<down, task, why>>
    BY <1>4 DEF Files!TakeTold
  <2> QED BY <1>0, <2>1, <2>2, DownUnchanged
<1>5. ASSUME NEW p \in Files!Path, Files!GoTo(p)
      PROVE  /\ Files!InTurn' /\ Files!SavedFilesAreWhole'
             /\ {"foreign", "empty"} \intersect why' = {} => Files!DownloadsFollow'
  BY <1>5, <1>a, <1>l DEF Files!GoTo
<1>6. ASSUME NEW n \in 0..MaxSize, Files!Download(n)
      PROVE  /\ Files!InTurn' /\ Files!SavedFilesAreWhole'
             /\ {"foreign", "empty"} \intersect why' = {} => Files!DownloadsFollow'
  BY <1>6, <1>a, <1>s DEF Files!Download
<1>7. ASSUME NEW n \in 0..MaxSize, Files!Upload(n)
      PROVE  /\ Files!InTurn' /\ Files!SavedFilesAreWhole'
             /\ {"foreign", "empty"} \intersect why' = {} => Files!DownloadsFollow'
  BY <1>7, <1>a, <1>s DEF Files!Upload
<1>8. ASSUME NEW i \in 1..MaxSize + 1, Files!PartWaited(i)
      PROVE  /\ Files!InTurn' /\ Files!SavedFilesAreWhole'
             /\ {"foreign", "empty"} \intersect why' = {} => Files!DownloadsFollow'
  <2>0. i \in Nat
    OBVIOUS
  <2>1. Files!InTurn' /\ Files!SavedFilesAreWhole' /\ ("foreign" \notin why' => Files!Owed' = Files!Owed)
    BY <1>8, <2>0, TurnsWaited
  <2>2. UNCHANGED <<down, task>> /\ why \subseteq why'
    BY <1>8 DEF Files!PartWaited
  <2>3. {"foreign", "empty"} \intersect why' = {} => Files!DownloadsFollow'
    BY <1>0, <2>1, <2>2, DownUnchanged
  <2> QED BY <2>1, <2>3
<1> QED BY <1>1, <1>2, <1>3, <1>4, <1>5, <1>6, <1>7, <1>8, <1>9

\* So does every step of the worker and of the agent.
LEMMA PeerRestStep ==
  ASSUME Files!FilesAssumption, Files!FilesIInv,
         \/ Files!Work \/ Files!WorkFails \/ Files!Opened \/ Files!OpenFails
         \/ Files!Receive \/ Files!AgentTakes \/ Files!Drop
         \/ \E t \in Files!Transfer : Files!TaskSends(t)
         \/ UNCHANGED filesVars
  PROVE  /\ Files!InTurn' /\ Files!SavedFilesAreWhole'
         /\ {"foreign", "empty"} \intersect why' = {} => Files!DownloadsFollow'
<1> USE DEF Files!pageVars, Files!agentVars, Files!workerVars
<1>0. /\ Files!TypeOK /\ Files!InTurn /\ Files!SavedFilesAreWhole
      /\ {"foreign", "empty"} \intersect why = {} => Files!DownloadsFollow
  BY DEF Files!FilesIInv
<1>a. ASSUME UNCHANGED <<first, ready, waiting, work, file, told, saved>>, why \subseteq why',
             why' \subseteq why \union {"swallowed"}
      PROVE  Files!InTurn' /\ Files!SavedFilesAreWhole' /\ Files!Owed' = Files!Owed
  BY <1>0, <1>a, TurnsUnchanged
<1>b. ASSUME UNCHANGED <<first, ready, waiting, work, file, told, saved, task>>, why \subseteq why',
             why' \subseteq why \union {"swallowed"},
             \/ down' = down
             \/ \E m \in Files!Messages : m.kind \notin {"part", "file"} /\ down' = Append(down, m)
      PROVE  /\ Files!InTurn' /\ Files!SavedFilesAreWhole'
             /\ {"foreign", "empty"} \intersect why' = {} => Files!DownloadsFollow'
  <2>1. Files!InTurn' /\ Files!SavedFilesAreWhole' /\ Files!Owed' = Files!Owed
    BY <1>a, <1>b
  <2>2. CASE down' = down
    BY <1>0, <1>b, <2>1, <2>2, DownUnchanged
  <2>3. CASE \E m \in Files!Messages : m.kind \notin {"part", "file"} /\ down' = Append(down, m)
    BY <1>0, <1>b, <2>1, <2>3, DownAnswers
  <2> QED BY <1>b, <2>2, <2>3
<1>c. /\ Files!Done \in Files!Messages /\ Files!Done.kind = "done"
      /\ Files!Error \in Files!Messages /\ Files!Error.kind = "error"
  BY MessageTypes DEF Files!Done, Files!Error, Files!Msg
<1>1. CASE Files!Work
  <2>1. Files!InTurn' /\ Files!SavedFilesAreWhole' /\ ("foreign" \notin why' => Files!Owed' = Files!Owed)
    BY <1>1, TurnsWork
  <2>2. UNCHANGED <<down, task, why>>
    BY <1>1 DEF Files!Work
  <2> QED BY <1>0, <2>1, <2>2, DownUnchanged
<1>8. CASE Files!WorkFails
  <2>1. Files!InTurn' /\ Files!SavedFilesAreWhole' /\ ("foreign" \notin why' => Files!Owed' = Files!Owed)
    BY <1>8, TurnsWorkFails
  <2>2. UNCHANGED <<down, task, why>>
    BY <1>8 DEF Files!WorkFails
  <2> QED BY <1>0, <2>1, <2>2, DownUnchanged
<1>9. CASE Files!OpenFails
  <2>1. Files!InTurn' /\ Files!SavedFilesAreWhole' /\ ("foreign" \notin why' => Files!Owed' = Files!Owed)
    BY <1>9, TurnsOpenFails
  <2>2. UNCHANGED <<down, task, why>>
    BY <1>9 DEF Files!OpenFails
  <2> QED BY <1>0, <2>1, <2>2, DownUnchanged
<1>2. CASE Files!Opened
  <2>1. Files!InTurn' /\ Files!SavedFilesAreWhole' /\ ("foreign" \notin why' => Files!Owed' = Files!Owed)
    BY <1>2, TurnsOpened
  <2>2. UNCHANGED <<down, task, why>>
    BY <1>2 DEF Files!Opened
  <2> QED BY <1>0, <2>1, <2>2, DownUnchanged
<1>3. CASE Files!Receive
  <2>1. /\ UNCHANGED <<first, ready, waiting, work, file, told, saved, task>>
        /\ why \subseteq why' /\ why' \subseteq why \union {"swallowed"}
    BY <1>3 DEF Files!Receive
  <2>2. down' = down \/ down' = Append(down, Files!Done) \/ down' = Append(down, Files!Error)
    BY <1>3 DEF Files!Receive
  <2> QED BY <1>b, <1>c, <2>1, <2>2
<1>4. CASE Files!AgentTakes
  <2> DEFINE m == Head(up)
  <2>1. /\ UNCHANGED <<first, ready, waiting, work, file, told, saved, why>> /\ m \in Files!Messages
    BY <1>4, <1>0 DEF Files!AgentTakes, Files!TypeOK
  <2>2. Files!Answer(m.path) \in Files!Path /\ Files!Asks(m, "download") \subseteq 0..MaxSize
    BY <2>1, AsksTypes DEF Files!Messages, Files!Answer, Files!Path
  <2>3. \/ down' = Append(down, Files!List(Files!Answer(m.path))) /\ task' = task
        \/ \E t \in Files!Transfer, n \in 0..MaxSize :
             /\ task[t] = <<>> /\ down' = down
             /\ task' = [task EXCEPT ![t] = <<Files!Header(n)>> \o Files!Parts(n)]
        \/ down' = down /\ task' = task
        \/ down' = Append(down, Files!Done) /\ task' = task
        \/ down' = Append(down, Files!Error) /\ task' = task
    BY <1>4, <2>2 DEF Files!AgentTakes
  <2>4. Files!List(Files!Answer(m.path)) \in Files!Messages /\ Files!List(Files!Answer(m.path)).kind = "list"
    BY <2>2, MessageTypes DEF Files!List, Files!Msg
  <2>5. CASE \E t \in Files!Transfer, n \in 0..MaxSize :
               /\ task[t] = <<>> /\ down' = down
               /\ task' = [task EXCEPT ![t] = <<Files!Header(n)>> \o Files!Parts(n)]
    <3>1. PICK t \in Files!Transfer, n \in 0..MaxSize :
            /\ task[t] = <<>> /\ down' = down
            /\ task' = [task EXCEPT ![t] = <<Files!Header(n)>> \o Files!Parts(n)]
      BY <2>5
    <3>3. Files!InTurn' /\ Files!SavedFilesAreWhole' /\ Files!Owed' = Files!Owed
      BY <1>a, <2>1
    <3>4. Files!DownloadsFollow => Files!DownloadsFollow'
      BY <1>0, <2>1, <3>1, <3>3, DownBegins
    <3> QED BY <1>0, <2>1, <3>3, <3>4
  <2> HIDE DEF m
  <2> QED BY <1>b, <1>c, <2>1, <2>3, <2>4, <2>5
<1>5. ASSUME NEW t \in Files!Transfer, Files!TaskSends(t)
      PROVE  /\ Files!InTurn' /\ Files!SavedFilesAreWhole'
             /\ {"foreign", "empty"} \intersect why' = {} => Files!DownloadsFollow'
  <2>1. UNCHANGED <<first, ready, waiting, work, file, told, saved, why>>
    BY <1>5 DEF Files!TaskSends
  <2>2. Files!InTurn' /\ Files!SavedFilesAreWhole' /\ Files!Owed' = Files!Owed
    BY <1>a, <2>1
  <2> QED BY <1>0, <1>5, <2>1, <2>2, DownSends
<1>6. CASE Files!Drop
  <2>1. UNCHANGED <<first, ready, waiting, work, file, told, saved>> /\ why' = why \union {"dropped"}
    BY <1>6 DEF Files!Drop
  <2>2. Files!InTurn' /\ Files!SavedFilesAreWhole'
    BY <1>0, <2>1, TurnsUnchanged
  <2> QED BY <1>6, <2>2, DownDrops
<1>7. CASE UNCHANGED filesVars
  BY <1>7, <1>b DEF filesVars
<1> QED BY <1>1, <1>2, <1>3, <1>4, <1>5, <1>6, <1>7, <1>8, <1>9

\* Every step of the page, its worker and the agent keeps the invariant.
LEMMA FilesStep ==
  ASSUME Files!FilesAssumption, Files!FilesIInv, [Files!Next]_filesVars
  PROVE  Files!FilesIInv'
<1>1. Files!TypeOK /\ Files!UploadsFollow /\ Files!StoredFilesAreWhole
  BY DEF Files!FilesIInv
<1>2. Files!TypeOK'
  BY <1>1, FilesTypeStep
<1>3. Files!UploadsFollow' /\ Files!StoredFilesAreWhole'
  BY <1>1, PageUploadsStep, PeerUploadsStep DEF Files!Next
<1>4. /\ Files!InTurn' /\ Files!SavedFilesAreWhole'
      /\ {"foreign", "empty"} \intersect why' = {} => Files!DownloadsFollow'
  BY PageRestStep, PeerRestStep DEF Files!Next
<1> QED BY <1>2, <1>3, <1>4 DEF Files!FilesIInv

\* A page that is just opened.
LEMMA FilesOpened ==
  ASSUME Files!FilesAssumption, NEW requests \in Seq(Files!Messages), Files!OpenedWith(requests),
         \A i \in 1..Len(requests) : requests[i].kind # "upload"
  PROVE  Files!FilesIInv
<1>1. Files!OpenedWith(requests) /\ \A i \in 1..Len(requests) : requests[i].kind # "upload"
  OBVIOUS
<1>2. Files!TypeOK
  BY <1>1, FilesInit
<1>3. /\ first = TRUE /\ ready = FALSE /\ waiting = <<>> /\ up = requests /\ down = <<>>
      /\ feeding = [t \in Files!Transfer |-> <<>>] /\ clicks = 0
      /\ receiving = Files!Nothing /\ task = [t \in Files!Transfer |-> <<>>]
      /\ work = <<>> /\ file = Files!Closed /\ told = <<>> /\ saved = {} /\ stored = {} /\ why = {}
  BY <1>1 DEF Files!OpenedWith
<1>4. file.expects = 0 /\ file.got = <<>> /\ file.missed = 0
  BY <1>3 DEF Files!Closed
<1>5. Files!NoFile /\ ~Files!HasFile /\ first
  BY <1>3 DEF Files!NoFile, Files!HasFile
<1>6. Files!InWork = <<>> /\ Files!Count = 0 /\ Files!Taken = 0 /\ Files!Owed = Files!Idle
  <2>1. Files!InWork = <<>> /\ Files!Count = 0
    BY <1>3, <1>4 DEF Files!InWork, Files!Count
  <2>2. Files!Taken = 0
    BY <1>3, <1>4, <2>1 DEF Files!Taken, Files!Passed
  <2> QED BY <2>1, <2>2 DEF Files!Owed
<1>7. Files!InOrder
  <2>1. Files!Whole(<<>>)
    BY DEF Files!Whole
  <2> QED BY <1>3, <1>4, <1>6, <2>1 DEF Files!InOrder
<1>8. Files!InTurn
  BY <1>3, <1>5, <1>6, <1>7 DEF Files!InTurn, Files!Turns
<1>9. Files!UploadsFollow
  <2>1. ASSUME NEW t \in Files!Transfer
        PROVE  feeding[t] = <<>> /\ Len(feeding[t]) = 0 /\ Files!OnTheWay(t) = requests
    <3>1. requests \o <<>> = requests
      BY ConcatEmptySeq
    <3> QED BY <1>3, <3>1 DEF Files!OnTheWay
  <2>2. Files!HeadersLead(requests) /\ Files!RestFollows(requests, receiving)
    BY <1>1, <1>3 DEF Files!HeadersLead, Files!RestFollows, Files!Nothing
  <2>3. \A t \in Files!Transfer : \A i \in 1..Len(feeding[t]) : feeding[t][i].kind = "part"
    BY <2>1
  <2> QED BY <2>1, <2>2, <2>3 DEF Files!UploadsFollow
<1>10. Files!SavedFilesAreWhole /\ Files!StoredFilesAreWhole
  BY <1>3 DEF Files!SavedFilesAreWhole, Files!StoredFilesAreWhole
<1>11. Files!DownloadsFollow
  <2>1. PICK debt : debt = Files!Debts(Files!Owed, down)
    OBVIOUS
  <2>2. down \in Seq(Files!Messages) /\ Len(down) = 0
    BY <1>2, <1>3 DEF Files!TypeOK
  <2>3. debt[Len(down)] = Files!Idle
    BY <1>6, <2>1, <2>2, DebtsSteps
  <2>4. Files!PartsFollow(down, debt)
    BY <2>2 DEF Files!PartsFollow
  <2>5. Files!TasksFit(task, debt[Len(down)])
    <3>1. \A t \in Files!Transfer : task[t] = <<>>
      BY <1>3
    <3> QED BY <3>1 DEF Files!TasksFit, Files!Begun
  <2>6. Files!GapsAreTold(down, task, debt)
    BY <2>3, IdleOwesNone DEF Files!GapsAreTold
  <2> QED BY <2>1, <2>4, <2>5, <2>6 DEF Files!DownloadsFollow
<1> QED BY <1>2, <1>8, <1>9, <1>10, <1>11 DEF Files!FilesIInv

\* The page's first request is a listing, and after a failed connection there is none.
LEMMA FilesBegin ==
  ASSUME Files!FilesAssumption, Files!Init \/ Files!OpenedWith(<<>>)
  PROVE  Files!FilesIInv
<1>1. CASE Files!Init
  <2>1. PICK m \in Files!Messages : m = Files!List("blank")
    BY MessageTypes DEF Files!Path
  <2>2. Files!OpenedWith(<<m>>)
    BY <1>1, <2>1 DEF Files!Init
  <2>3. m.kind # "upload"
    BY <2>1 DEF Files!List, Files!Msg
  <2>4. <<m>> \in Seq(Files!Messages) /\ \A i \in 1..Len(<<m>>) : <<m>>[i] = m
    <3> DEFINE S == Files!Messages
    <3>1. m \in S
      OBVIOUS
    <3> HIDE DEF S
    <3>2. <<m>> \in Seq(S) /\ \A i \in 1..Len(<<m>>) : <<m>>[i] = m
      BY <3>1
    <3> QED BY <3>2 DEF S
  <2>5. PICK requests : requests = <<m>>
    OBVIOUS
  <2>6. /\ requests \in Seq(Files!Messages) /\ Files!OpenedWith(requests)
        /\ \A i \in 1..Len(requests) : requests[i].kind # "upload"
    BY <2>2, <2>3, <2>4, <2>5
  <2> QED BY <2>6, FilesOpened
<1>2. CASE Files!OpenedWith(<<>>)
  <2>1. PICK requests : requests = <<>>
    OBVIOUS
  <2>2. requests \in Seq(Files!Messages) /\ Len(requests) = 0 /\ Files!OpenedWith(requests)
    BY <1>2, <2>1
  <2>3. \A i \in 1..Len(requests) : requests[i].kind # "upload"
    BY <2>2
  <2> QED BY <2>2, <2>3, FilesOpened
<1> QED BY <1>1, <1>2

\* A page that waits for the rest of a file has it on its way, or is told that it is not.
LEMMA FilesWhole == Files!FilesIInv => Files!FilesAreWhole
<1> SUFFICES ASSUME Files!FilesIInv PROVE Files!FilesAreWhole
  OBVIOUS
<1>1. ASSUME ~d_open /\ ~u_open, file.handle # "asked", waiting = <<>>, work = <<>>, told = <<>>, down = <<>>,
             \A t \in Files!Transfer : task[t] = <<>>,
             why \intersect {"failed", "empty", "foreign", "dropped"} = {}, ~Files!Unwritable, ~first
      PROVE  FALSE
  <2>1. /\ Files!Turns /\ (Files!HasFile \/ Files!Count # 0) /\ Files!DownloadsFollow /\ Files!TypeOK
    BY <1>1 DEF Files!FilesIInv, Files!InTurn
  <2>2. Files!Writes /\ ~Files!HasFile
    <3>1. ~Files!HasFile
      <4>1. Len(told) = 0
        BY <1>1
      <4> QED BY <4>1 DEF Files!HasFile
    <3>2. ~Files!HasHeader
      <4>1. Len(work) = 0
        BY <1>1
      <4> QED BY <4>1 DEF Files!HasHeader
    <3>3. ~Files!TakesHandle
      <4>1. <<[ready |-> TRUE, got |-> <<>>]>> # <<>>
        OBVIOUS
      <4> QED BY <1>1, <4>1 DEF Files!TakesHandle
    <3>4. ~Files!IsBroken
      BY <1>1 DEF Files!IsBroken, Files!Unwritable
    <3> QED BY <1>1, <2>1, <3>1, <3>2, <3>3, <3>4 DEF Files!Turns, Files!NoFile
  <2>3. file # Files!Closed /\ Files!Count = file.expects /\ Len(file.got) < file.expects
    <3>1. file # Files!Closed
      BY <2>2 DEF Files!Writes, Files!Closed
    <3>2. Files!Count = file.expects
      BY <3>1 DEF Files!Count
    <3> QED BY <2>1, <2>2, <3>1, <3>2 DEF Files!Writes
  <2>4. Files!Taken = Len(file.got)
    <3>1. Files!InWork = <<>> /\ Len(<<>>) = 0 /\ Len(waiting) = 0
      BY <1>1 DEF Files!InWork
    <3>2. Len(file.got) \in Nat /\ Files!Passed = Len(file.got)
      <4>1. file.missed \in Nat /\ ~(file.missed > 0) /\ Len(file.got) \in Nat
            /\ Files!Passed = Len(file.got) + file.missed
        BY <1>1, <2>1, PassedType DEF Files!Unwritable
      <4> QED BY <4>1
    <3>3. Files!Taken = Len(file.got) + 0 + 0
      BY <3>1, <3>2 DEF Files!Taken
    <3> QED BY <3>2, <3>3
  <2>5. Files!Owed = [n |-> Files!Taken, of |-> Files!Count] /\ Files!Taken < Files!Count
    BY <2>3, <2>4 DEF Files!Owed
  <2>6. Files!Owing(Files!Owed)
    BY <2>5 DEF Files!Owing
  <2>7. PICK debt : debt = Files!Debts(Files!Owed, down)
    OBVIOUS
  <2>8. down \in Seq(Files!Messages) /\ Len(down) = 0
    BY <1>1, <2>1 DEF Files!TypeOK
  <2>9. debt[Len(down)] = Files!Owed
    BY <2>7, <2>8, DebtsSteps
  <2>10. Files!GapsAreTold(down, task, debt)
    BY <1>1, <2>1, <2>7 DEF Files!DownloadsFollow
  <2>11. \A t \in Files!Transfer : ~Files!Begun(task[t])
    BY <1>1 DEF Files!Begun
  <2>12. \E i \in 1..Len(down) : down[i].kind = "error"
    BY <2>6, <2>9, <2>10, <2>11 DEF Files!GapsAreTold
  <2> QED BY <2>8, <2>12
<1>2. Files!PageIsBack
  BY <1>1 DEF Files!PageIsBack, Files!Free
<1> QED BY <1>2 DEF Files!FilesIInv, Files!FilesAreWhole

-----------------------------------------------------------------------------
(* What MCStreams composes *)

streamsVars == <<scene, vars, filesVars, terminalVars>>

\* Each of the three holds whichever goes on.
Works ==
  /\ scene \in {"stream", "files", "terminal"}
  /\ StreamIInv /\ Files!FilesIInv /\ Terminal!TerminalIInv

\* The three invariants hold together, whichever of the three takes a step.
LEMMA StreamsStay ==
  ASSUME StreamsAssumption
  PROVE  StreamsSpec => []Works
<1>1. StreamsInit => Works
  <2> SUFFICES ASSUME StreamsInit PROVE Works
    OBVIOUS
  <2>1. /\ scene \in {"stream", "files", "terminal"}
        /\ Init /\ Terminal!Init /\ (Files!Init \/ Files!OpenedWith(<<>>))
    BY DEF StreamsInit
  <2> QED BY <2>1, StreamInit, FilesBegin, TerminalInit DEF StreamsAssumption, Works
<1>2. Works /\ [StreamsNext]_streamsVars => Works'
  <2> SUFFICES ASSUME Works, [StreamsNext]_streamsVars PROVE Works'
    OBVIOUS
  <2>1. scene' = scene /\ [Next]_vars /\ [Files!Next]_filesVars /\ [Terminal!Next]_terminalVars
    BY DEF StreamsNext, streamsVars
  <2> QED BY <2>1, StreamStep, FilesStep, TerminalStep DEF StreamsAssumption, Works
<1> QED BY <1>1, <1>2, PTL DEF StreamsSpec, streamsVars

\* The types of the three, and what keeps them: no channel holds more than its buffer,
\* the page and its worker take turns, the line keeps parts and keys in their order.
THEOREM StreamsAreTyped == StreamsSpec => []StreamsTypeOK
<1>1. Works => StreamsTypeOK
  <2>1. ASSUME Works, scene = "stream" PROVE StreamsTypeOK
    BY <2>1, "stream" # "files", "stream" # "terminal" DEF Works, StreamsTypeOK
  <2>2. ASSUME Works, scene = "files" PROVE StreamsTypeOK
    BY <2>2, "files" # "stream", "files" # "terminal" DEF Works, StreamsTypeOK
  <2>3. ASSUME Works, scene = "terminal" PROVE StreamsTypeOK
    BY <2>3, "terminal" # "stream", "terminal" # "files" DEF Works, StreamsTypeOK
  <2> QED BY <2>1, <2>2, <2>3 DEF Works
<1> QED BY <1>1, StreamsStay, StreamsAssumption, PTL

\* create_terminal, create_file_manager and the NAT handlers: an id is answered only
\* for a stream the agent took, no failing handler removes the entry of a bridged
\* stream, and a handler that failed leaves no entry behind.
THEOREM AnswersAlwaysHold == StreamsSpec => []AnswersHold
<1>1. Works => AnswersHold
  BY DEF Works, StreamIInv
<1> QED BY <1>1, StreamsStay, StreamsAssumption, PTL

\* fm.tsx with its worker, and terminal.tsx: however messages, timers and errors fall,
\* files are whole on both sides and the page waits for a first message again, but for
\* the reasons the properties name, and the shell gets the keys in their order.
THEOREM WhatIsSentArrives == StreamsSpec => []SentIsWhatArrives
<1>1. Works => SentIsWhatArrives
  BY FilesWhole DEF Works, SentIsWhatArrives, Terminal!TerminalIInv
<1> QED BY <1>1, StreamsStay, StreamsAssumption, PTL
=============================================================================
