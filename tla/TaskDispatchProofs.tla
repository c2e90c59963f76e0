------------------------- MODULE TaskDispatchProofs -------------------------
(***************************************************************************)
(* Proofs about TaskDispatch: its state is well typed, tasks travel only   *)
(* on streams of the server they were dispatched to, and what send_task    *)
(* stored is kept until some stream has yielded it.  It implements         *)
(* TaskDelivery: every section of send_task, request_task and              *)
(* batch_delete_server, and a restart, is a step the delivery promise      *)
(* allows, or leaves it alone.                                             *)
(***************************************************************************)
EXTENDS TaskDispatch, SequenceTheorems, TLAPS

USE DEF Row, CallState, Returned, StreamPhase, ServerState

-----------------------------------------------------------------------------
(* What the queue operations do to the set of queued elements. *)

\* An element at the end of a queue is one more in it.
LEMMA RangeAppend ==
  ASSUME NEW S, NEW q \in Seq(S), NEW x \in S
  PROVE  /\ Append(q, x) \in Seq(S)
         /\ Range(Append(q, x)) = Range(q) \union {x}
         /\ Len(Append(q, x)) = Len(q) + 1
<1>1. /\ Append(q, x) \in Seq(S)
      /\ Len(Append(q, x)) = Len(q) + 1
      /\ \A i \in 1..Len(q) : Append(q, x)[i] = q[i]
      /\ Append(q, x)[Len(q) + 1] = x
  BY AppendProperties
<1>2. Range(Append(q, x)) = {Append(q, x)[i] : i \in 1..(Len(q) + 1)}
  BY <1>1, RangeEquality
<1>3. Range(q) = {q[i] : i \in 1..Len(q)}
  BY RangeEquality
<1>4. Len(q) \in Nat
  BY LenProperties
<1>5. 1..(Len(q) + 1) = (1..Len(q)) \union {Len(q) + 1}
  BY <1>4
<1> QED BY <1>1, <1>2, <1>3, <1>5

\* The rest of a queue is in it, and one shorter.
LEMMA RangeTail ==
  ASSUME NEW S, NEW q \in Seq(S), q # <<>>
  PROVE  /\ Tail(q) \in Seq(S)
         /\ Head(q) \in Range(q)
         /\ Head(q) \in S
         /\ Range(Tail(q)) \subseteq Range(q)
         /\ Len(q) \in Nat /\ Len(Tail(q)) = Len(q) - 1
<1>1. /\ Tail(q) \in Seq(S) /\ Head(q) \in S
      /\ Len(Tail(q)) = Len(q) - 1
      /\ \A i \in 1..Len(Tail(q)) : Tail(q)[i] = q[i + 1]
      /\ Len(q) \in Nat /\ Len(q) >= 1 /\ Head(q) = q[1]
  BY HeadTailProperties, LenProperties, EmptySeq
<1>2. Range(q) = {q[i] : i \in 1..Len(q)}
  BY RangeEquality
<1>3. Range(Tail(q)) = {Tail(q)[i] : i \in 1..Len(Tail(q))}
  BY <1>1, RangeEquality
<1>4. \A i \in 1..Len(Tail(q)) : i + 1 \in 1..Len(q)
  BY <1>1
<1> QED BY <1>1, <1>2, <1>3, <1>4

\* An empty queue has nothing.
LEMMA RangeNil == Range(<<>>) = {}
  BY DEF Range

-----------------------------------------------------------------------------
(* Type correctness *)

\* At start the variables have their types.
LEMMA TypeInit == Init => TypeOK
<1> SUFFICES ASSUME Init PROVE TypeOK
  OBVIOUS
<1>1. \A S : <<>> \in Seq(S)
  BY EmptySeq
<1>2. Len(<<>>) = 0
  OBVIOUS
<1>3. Bounded
  BY <1>2, DispatchAssumption DEF Init, Bounded
<1> QED BY <1>1, <1>3, DispatchAssumption DEF Init, TypeOK

\* The queues stay within their capacities.
LEMMA BoundedStep ==
  ASSUME TypeOK, [Next]_vars
  PROVE  Bounded'
<1> USE DEF callVars, streamVars, tableVars, ghostVars
<1>0. /\ Bounded /\ ChanCap \in Nat /\ WireCap \in Nat /\ Len(<<>>) = 0
      /\ chan \in [Conn -> Seq(Task)] /\ wire \in [Conn -> Seq(Task)]
      /\ replay \in [Conn -> SUBSET Row]
  BY DispatchAssumption DEF TypeOK
<1>1. ASSUME chan' = chan, wire' = wire PROVE Bounded'
  BY <1>0, <1>1 DEF Bounded
<1>2. ASSUME NEW t \in Task, SendAccepted(t) PROVE Bounded'
  <2>1. via[t] \in Conn =>
          /\ chan'[via[t]] = Append(chan[via[t]], t)
          /\ Len(Append(chan[via[t]], t)) = Len(chan[via[t]]) + 1
    BY <1>0, <1>2, RangeAppend DEF SendAccepted, Enqueue
  <2>2. \A c \in Conn : c # via[t] => chan'[c] = chan[c]
    BY <1>0, <1>2 DEF SendAccepted, Enqueue
  <2>3. wire' = wire /\ Len(chan[via[t]]) < ChanCap
    BY <1>2 DEF SendAccepted, Enqueue
  <2>4. \A c \in Conn : Len(chan[c]) \in Nat
    BY <1>0, LenProperties
  <2>5. \A c \in Conn : Len(chan'[c]) <= ChanCap
    <3> TAKE c \in Conn
    <3>1. Len(chan[c]) <= ChanCap /\ ChanCap \in Nat
      BY <1>0 DEF Bounded
    <3>2. CASE c = via[t]
      BY <2>1, <2>3, <2>4, <3>1, <3>2
    <3>3. CASE c # via[t]
      BY <2>2, <3>1, <3>3
    <3> QED BY <3>2, <3>3
  <2> QED BY <1>0, <2>3, <2>5 DEF Bounded
<1>3. ASSUME NEW c \in Conn, Stream(c) PROVE Bounded'
  <2>0. \A d \in Conn : Len(chan[d]) \in Nat /\ Len(wire[d]) \in Nat
    BY <1>0, LenProperties
  <2>1. CASE ReplayRow(c)
    <3>1. PICK r \in replay[c] : Yield(c, r)
      BY <2>1 DEF ReplayRow
    <3>2. Len(Append(wire[c], r.task)) = Len(wire[c]) + 1
      BY <1>0, RangeAppend
    <3>3. /\ chan' = chan /\ Len(wire[c]) < WireCap
          /\ wire' = [wire EXCEPT ![c] = Append(@, r.task)]
      BY <3>1 DEF Yield, Polled
    <3> QED BY <1>0, <2>0, <3>2, <3>3 DEF Bounded
  <2>2. CASE ForwardTask(c)
    <3>1. /\ Len(wire[c]) < WireCap /\ chan[c] # <<>>
          /\ wire' = [wire EXCEPT ![c] = Append(@, Head(chan[c]))]
          /\ chan' = [chan EXCEPT ![c] = Tail(@)]
      BY <2>2 DEF ForwardTask, Forward, Polled
    <3>2. Head(chan[c]) \in Task /\ Len(Tail(chan[c])) = Len(chan[c]) - 1
      BY <1>0, <3>1, RangeTail
    <3>3. Len(Append(wire[c], Head(chan[c]))) = Len(wire[c]) + 1
      BY <1>0, <3>2, RangeAppend
    <3> QED BY <1>0, <2>0, <3>1, <3>2, <3>3 DEF Bounded
  <2>3. CASE CloseStream(c)
    BY <1>0, <2>3 DEF CloseStream, Bounded
  <2>4. CASE HandleTask(c)
    <3>1. /\ wire[c] # <<>> /\ chan' = chan
          /\ wire' = [wire EXCEPT ![c] = Tail(@)]
      BY <2>4 DEF HandleTask
    <3>2. Len(Tail(wire[c])) = Len(wire[c]) - 1
      BY <1>0, <3>1, RangeTail
    <3> QED BY <1>0, <2>0, <3>1, <3>2 DEF Bounded
  <2>5. CASE \/ \E s \in Server : OpenStream(c, s)
            \/ RegisterSender(c) \/ DrainPending(c) \/ DrainFailed(c)
            \/ DeleteRow(c) \/ DeleteFailed(c) \/ LoseLink(c)
    BY <1>1, <2>5 DEF OpenStream, RegisterSender, DrainPending, DrainFailed,
       StartReplay, DeleteRow, DeleteFailed, AfterYield, Continue, LoseLink
  <2> QED BY <1>3, <2>1, <2>2, <2>3, <2>4, <2>5 DEF Stream
<1>4. ASSUME NEW t \in Task, Dispatch(t) PROVE Bounded'
  BY <1>1, <1>2, <1>4 DEF Dispatch, LookupSender, SendRejected, DropSender,
     PersistUnsent, PersistFailed, AnswerFalse, CancelCall
<1>5. ASSUME NEW s \in Server, Delete(s) PROVE Bounded'
  BY <1>1, <1>5 DEF Delete, DeleteServerRows, EvictServer, EvictSender
<1>6. CASE Restart
  BY <1>0, <1>6 DEF Restart, Bounded
<1>7. CASE UNCHANGED vars
  BY <1>1, <1>7 DEF vars
<1> QED BY <1>3, <1>4, <1>5, <1>6, <1>7 DEF Next

\* Every step keeps the types.
LEMMA TypeStep == TypeOK /\ [Next]_vars => TypeOK'
<1> SUFFICES ASSUME TypeOK, [Next]_vars PROVE TypeOK'
  OBVIOUS
<1>0. Bounded'
  BY BoundedStep
<1> USE DEF TypeOK
<1> USE DEF callVars, streamVars, tableVars, ghostVars
<1>1. ASSUME NEW t \in Task, NEW s \in Server, LookupSender(t, s) PROVE TypeOK'
  BY <1>0, <1>1 DEF LookupSender
<1>2. ASSUME NEW t \in Task, SendAccepted(t) PROVE TypeOK'
  <2>1. phase[via[t]] \in {"registered", "open"} => via[t] \in Conn \/ via[t] = None
    OBVIOUS
  <2>2. ASSUME via[t] \in Conn PROVE Append(chan[via[t]], t) \in Seq(Task)
    BY <2>2, RangeAppend
  <2> QED BY <1>0, <1>2, <2>2 DEF SendAccepted, Enqueue
<1>3. ASSUME NEW t \in Task, SendRejected(t) PROVE TypeOK'
  BY <1>0, <1>3 DEF SendRejected
<1>4. ASSUME NEW t \in Task, DropSender(t) PROVE TypeOK'
  BY <1>0, <1>4 DEF DropSender
<1>5. ASSUME NEW t \in Task, PersistUnsent(t) PROVE TypeOK'
  <2>1. CASE t \in Persistable
    <3>1. [id |-> next_row, task |-> t] \in Row
      OBVIOUS
    <3>2. pending_tasks' \subseteq Row /\ next_row' \in Nat \ {0}
      BY <1>0, <1>5, <2>1, <3>1 DEF PersistUnsent, AnswerFalse, AddRow
    <3> QED BY <1>0, <1>5, <2>1, <3>2 DEF PersistUnsent, AnswerFalse, AddRow
  <2>2. CASE t \notin Persistable
    BY <1>0, <1>5, <2>2 DEF PersistUnsent, AnswerFalse, AddRow
  <2> QED BY <2>1, <2>2
<1>19. ASSUME NEW t \in Task, PersistFailed(t) PROVE TypeOK'
  BY <1>0, <1>19 DEF PersistFailed, AnswerFalse
<1>20. ASSUME NEW c \in Conn, DrainFailed(c) PROVE TypeOK'
  BY <1>0, <1>20 DEF DrainFailed, StartReplay
<1>21. ASSUME NEW c \in Conn, DeleteFailed(c) PROVE TypeOK'
  BY <1>0, <1>21 DEF DeleteFailed, AfterYield, Continue
<1>6. ASSUME NEW t \in Task, CancelCall(t) PROVE TypeOK'
  BY <1>0, <1>6 DEF CancelCall
<1>7. ASSUME NEW c \in Conn, NEW s \in Server, OpenStream(c, s) PROVE TypeOK'
  BY <1>0, <1>7 DEF OpenStream
<1>8. ASSUME NEW c \in Conn, RegisterSender(c) PROVE TypeOK'
  BY <1>0, <1>8 DEF RegisterSender
<1>9. ASSUME NEW c \in Conn, DrainPending(c) PROVE TypeOK'
  BY <1>0, <1>9 DEF DrainPending, StartReplay, RowsOf
<1>10. ASSUME NEW c \in Conn, ReplayRow(c) PROVE TypeOK'
  <2>1. PICK r \in replay[c] :
          /\ replay' = [replay EXCEPT ![c] = @ \ {r}]
          /\ ack'  = [ack EXCEPT ![c] = r]
          /\ wire' = [wire EXCEPT ![c] = Append(@, r.task)]
          /\ offered' = offered \union {r.task}
    BY <1>0, <1>10 DEF ReplayRow, Yield
  <2>2. r \in Row /\ r.task \in Task
    OBVIOUS
  <2>3. Append(wire[c], r.task) \in Seq(Task)
    BY <2>2, RangeAppend
  <2> QED BY <1>0, <1>10, <2>1, <2>2, <2>3 DEF ReplayRow, Yield
<1>11. ASSUME NEW c \in Conn, DeleteRow(c) PROVE TypeOK'
  BY <1>0, <1>11 DEF DeleteRow, AfterYield, Continue
<1>12. ASSUME NEW c \in Conn, ForwardTask(c) PROVE TypeOK'
  <2>1. Tail(chan[c]) \in Seq(Task) /\ Head(chan[c]) \in Task
    BY <1>0, <1>12, RangeTail DEF ForwardTask, Forward
  <2>2. Append(wire[c], Head(chan[c])) \in Seq(Task)
    BY <2>1, RangeAppend
  <2> QED BY <1>0, <1>12, <2>1, <2>2 DEF ForwardTask, Forward
<1>13. ASSUME NEW c \in Conn, CloseStream(c) PROVE TypeOK'
  <2>1. <<>> \in Seq(Task)
    BY EmptySeq
  <2> QED BY <1>0, <1>13, <2>1 DEF CloseStream
<1>14. ASSUME NEW c \in Conn, HandleTask(c) PROVE TypeOK'
  <2>1. Tail(wire[c]) \in Seq(Task) /\ Head(wire[c]) \in Task
    BY <1>0, <1>14, RangeTail DEF HandleTask
  <2> QED BY <1>0, <1>14, <2>1 DEF HandleTask
<1>15. ASSUME NEW c \in Conn, LoseLink(c) PROVE TypeOK'
  BY <1>0, <1>15 DEF LoseLink
<1>16. ASSUME NEW s \in Server, Delete(s) PROVE TypeOK'
  BY <1>0, <1>16 DEF Delete, DeleteServerRows, EvictServer, EvictSender, RowsOf
<1>17. ASSUME Restart PROVE TypeOK'
  <2>1. <<>> \in Seq(Task)
    BY EmptySeq
  <2> QED BY <1>0, <1>17, <2>1 DEF Restart
<1>18. CASE UNCHANGED vars
  BY <1>0, <1>18 DEF vars
<1> QED
  BY <1>1, <1>2, <1>3, <1>4, <1>5, <1>6, <1>7, <1>8, <1>9, <1>10, <1>11, <1>12,
     <1>13, <1>14, <1>15, <1>16, <1>17, <1>18, <1>19, <1>20, <1>21 DEF Next, Dispatch, Stream

\* Every reachable state is well typed: in particular no sender, channel or
\* row ever refers to something that is not a stream, a task or a server.
THEOREM TypeCorrect == Spec => []TypeOK
  BY TypeInit, TypeStep, PTL DEF Spec

-----------------------------------------------------------------------------
(* Routing and the fate of stored tasks *)

\* At start no stream is open and no row is stored.
LEMMA InvInit == Init => IInv
<1> SUFFICES ASSUME Init PROVE IInv
  OBVIOUS
<1>1. TypeOK
  BY TypeInit
<1>2. ServersAgree
  BY DispatchAssumption DEF Init, ServersAgree
<1>3. NothingLeftBehind
  BY RangeNil DEF Init, NothingLeftBehind
<1>4. RowsNamed
  BY DEF Init, RowsNamed, AllRows, InHand
<1>5. Routed
  BY RangeNil DEF Init, Routed
<1>6. StoredIsKept
  BY DEF Init, StoredIsKept
<1> QED BY <1>1, <1>2, <1>3, <1>4, <1>5, <1>6 DEF IInv

\* The steps of send_task keep the invariant,
LEMMA InvDispatch ==
  ASSUME IInv, TypeOK', NEW t \in Task, Dispatch(t)
  PROVE  IInv'
<1> USE DEF callVars, streamVars, tableVars, ghostVars
<1>0. /\ TypeOK /\ ServersAgree /\ NothingLeftBehind /\ RowsNamed
      /\ Routed /\ StoredIsKept
  BY DEF IInv
<1>1. ASSUME NEW s \in Server, LookupSender(t, s) PROVE IInv'
  <2>1. ServersAgree'
    BY <1>0, <1>1, DispatchAssumption DEF LookupSender, ServersAgree, TypeOK
  <2>2. NothingLeftBehind'
    BY <1>0, <1>1 DEF LookupSender, NothingLeftBehind, TypeOK
  <2>3. RowsNamed'
    <3>1. AllRows' = AllRows
      BY <1>1 DEF LookupSender, AllRows, InHand
    <3>2. \A u \in Task : call[u] = "stored" => call'[u] = "stored"
      BY <1>0, <1>1 DEF LookupSender, TypeOK
    <3>3. AllRows \subseteq Row
      BY <1>0 DEF AllRows, InHand, TypeOK
    <3> QED BY <1>0, <1>1, <3>1, <3>2, <3>3 DEF LookupSender, RowsNamed
  <2>4. Routed'
    <3>1. \A c \in Conn : t \notin Range(chan[c]) \union Range(wire[c])
      BY <1>0, <1>1 DEF LookupSender, NothingLeftBehind, TypeOK
    <3>2. \A c \in Conn : \A r \in replay[c] : r.task # t
      <4>1. \A c \in Conn : replay[c] \subseteq AllRows
        BY DEF AllRows, InHand
      <4>2. \A r \in AllRows : call[r.task] = "stored"
        BY <1>0 DEF RowsNamed
      <4> QED BY <1>1, <4>1, <4>2 DEF LookupSender
    <3>3. \A u \in Task : u # t => dest'[u] = dest[u]
      BY <1>0, <1>1 DEF LookupSender, TypeOK
    <3> QED BY <1>0, <1>1, <3>1, <3>2, <3>3 DEF LookupSender, Routed, TypeOK
  <2>5. StoredIsKept'
    BY <1>0, <1>1 DEF LookupSender, StoredIsKept, TypeOK
  <2> QED BY <2>1, <2>2, <2>3, <2>4, <2>5 DEF IInv
<1>2. ASSUME SendAccepted(t) PROVE IInv'
  <2> DEFINE c == via[t]
  <2>1. c \in Conn /\ peer[c] = dest[t] /\ phase[c] \in {"registered", "open"}
    BY <1>0, <1>2 DEF SendAccepted, Enqueue, ServersAgree, ReceiverAlive, TypeOK
  <2>2. Range(Append(chan[c], t)) = Range(chan[c]) \union {t}
    BY <1>0, <2>1, RangeAppend DEF TypeOK
  <2>3. ServersAgree'
    BY <1>0, <1>2 DEF SendAccepted, Enqueue, ServersAgree, TypeOK
  <2>4. NothingLeftBehind'
    BY <1>0, <1>2, <2>1, <2>2 DEF SendAccepted, Enqueue, NothingLeftBehind, TypeOK
  <2>5. RowsNamed'
    <3>1. AllRows' = AllRows
      BY <1>2 DEF SendAccepted, Enqueue, AllRows, InHand
    <3>2. \A u \in Task : call[u] = "stored" => call'[u] = "stored"
      BY <1>0, <1>2 DEF SendAccepted, Enqueue, TypeOK
    <3>3. AllRows \subseteq Row
      BY <1>0 DEF AllRows, InHand, TypeOK
    <3> QED BY <1>0, <1>2, <3>1, <3>2, <3>3 DEF SendAccepted, Enqueue, RowsNamed
  <2>6. Routed'
    BY <1>0, <1>2, <2>1, <2>2 DEF SendAccepted, Enqueue, Routed, TypeOK
  <2>7. StoredIsKept'
    BY <1>0, <1>2 DEF SendAccepted, Enqueue, StoredIsKept, TypeOK
  <2> QED BY <2>3, <2>4, <2>5, <2>6, <2>7 DEF IInv
<1>3. ASSUME SendRejected(t) PROVE IInv'
  <2>1. ServersAgree'
    BY <1>0, <1>3, DispatchAssumption DEF SendRejected, ServersAgree, TypeOK
  <2>2. NothingLeftBehind'
    BY <1>0, <1>3 DEF SendRejected, NothingLeftBehind, TypeOK
  <2>3. RowsNamed'
    <3>1. AllRows' = AllRows
      BY <1>3 DEF SendRejected, AllRows, InHand
    <3>2. \A u \in Task : call[u] = "stored" => call'[u] = "stored"
      BY <1>0, <1>3 DEF SendRejected, TypeOK
    <3>3. AllRows \subseteq Row
      BY <1>0 DEF AllRows, InHand, TypeOK
    <3> QED BY <1>0, <1>3, <3>1, <3>2, <3>3 DEF SendRejected, RowsNamed
  <2>4. Routed'
    BY <1>0, <1>3 DEF SendRejected, Routed, TypeOK
  <2>5. StoredIsKept'
    BY <1>0, <1>3 DEF SendRejected, StoredIsKept, TypeOK
  <2> QED BY <2>1, <2>2, <2>3, <2>4, <2>5 DEF IInv
<1>5. ASSUME DropSender(t) PROVE IInv'
  <2>1. ServersAgree'
    BY <1>0, <1>5, DispatchAssumption DEF DropSender, ServersAgree, TypeOK
  <2>2. NothingLeftBehind'
    BY <1>0, <1>5 DEF DropSender, NothingLeftBehind, TypeOK
  <2>3. RowsNamed'
    <3>1. AllRows' = AllRows
      BY <1>5 DEF DropSender, AllRows, InHand
    <3>2. \A u \in Task : call[u] = "stored" => call'[u] = "stored"
      BY <1>0, <1>5 DEF DropSender, TypeOK
    <3>3. AllRows \subseteq Row
      BY <1>0 DEF AllRows, InHand, TypeOK
    <3> QED BY <1>0, <1>5, <3>1, <3>2, <3>3 DEF DropSender, RowsNamed
  <2>4. Routed'
    BY <1>0, <1>5 DEF DropSender, Routed, TypeOK
  <2>5. StoredIsKept'
    BY <1>0, <1>5 DEF DropSender, StoredIsKept, TypeOK
  <2> QED BY <2>1, <2>2, <2>3, <2>4, <2>5 DEF IInv
<1>6. ASSUME CancelCall(t) PROVE IInv'
  <2>1. ServersAgree'
    BY <1>0, <1>6, DispatchAssumption DEF CancelCall, ServersAgree, TypeOK
  <2>2. NothingLeftBehind'
    BY <1>0, <1>6 DEF CancelCall, NothingLeftBehind, TypeOK
  <2>3. RowsNamed'
    <3>1. AllRows' = AllRows
      BY <1>6 DEF CancelCall, AllRows, InHand
    <3>2. \A u \in Task : call[u] = "stored" => call'[u] = "stored"
      BY <1>0, <1>6 DEF CancelCall, TypeOK
    <3>3. AllRows \subseteq Row
      BY <1>0 DEF AllRows, InHand, TypeOK
    <3> QED BY <1>0, <1>6, <3>1, <3>2, <3>3 DEF CancelCall, RowsNamed
  <2>4. Routed'
    BY <1>0, <1>6 DEF CancelCall, Routed, TypeOK
  <2>5. StoredIsKept'
    BY <1>0, <1>6 DEF CancelCall, StoredIsKept, TypeOK
  <2> QED BY <2>1, <2>2, <2>3, <2>4, <2>5 DEF IInv
<1>4. ASSUME PersistUnsent(t), t \in Persistable PROVE IInv'
  <2> DEFINE new == [id |-> next_row, task |-> t]
  <2>1. /\ call[t] = "unsent" /\ call' = [call EXCEPT ![t] = "stored"]
        /\ pending_tasks' = pending_tasks \union {new} /\ next_row' = next_row + 1
        /\ UNCHANGED <<task_senders, dest, via, server>>
        /\ UNCHANGED <<streamVars, ghostVars>>
    BY <1>4 DEF PersistUnsent, AnswerFalse, AddRow
  <2>2. ServersAgree'
    BY <1>0, <2>1 DEF ServersAgree, TypeOK
  <2>3. NothingLeftBehind'
    BY <1>0, <2>1 DEF NothingLeftBehind, TypeOK
  <2>4. RowsNamed'
    <3>1. AllRows' = AllRows \union {new}
      BY <2>1 DEF AllRows, InHand
    <3>2. AllRows \subseteq Row /\ new \in Row /\ new.id = next_row /\ new.task = t
      BY <1>0 DEF AllRows, InHand, TypeOK
    <3>3. \A r \in AllRows : r.id < next_row /\ call[r.task] = "stored"
      BY <1>0 DEF RowsNamed
    <3>4. \A u \in Task : call[u] = "stored" => call'[u] = "stored"
      BY <1>0, <2>1 DEF TypeOK
    <3>5. next_row \in Nat /\ call'[t] = "stored"
      BY <1>0, <2>1 DEF TypeOK
    <3>6. \A r \in AllRows' : r.id < next_row' /\ call'[r.task] = "stored"
      BY <2>1, <3>1, <3>2, <3>3, <3>4, <3>5
    <3>7. \A r, q \in AllRows' : r.id = q.id => r = q
      BY <1>0, <3>1, <3>2, <3>3, <3>5 DEF RowsNamed
    <3> QED BY <1>0, <2>1, <3>6, <3>7 DEF RowsNamed
  <2>5. Routed'
    BY <1>0, <2>1 DEF Routed, TypeOK
  <2>6. StoredIsKept'
    <3>1. new \in pending_tasks' /\ new.task = t
      BY <2>1
    <3>2. \A u \in Task : u # t => call'[u] = call[u]
      BY <1>0, <2>1 DEF TypeOK
    <3>3. pending_tasks \subseteq pending_tasks' /\ offered' = offered
             /\ dest' = dest /\ server' = server
      BY <2>1
    <3> QED BY <1>0, <3>1, <3>2, <3>3 DEF StoredIsKept
  <2> QED BY <2>2, <2>3, <2>4, <2>5, <2>6 DEF IInv
<1>7. ASSUME AnswerFalse(t, "refused"), UNCHANGED tableVars PROVE IInv'
  <2>1. /\ call[t] = "unsent" /\ call' = [call EXCEPT ![t] = "refused"]
        /\ UNCHANGED <<task_senders, dest, via, server>>
        /\ UNCHANGED <<tableVars, streamVars, ghostVars>>
    BY <1>7 DEF AnswerFalse
  <2>2. ServersAgree'
    BY <1>0, <2>1 DEF ServersAgree, TypeOK
  <2>3. NothingLeftBehind'
    BY <1>0, <2>1 DEF NothingLeftBehind, TypeOK
  <2>4. RowsNamed'
    <3>1. AllRows' = AllRows
      BY <2>1 DEF AllRows, InHand
    <3>2. \A u \in Task : call[u] = "stored" => call'[u] = "stored"
      BY <1>0, <2>1 DEF TypeOK
    <3>3. AllRows \subseteq Row
      BY <1>0 DEF AllRows, InHand, TypeOK
    <3> QED BY <1>0, <2>1, <3>1, <3>2, <3>3 DEF RowsNamed
  <2>5. Routed'
    BY <1>0, <2>1 DEF Routed, TypeOK
  <2>6. StoredIsKept'
    BY <1>0, <2>1 DEF StoredIsKept, TypeOK
  <2> QED BY <2>2, <2>3, <2>4, <2>5, <2>6 DEF IInv
<1> QED BY <1>1, <1>2, <1>3, <1>4, <1>5, <1>6, <1>7
  DEF Dispatch, PersistUnsent, PersistFailed

\* the steps of request_task's streams,
LEMMA InvStream ==
  ASSUME IInv, TypeOK', NEW c \in Conn, Stream(c)
  PROVE  IInv'
<1> USE DEF callVars, streamVars, tableVars, ghostVars
<1>0. /\ TypeOK /\ ServersAgree /\ NothingLeftBehind /\ RowsNamed
      /\ Routed /\ StoredIsKept
  BY DEF IInv
<1>1. ASSUME NEW s \in Server, OpenStream(c, s) PROVE IInv'
  <2>1. ServersAgree'
    BY <1>0, <1>1 DEF OpenStream, Unreferenced, ServersAgree, TypeOK
  <2>2. NothingLeftBehind'
    BY <1>0, <1>1 DEF OpenStream, NothingLeftBehind, TypeOK
  <2>3. RowsNamed'
    <3>1. AllRows' = AllRows
      BY <1>1 DEF OpenStream, AllRows, InHand
    <3> QED BY <1>0, <1>1, <3>1 DEF OpenStream, RowsNamed
  <2>4. Routed'
    BY <1>0, <1>1, RangeNil DEF OpenStream, Routed, NothingLeftBehind, TypeOK
  <2>5. StoredIsKept'
    BY <1>0, <1>1 DEF OpenStream, StoredIsKept, TypeOK
  <2> QED BY <2>1, <2>2, <2>3, <2>4, <2>5 DEF IInv
<1>2. ASSUME RegisterSender(c) PROVE IInv'
  <2>1. ServersAgree'
    BY <1>0, <1>2, DispatchAssumption DEF RegisterSender, ServersAgree, TypeOK
  <2>2. NothingLeftBehind'
    BY <1>0, <1>2 DEF RegisterSender, NothingLeftBehind, TypeOK
  <2>3. RowsNamed'
    <3>1. AllRows' = AllRows
      BY <1>2 DEF RegisterSender, AllRows, InHand
    <3> QED BY <1>0, <1>2, <3>1 DEF RegisterSender, RowsNamed
  <2>4. Routed'
    BY <1>0, <1>2 DEF RegisterSender, Routed, TypeOK
  <2>5. StoredIsKept'
    BY <1>0, <1>2 DEF RegisterSender, StoredIsKept, TypeOK
  <2> QED BY <2>1, <2>2, <2>3, <2>4, <2>5 DEF IInv
<1>9. ASSUME LoseLink(c) PROVE IInv'
  <2>1. ServersAgree'
    BY <1>0, <1>9, DispatchAssumption DEF LoseLink, ServersAgree, TypeOK
  <2>2. NothingLeftBehind'
    BY <1>0, <1>9 DEF LoseLink, NothingLeftBehind, TypeOK
  <2>3. RowsNamed'
    <3>1. AllRows' = AllRows
      BY <1>9 DEF LoseLink, AllRows, InHand
    <3> QED BY <1>0, <1>9, <3>1 DEF LoseLink, RowsNamed
  <2>4. Routed'
    BY <1>0, <1>9 DEF LoseLink, Routed, TypeOK
  <2>5. StoredIsKept'
    BY <1>0, <1>9 DEF LoseLink, StoredIsKept, TypeOK
  <2> QED BY <2>1, <2>2, <2>3, <2>4, <2>5 DEF IInv
<1>3. ASSUME DrainPending(c) PROVE IInv'
  <2>1. ServersAgree'
    BY <1>0, <1>3 DEF DrainPending, StartReplay, ServersAgree, TypeOK
  <2>2. NothingLeftBehind'
    BY <1>0, <1>3 DEF DrainPending, StartReplay, NothingLeftBehind, TypeOK
  <2>3. RowsNamed'
    <3>1. AllRows' \subseteq AllRows
      BY <1>0, <1>3 DEF DrainPending, StartReplay, AllRows, InHand, RowsOf, TypeOK
    <3> QED BY <1>0, <1>3, <3>1 DEF DrainPending, StartReplay, RowsNamed, TypeOK
  <2>4. Routed'
    BY <1>0, <1>3 DEF DrainPending, StartReplay, Routed, RowsOf, TypeOK
  <2>5. StoredIsKept'
    BY <1>0, <1>3 DEF DrainPending, StartReplay, StoredIsKept, TypeOK
  <2> QED BY <2>1, <2>2, <2>3, <2>4, <2>5 DEF IInv
<1>10. ASSUME DrainFailed(c) PROVE IInv'
  <2>1. ServersAgree' /\ NothingLeftBehind'
    BY <1>0, <1>10 DEF DrainFailed, StartReplay, ServersAgree, NothingLeftBehind, TypeOK
  <2>2. RowsNamed'
    <3>1. AllRows' \subseteq AllRows
      BY <1>0, <1>10 DEF DrainFailed, StartReplay, AllRows, InHand, TypeOK
    <3> QED BY <1>0, <1>10, <3>1 DEF DrainFailed, StartReplay, RowsNamed, TypeOK
  <2>3. Routed' /\ StoredIsKept'
    BY <1>0, <1>10 DEF DrainFailed, StartReplay, Routed, StoredIsKept, TypeOK
  <2> QED BY <2>1, <2>2, <2>3 DEF IInv
<1>11. ASSUME DeleteFailed(c) PROVE IInv'
  <2>1. ServersAgree' /\ NothingLeftBehind'
    BY <1>0, <1>11 DEF DeleteFailed, AfterYield, Continue, ServersAgree,
       NothingLeftBehind, TypeOK
  <2>2. RowsNamed'
    <3>1. AllRows' \subseteq AllRows
      BY <1>0, <1>11 DEF DeleteFailed, AfterYield, Continue, AllRows, InHand, TypeOK
    <3> QED BY <1>0, <1>11, <3>1 DEF DeleteFailed, AfterYield, Continue, RowsNamed, TypeOK
  <2>3. Routed' /\ StoredIsKept'
    BY <1>0, <1>11 DEF DeleteFailed, AfterYield, Continue, Routed, StoredIsKept, TypeOK
  <2> QED BY <2>1, <2>2, <2>3 DEF IInv
<1>4. ASSUME ReplayRow(c) PROVE IInv'
  <2>1. PICK r \in replay[c] :
          /\ replay' = [replay EXCEPT ![c] = @ \ {r}]
          /\ ack'  = [ack EXCEPT ![c] = r]
          /\ wire' = [wire EXCEPT ![c] = Append(@, r.task)]
          /\ offered' = offered \union {r.task}
    BY <1>0, <1>4 DEF ReplayRow, Yield, TypeOK
  <2>2. /\ r \in Row /\ r \in AllRows /\ call[r.task] = "stored"
        /\ dest[r.task] = peer[c] /\ phase[c] = "open"
    BY <1>0, <1>4 DEF ReplayRow, Yield, Polled, AllRows, InHand, RowsNamed, Routed, TypeOK
  <2>3. Range(Append(wire[c], r.task)) = Range(wire[c]) \union {r.task}
    BY <1>0, <2>2, RangeAppend DEF TypeOK
  <2>4. ServersAgree'
    BY <1>0, <1>4 DEF ReplayRow, Yield, ServersAgree, TypeOK
  <2>5. NothingLeftBehind'
    BY <1>0, <1>4, <2>1, <2>2, <2>3 DEF ReplayRow, Yield, NothingLeftBehind, TypeOK
  <2>6. RowsNamed'
    <3>1. AllRows' \subseteq AllRows
      <4>1. ack'[c] = r /\ r \in AllRows
        BY <1>0, <2>1, <2>2 DEF TypeOK
      <4>2. \A d \in Conn : replay'[d] \subseteq replay[d]
        BY <1>0, <2>1 DEF TypeOK
      <4>3. \A d \in Conn : d # c => ack'[d] = ack[d]
        BY <1>0, <2>1 DEF TypeOK
      <4>4. pending_tasks' = pending_tasks
        BY <1>4 DEF ReplayRow, Yield
      <4> QED BY <4>1, <4>2, <4>3, <4>4 DEF AllRows, InHand
    <3> QED BY <1>0, <1>4, <2>1, <3>1 DEF ReplayRow, Yield, RowsNamed, TypeOK
  <2>7. Routed'
    BY <1>0, <1>4, <2>1, <2>2, <2>3 DEF ReplayRow, Yield, Routed, TypeOK
  <2>8. StoredIsKept'
    BY <1>0, <1>4, <2>1 DEF ReplayRow, Yield, StoredIsKept, TypeOK
  <2> QED BY <2>4, <2>5, <2>6, <2>7, <2>8 DEF IInv
<1>5. ASSUME DeleteRow(c) PROVE IInv'
  <2>1. ServersAgree'
    BY <1>0, <1>5 DEF DeleteRow, AfterYield, Continue, ServersAgree, TypeOK
  <2>2. NothingLeftBehind'
    BY <1>0, <1>5 DEF DeleteRow, AfterYield, Continue, NothingLeftBehind, TypeOK
  <2>3. RowsNamed'
    <3>1. AllRows' \subseteq AllRows
      BY <1>0, <1>5 DEF DeleteRow, AfterYield, Continue, AllRows, InHand, TypeOK
    <3> QED BY <1>0, <1>5, <3>1 DEF DeleteRow, AfterYield, Continue, RowsNamed, TypeOK
  <2>4. Routed'
    BY <1>0, <1>5 DEF DeleteRow, AfterYield, Continue, Routed, TypeOK
  <2>5. StoredIsKept'
    <3>1. \A r \in pending_tasks : r.id = ack[c].id => r.task \in offered
      <4>1. ack[c] \in AllRows
        <5>1. ack[c] \in InHand(c)
          BY <1>5 DEF DeleteRow, AfterYield, Continue, InHand
        <5> QED BY <5>1 DEF AllRows
      <4>2. pending_tasks \subseteq AllRows
        BY DEF AllRows, InHand
      <4> QED BY <1>0, <1>5, <4>1, <4>2 DEF DeleteRow, AfterYield, Continue, RowsNamed
    <3> QED BY <1>0, <1>5, <3>1 DEF DeleteRow, AfterYield, Continue, StoredIsKept, TypeOK
  <2> QED BY <2>1, <2>2, <2>3, <2>4, <2>5 DEF IInv
<1>6. ASSUME ForwardTask(c) PROVE IInv'
  <2> DEFINE h == Head(chan[c])
  <2>1. /\ h \in Range(chan[c]) /\ h \in Task
        /\ Range(Tail(chan[c])) \subseteq Range(chan[c])
    BY <1>0, <1>6, RangeTail DEF ForwardTask, Forward, TypeOK
  <2>2. Range(Append(wire[c], h)) = Range(wire[c]) \union {h}
    BY <1>0, <2>1, RangeAppend DEF TypeOK
  <2>3. ServersAgree'
    BY <1>0, <1>6 DEF ForwardTask, Forward, ServersAgree, TypeOK
  <2>4. NothingLeftBehind'
    BY <1>0, <1>6, <2>1, <2>2 DEF ForwardTask, Forward, Polled, NothingLeftBehind, TypeOK
  <2>5. RowsNamed'
    <3>1. AllRows' = AllRows
      BY <1>6 DEF ForwardTask, Forward, AllRows, InHand
    <3> QED BY <1>0, <1>6, <3>1 DEF ForwardTask, Forward, RowsNamed
  <2>6. Routed'
    BY <1>0, <1>6, <2>1, <2>2 DEF ForwardTask, Forward, Routed, TypeOK
  <2>7. StoredIsKept'
    BY <1>0, <1>6 DEF ForwardTask, Forward, StoredIsKept, TypeOK
  <2> QED BY <2>3, <2>4, <2>5, <2>6, <2>7 DEF IInv
<1>7. ASSUME CloseStream(c) PROVE IInv'
  <2>1. ServersAgree'
    BY <1>0, <1>7 DEF CloseStream, ServersAgree, TypeOK
  <2>2. NothingLeftBehind'
    BY <1>0, <1>7, RangeNil DEF CloseStream, NothingLeftBehind, TypeOK
  <2>3. RowsNamed'
    <3>1. AllRows' \subseteq AllRows
      BY <1>0, <1>7 DEF CloseStream, AllRows, InHand, TypeOK
    <3> QED BY <1>0, <1>7, <3>1 DEF CloseStream, RowsNamed, TypeOK
  <2>4. Routed'
    BY <1>0, <1>7, RangeNil DEF CloseStream, Routed, TypeOK
  <2>5. StoredIsKept'
    BY <1>0, <1>7 DEF CloseStream, StoredIsKept, TypeOK
  <2> QED BY <2>1, <2>2, <2>3, <2>4, <2>5 DEF IInv
<1>8. ASSUME HandleTask(c) PROVE IInv'
  <2>1. Range(Tail(wire[c])) \subseteq Range(wire[c])
    BY <1>0, <1>8, RangeTail DEF HandleTask, TypeOK
  <2>2. phase[c] # "closed"
    BY <1>0, <1>8 DEF HandleTask, NothingLeftBehind, TypeOK
  <2>3. ServersAgree'
    BY <1>0, <1>8 DEF HandleTask, ServersAgree, TypeOK
  <2>4. NothingLeftBehind'
    BY <1>0, <1>8, <2>1, <2>2 DEF HandleTask, NothingLeftBehind, TypeOK
  <2>5. RowsNamed'
    <3>1. AllRows' = AllRows
      BY <1>8 DEF HandleTask, AllRows, InHand
    <3> QED BY <1>0, <1>8, <3>1 DEF HandleTask, RowsNamed
  <2>6. Routed'
    BY <1>0, <1>8, <2>1 DEF HandleTask, Routed, TypeOK
  <2>7. StoredIsKept'
    BY <1>0, <1>8 DEF HandleTask, StoredIsKept, TypeOK
  <2> QED BY <2>3, <2>4, <2>5, <2>6, <2>7 DEF IInv
<1> QED BY <1>1, <1>2, <1>3, <1>4, <1>5, <1>6, <1>7, <1>8, <1>9, <1>10, <1>11
  DEF Stream

\* the steps of batch_delete_server,
LEMMA InvDelete ==
  ASSUME IInv, TypeOK', NEW s \in Server, Delete(s)
  PROVE  IInv'
<1> USE DEF callVars, streamVars, tableVars, ghostVars
<1>0. /\ TypeOK /\ ServersAgree /\ NothingLeftBehind /\ RowsNamed
      /\ Routed /\ StoredIsKept
  BY DEF IInv
<1>1. ASSUME DeleteServerRows(s) PROVE IInv'
  <2>1. ServersAgree' /\ NothingLeftBehind' /\ Routed'
    BY <1>0, <1>1 DEF DeleteServerRows, ServersAgree, NothingLeftBehind, Routed
  <2>2. AllRows' \subseteq AllRows
    BY <1>1 DEF DeleteServerRows, AllRows, InHand
  <2>3. RowsNamed'
    BY <1>0, <1>1, <2>2 DEF DeleteServerRows, RowsNamed
  <2>4. StoredIsKept'
    <3>1. server'[s] # "present" /\ \A u \in Server \ {s} : server'[u] = server[u]
      BY <1>0, <1>1 DEF DeleteServerRows, TypeOK
    <3>2. \A r \in pending_tasks : dest[r.task] # s => r \in pending_tasks'
      BY <1>1 DEF DeleteServerRows, RowsOf
    <3>3. \A t \in Task : call[t] = "stored" => dest[t] \in Server
      BY <1>0 DEF ServersAgree
    <3> QED BY <1>0, <1>1, <3>1, <3>2, <3>3 DEF DeleteServerRows, StoredIsKept
  <2> QED BY <2>1, <2>3, <2>4 DEF IInv
<1>2. ASSUME EvictServer(s) PROVE IInv'
  <2>1. ServersAgree' /\ NothingLeftBehind' /\ Routed'
    BY <1>0, <1>2 DEF EvictServer, ServersAgree, NothingLeftBehind, Routed
  <2>2. AllRows' = AllRows
    BY <1>2 DEF EvictServer, AllRows, InHand
  <2>3. RowsNamed'
    BY <1>0, <1>2, <2>2 DEF EvictServer, RowsNamed
  <2>4. StoredIsKept'
    <3>1. server'[s] # "present" /\ \A u \in Server \ {s} : server'[u] = server[u]
      BY <1>0, <1>2 DEF EvictServer, TypeOK
    <3>2. \A t \in Task : call[t] = "stored" => dest[t] \in Server
      BY <1>0 DEF ServersAgree
    <3> QED BY <1>0, <1>2, <3>1, <3>2 DEF EvictServer, StoredIsKept
  <2> QED BY <2>1, <2>3, <2>4 DEF IInv
<1>3. ASSUME EvictSender(s) PROVE IInv'
  <2>1. NothingLeftBehind' /\ Routed'
    BY <1>0, <1>3 DEF EvictSender, NothingLeftBehind, Routed
  <2>2. ServersAgree'
    <3>1. /\ task_senders'[s] = None
          /\ \A u \in Server \ {s} : task_senders'[u] = task_senders[u]
      BY <1>0, <1>3 DEF EvictSender, TypeOK
    <3> QED BY <1>0, <1>3, <3>1 DEF EvictSender, ServersAgree
  <2>3. AllRows' = AllRows
    BY <1>3 DEF EvictSender, AllRows, InHand
  <2>4. RowsNamed'
    BY <1>0, <1>3, <2>3 DEF EvictSender, RowsNamed
  <2>5. StoredIsKept'
    <3>1. server'[s] # "present" /\ \A u \in Server \ {s} : server'[u] = server[u]
      BY <1>0, <1>3 DEF EvictSender, TypeOK
    <3>2. \A t \in Task : call[t] = "stored" => dest[t] \in Server
      BY <1>0 DEF ServersAgree
    <3> QED BY <1>0, <1>3, <3>1, <3>2 DEF EvictSender, StoredIsKept
  <2> QED BY <2>1, <2>2, <2>4, <2>5 DEF IInv
<1> QED BY <1>1, <1>2, <1>3 DEF Delete

\* and a restart.
LEMMA InvRestart ==
  ASSUME IInv, TypeOK', Restart
  PROVE  IInv'
<1> USE DEF callVars, streamVars, tableVars, ghostVars
<1>0. /\ TypeOK /\ ServersAgree /\ NothingLeftBehind /\ RowsNamed
      /\ Routed /\ StoredIsKept
  BY DEF IInv
<1>1. ServersAgree'
  BY <1>0 DEF Restart, ServersAgree, TypeOK
<1>2. NothingLeftBehind'
  BY <1>0, RangeNil DEF Restart, NothingLeftBehind, TypeOK
<1>3. RowsNamed'
  <2>1. AllRows' \subseteq AllRows
    BY <1>0 DEF Restart, AllRows, InHand, TypeOK
  <2> QED BY <1>0, <2>1 DEF Restart, RowsNamed, AllRows, InHand, TypeOK
<1>4. Routed'
  BY <1>0, RangeNil DEF Restart, Routed, TypeOK
<1>5. StoredIsKept'
  BY <1>0 DEF Restart, StoredIsKept, ServersAgree, TypeOK
<1> QED BY <1>1, <1>2, <1>3, <1>4, <1>5 DEF IInv

\* Every step keeps the invariant.
LEMMA InvStep == IInv /\ [Next]_vars => IInv'
<1> SUFFICES ASSUME IInv, [Next]_vars PROVE IInv'
  OBVIOUS
<1>1. TypeOK'
  BY TypeStep DEF IInv
<1>2. CASE UNCHANGED vars
  BY <1>1, <1>2 DEF vars, IInv, ServersAgree, NothingLeftBehind, RowsNamed, AllRows, InHand,
     Routed, StoredIsKept
<1> QED
  BY <1>1, <1>2, InvDispatch, InvStream, InvDelete, InvRestart DEF Next

\* Rows, their copies, senders, calls and streams agree in every state
\* (send_task, request_task, batch_delete_server).
THEOREM Inductive == Spec => []IInv
  BY InvInit, InvStep, PTL DEF Spec

\* A task never travels on a stream of another server than the one it was
\* dispatched to, for any number of servers, streams, tasks and slots.
THEOREM TasksAreRouted == Spec => []Routed
<1>1. IInv => Routed
  BY DEF IInv
<1> QED BY <1>1, Inductive, PTL

\* What send_task stored stays stored until some stream has yielded it or its
\* server was deleted, across dying streams, concurrent replays and restarts.
THEOREM StoredTasksAreKept == Spec => []StoredIsKept
<1>1. IInv => StoredIsKept
  BY DEF IInv
<1> QED BY <1>1, Inductive, PTL
-----------------------------------------------------------------------------
(* The order of a replay *)

\* What is on a stream while it has rows to replay was stored.
LEMMA OrderStep ==
  ASSUME IInv, IInv', ReplayInOrder, [Next]_vars
  PROVE  ReplayInOrder'
<1> USE DEF callVars, streamVars, tableVars, ghostVars
<1>0. /\ wire \in [Conn -> Seq(Task)] /\ replay \in [Conn -> SUBSET Row]
      /\ ack \in [Conn -> Row \union {None}] /\ call \in [Task -> CallState]
      /\ call' \in [Task -> CallState] /\ phase \in [Conn -> StreamPhase]
      /\ \A c \in Conn : replay[c] \subseteq AllRows
      /\ \A c \in Conn : phase[c] # "open" => wire[c] = <<>> /\ ack[c] = None /\ replay[c] = {}
  BY DEF IInv, TypeOK, NothingLeftBehind, AllRows, InHand
\* A task on its way does not become one that was sent.
<1>1. ASSUME NEW c \in Conn, ack'[c] = ack[c] \/ ack'[c] = None,
             replay'[c] \subseteq replay[c], Range(wire'[c]) \subseteq Range(wire[c]),
             \A t \in Range(wire[c]) : call'[t] = "sent" => call[t] = "sent"
      PROVE  /\ ack'[c] # None => \A r \in replay'[c] : ack'[c].id < r.id
             /\ replay'[c] # {} => \A t \in Range(wire'[c]) : call'[t] # "sent"
  BY <1>1 DEF ReplayInOrder
<1>2. ASSUME \A c \in Conn : /\ ack'[c] = ack[c] \/ ack'[c] = None
                             /\ replay'[c] \subseteq replay[c]
                             /\ Range(wire'[c]) \subseteq Range(wire[c])
                             /\ \A t \in Range(wire[c]) : call'[t] = "sent" => call[t] = "sent"
      PROVE  ReplayInOrder'
  BY <1>1, <1>2 DEF ReplayInOrder
<1>3. ASSUME NEW t \in Task, Dispatch(t) PROVE ReplayInOrder'
  <2>1. wire' = wire /\ ack' = ack /\ replay' = replay
    BY <1>3 DEF Dispatch, LookupSender, SendAccepted, Enqueue, SendRejected, DropSender,
       PersistUnsent, PersistFailed, AnswerFalse, CancelCall
  <2>2. \A u \in Task : call[u] \in {"sent", "stored"} => call'[u] = call[u]
    BY <1>0, <1>3 DEF Dispatch, LookupSender, SendAccepted, Enqueue, SendRejected, DropSender,
       PersistUnsent, PersistFailed, AnswerFalse, CancelCall
  <2>3. \A c \in Conn : \A u \in Range(wire[c]) : u \in Task /\ call[u] \in {"sent", "stored"}
    <3>1. \A c \in Conn : Range(wire[c]) \subseteq Task
      BY <1>0, RangeEquality
    <3> QED BY <3>1 DEF IInv, NothingLeftBehind
  <2> QED BY <1>2, <2>1, <2>2, <2>3
<1>4. ASSUME NEW b \in Conn, DrainPending(b) \/ DrainFailed(b) PROVE ReplayInOrder'
  <2>1. /\ wire' = wire /\ ack' = ack /\ call' = call
        /\ phase[b] = "registered" /\ \A c \in Conn : c # b => replay'[c] = replay[c]
    BY <1>0, <1>4 DEF DrainPending, DrainFailed, StartReplay
  <2>2. wire[b] = <<>> /\ ack[b] = None
    BY <1>0, <2>1
  <2> QED BY <1>1, <2>1, <2>2, RangeNil DEF ReplayInOrder
<1>5. ASSUME NEW b \in Conn, ReplayRow(b) PROVE ReplayInOrder'
  <2>1. PICK r \in replay[b] : (\A q \in replay[b] : r.id <= q.id) /\ Yield(b, r)
    BY <1>5 DEF ReplayRow
  <2>2. /\ call' = call /\ replay'[b] = replay[b] \ {r} /\ ack'[b] = r
        /\ wire'[b] = Append(wire[b], r.task)
        /\ \A c \in Conn : c # b => /\ replay'[c] = replay[c] /\ ack'[c] = ack[c]
                                    /\ wire'[c] = wire[c]
    BY <1>0, <2>1 DEF Yield
  <2>3. r \in Row /\ call[r.task] = "stored"
    BY <1>0, <2>1 DEF IInv, RowsNamed
  <2>4. \A q \in replay[b] \ {r} : r.id < q.id
    <3> TAKE q \in replay[b] \ {r}
    <3>1. q \in Row /\ q \in AllRows /\ r \in AllRows
      BY <1>0
    <3>2. q.id # r.id
      BY <3>1 DEF IInv, RowsNamed
    <3> QED BY <2>1, <2>3, <3>1, <3>2
  <2>5. Range(wire'[b]) = Range(wire[b]) \union {r.task}
    BY <1>0, <2>2, <2>3, RangeAppend
  <2>6. \A t \in Range(wire[b]) : call[t] # "sent"
    BY <2>1 DEF ReplayInOrder
  <2> QED BY <1>1, <2>2, <2>3, <2>4, <2>5, <2>6 DEF ReplayInOrder
<1>6. ASSUME NEW b \in Conn, ForwardTask(b) PROVE ReplayInOrder'
  <2>1. /\ replay[b] = {} /\ replay' = replay /\ ack' = ack /\ call' = call
        /\ \A c \in Conn : c # b => wire'[c] = wire[c]
    BY <1>0, <1>6 DEF ForwardTask, Forward
  <2> QED BY <2>1 DEF ReplayInOrder
<1>7. ASSUME NEW b \in Conn, HandleTask(b) PROVE ReplayInOrder'
  <2>1. /\ replay' = replay /\ ack' = ack /\ call' = call /\ wire[b] # <<>>
        /\ wire'[b] = Tail(wire[b])
        /\ \A c \in Conn : c # b => wire'[c] = wire[c]
    BY <1>0, <1>7 DEF HandleTask
  <2>2. Range(wire'[b]) \subseteq Range(wire[b])
    BY <1>0, <2>1, RangeTail
  <2> QED BY <1>2, <2>1, <2>2
<1>8. ASSUME NEW b \in Conn, CloseStream(b) PROVE ReplayInOrder'
  BY <1>0, <1>2, <1>8, RangeNil DEF CloseStream
<1>9. ASSUME NEW b \in Conn, DeleteRow(b) \/ DeleteFailed(b) PROVE ReplayInOrder'
  BY <1>0, <1>2, <1>9 DEF DeleteRow, DeleteFailed, AfterYield, Continue
<1>10. ASSUME NEW b \in Conn,
              \/ \E s \in Server : OpenStream(b, s)
              \/ RegisterSender(b) \/ LoseLink(b)
       PROVE  ReplayInOrder'
  BY <1>2, <1>10 DEF OpenStream, RegisterSender, LoseLink
<1>11. ASSUME NEW s \in Server, Delete(s) PROVE ReplayInOrder'
  BY <1>2, <1>11 DEF Delete, DeleteServerRows, EvictServer, EvictSender
<1>12. CASE Restart
  BY <1>12, RangeNil DEF Restart, ReplayInOrder
<1>13. CASE UNCHANGED vars
  BY <1>2, <1>13 DEF vars
<1> QED BY <1>3, <1>4, <1>5, <1>6, <1>7, <1>8, <1>9, <1>10, <1>11, <1>12, <1>13
        DEF Next, Stream

\* A stream yields the rows it replays oldest first, and what its channel took in the
\* meantime after the last of them, on however many streams the rows are replayed and
\* wherever a stream breaks off (request_task, drain_pending_tasks).
THEOREM RowsComeInOrder == Spec => []ReplayInOrder
<1>1. Init => ReplayInOrder
  BY DEF Init, ReplayInOrder
<1>2. IInv /\ IInv' /\ ReplayInOrder /\ [Next]_vars => ReplayInOrder'
  BY OrderStep
<1> QED BY <1>1, <1>2, Inductive, PTL DEF Spec

-----------------------------------------------------------------------------
(* TaskDispatch implements TaskDelivery.  First, a task that a channel     *)
(* took is in one place only.  The rows' tasks are not: two streams may    *)
(* replay the same row.                                                    *)

Once(q, t) == \A i, j \in 1..Len(q) : q[i] = t /\ q[j] = t => i = j

TravelsOnce ==
  \A t \in Task : call[t] = "sent" =>
    /\ \A c, d \in Conn : t \in Travelling(c) /\ t \in Travelling(d) => c = d
    /\ \A c \in Conn :
         /\ ~(t \in Range(chan[c]) /\ t \in Range(wire[c]))
         /\ Once(chan[c], t) /\ Once(wire[c], t)

\* In an empty queue nothing is twice.
LEMMA OnceNil == \A t : Once(<<>>, t)
  BY DEF Once

\* A task that is new to a queue is in it once.
LEMMA OnceAppend ==
  ASSUME NEW S, NEW q \in Seq(S), NEW x \in S, NEW t \in S, Once(q, t),
         x # t \/ t \notin Range(q)
  PROVE  Once(Append(q, x), t)
<1>1. /\ Len(q) \in Nat /\ Len(Append(q, x)) = Len(q) + 1
      /\ \A i \in 1..Len(q) : Append(q, x)[i] = q[i]
      /\ Append(q, x)[Len(q) + 1] = x
  BY AppendProperties, LenProperties
<1>2. Range(q) = {q[i] : i \in 1..Len(q)}
  BY RangeEquality
<1> QED BY <1>1, <1>2 DEF Once

\* The head of a queue in which it occurs once is not in the tail.
LEMMA OnceTail ==
  ASSUME NEW S, NEW q \in Seq(S), q # <<>>, NEW t \in S, Once(q, t)
  PROVE  /\ Once(Tail(q), t)
         /\ t = Head(q) => t \notin Range(Tail(q))
<1>1. /\ Tail(q) \in Seq(S)
      /\ Len(Tail(q)) = Len(q) - 1
      /\ \A i \in 1..Len(Tail(q)) : Tail(q)[i] = q[i + 1]
      /\ Len(q) \in Nat /\ Len(q) >= 1 /\ Head(q) = q[1]
  BY HeadTailProperties, LenProperties, EmptySeq
<1>2. Range(q) = {q[i] : i \in 1..Len(q)}
  BY RangeEquality
<1>3. Range(Tail(q)) = {Tail(q)[i] : i \in 1..Len(Tail(q))}
  BY <1>1, RangeEquality
<1>4. \A i \in 1..Len(Tail(q)) : i + 1 \in 1..Len(q) /\ i + 1 # 1
  BY <1>1
<1>5. Once(Tail(q), t)
  <2> SUFFICES ASSUME NEW i \in 1..Len(Tail(q)), NEW j \in 1..Len(Tail(q)),
                      Tail(q)[i] = t, Tail(q)[j] = t
               PROVE  i = j
    BY DEF Once
  <2>1. i + 1 = j + 1
    BY <1>1, <1>4 DEF Once
  <2> QED BY <1>1, <2>1
<1>6. t = Head(q) => t \notin Range(Tail(q))
  BY <1>1, <1>3, <1>4 DEF Once
<1> QED BY <1>5, <1>6

\* A queue is its first element and the rest.
LEMMA HeadAndTail ==
  ASSUME NEW S, NEW q \in Seq(S), q # <<>>
  PROVE  Range(q) = {Head(q)} \union Range(Tail(q))
<1>1. /\ Tail(q) \in Seq(S)
      /\ Len(Tail(q)) = Len(q) - 1
      /\ \A i \in 1..Len(Tail(q)) : Tail(q)[i] = q[i + 1]
      /\ Len(q) \in Nat /\ Len(q) >= 1 /\ Head(q) = q[1]
  BY HeadTailProperties, LenProperties, EmptySeq
<1>2. Range(q) = {q[i] : i \in 1..Len(q)}
  BY RangeEquality
<1>3. Range(Tail(q)) = {Tail(q)[i] : i \in 1..Len(Tail(q))}
  BY <1>1, RangeEquality
<1>4. \A i \in 1..Len(Tail(q)) : i + 1 \in 1..Len(q)
  BY <1>1
<1>5. \A i \in 1..Len(q) : i = 1 \/ (i - 1 \in 1..Len(Tail(q)) /\ q[i] = Tail(q)[i - 1])
  BY <1>1
<1>6. Range(q) = {Head(q)} \union Range(Tail(q))
  <2>1. Head(q) \in Range(q)
    BY <1>1, <1>2
  <2>2. Range(Tail(q)) \subseteq Range(q)
    BY <1>1, <1>2, <1>3, <1>4
  <2>3. \A i \in 1..Len(q) : q[i] = Head(q) \/ q[i] \in Range(Tail(q))
    BY <1>1, <1>3, <1>5
  <2>4. Range(q) \subseteq {Head(q)} \union Range(Tail(q))
    BY <1>2, <2>3
  <2> QED BY <2>1, <2>2, <2>4
<1> QED BY <1>6

\* At start nothing travels.
LEMMA TravelsOnceInit == Init => TravelsOnce
  BY DEF Init, TravelsOnce

\* Queues that stay or are dropped do not put a task in a second place.
LEMMA TravelsKept ==
  ASSUME TravelsOnce,
         \A c \in Conn : chan'[c] = chan[c] \/ chan'[c] = <<>>,
         \A c \in Conn : wire'[c] = wire[c] \/ wire'[c] = <<>>,
         \A t \in Task : call'[t] = "sent" => call[t] = "sent"
  PROVE  TravelsOnce'
<1> SUFFICES ASSUME NEW t \in Task, call'[t] = "sent"
             PROVE  /\ \A c, d \in Conn : t \in Travelling(c)' /\ t \in Travelling(d)' => c = d
                    /\ \A c \in Conn :
                         /\ ~(t \in Range(chan'[c]) /\ t \in Range(wire'[c]))
                         /\ Once(chan'[c], t) /\ Once(wire'[c], t)
  BY DEF TravelsOnce
<1>1. /\ \A c, d \in Conn : t \in Travelling(c) /\ t \in Travelling(d) => c = d
      /\ \A c \in Conn : /\ ~(t \in Range(chan[c]) /\ t \in Range(wire[c]))
                         /\ Once(chan[c], t) /\ Once(wire[c], t)
  BY DEF TravelsOnce
<1>2. \A c \in Conn : /\ Range(chan'[c]) \subseteq Range(chan[c])
                      /\ Range(wire'[c]) \subseteq Range(wire[c])
  BY RangeNil
<1>3. \A c \in Conn : t \in Travelling(c)' => t \in Travelling(c)
  BY <1>2 DEF Travelling
<1> QED BY <1>1, <1>2, <1>3, OnceNil

\* No step puts an accepted task into a second place.
LEMMA TravelsOnceStep ==
  ASSUME IInv, TravelsOnce, [Next]_vars
  PROVE  TravelsOnce'
<1> USE DEF callVars, streamVars, tableVars, ghostVars
<1>0. /\ TypeOK /\ NothingLeftBehind /\ RowsNamed
      /\ chan \in [Conn -> Seq(Task)] /\ wire \in [Conn -> Seq(Task)]
      /\ call \in [Task -> CallState] /\ replay \in [Conn -> SUBSET Row]
  BY DEF IInv, TypeOK
<1>1. ASSUME chan' = chan, wire' = wire,
             \A t \in Task : call'[t] = "sent" => call[t] = "sent"
      PROVE  TravelsOnce'
  BY <1>1, TravelsKept
<1>2. ASSUME NEW t \in Task, SendAccepted(t) PROVE TravelsOnce'
  <2> DEFINE v == via[t]
  <2>1. /\ call[t] = "sending" /\ v \in Conn /\ wire' = wire
        /\ chan' = [chan EXCEPT ![v] = Append(@, t)]
        /\ call' = [call EXCEPT ![t] = "sent"]
    BY <1>0, <1>2 DEF SendAccepted, Enqueue, IInv, ServersAgree, ReceiverAlive, TypeOK
  <2>2. \A c \in Conn : t \notin Range(chan[c]) /\ t \notin Range(wire[c])
    BY <1>0, <2>1 DEF NothingLeftBehind
  <2>3. Range(chan'[v]) = Range(chan[v]) \union {t}
    BY <1>0, <2>1, RangeAppend
  <2>4. \A c \in Conn : c # v => chan'[c] = chan[c]
    BY <1>0, <2>1
  <2> SUFFICES ASSUME NEW u \in Task, call'[u] = "sent"
               PROVE  /\ \A c, d \in Conn : u \in Travelling(c)' /\ u \in Travelling(d)' => c = d
                      /\ \A c \in Conn :
                           /\ ~(u \in Range(chan'[c]) /\ u \in Range(wire'[c]))
                           /\ Once(chan'[c], u) /\ Once(wire'[c], u)
    BY DEF TravelsOnce
  <2>5. CASE u = t
    <3>1. \A c \in Conn : u \in Travelling(c)' => c = v
      BY <2>1, <2>2, <2>4, <2>5 DEF Travelling
    <3>2. \A c \in Conn : Once(chan[c], u) /\ Once(wire[c], u)
      <4>1. \A q \in Seq(Task) : Range(q) = {q[i] : i \in 1..Len(q)}
        BY RangeEquality
      <4> QED BY <1>0, <2>2, <2>5, <4>1 DEF Once
    <3>3. Once(chan'[v], u)
      BY <1>0, <2>1, <2>2, <2>5, <3>2, OnceAppend
    <3>4. \A c \in Conn : Once(chan'[c], u) /\ Once(wire'[c], u)
      BY <2>1, <2>4, <3>2, <3>3
    <3> QED BY <2>1, <2>2, <2>5, <3>1, <3>4
  <2>6. CASE u # t
    <3>1. call[u] = "sent"
      BY <1>0, <2>1, <2>6
    <3>2. /\ \A c, d \in Conn : u \in Travelling(c) /\ u \in Travelling(d) => c = d
          /\ \A c \in Conn : /\ ~(u \in Range(chan[c]) /\ u \in Range(wire[c]))
                             /\ Once(chan[c], u) /\ Once(wire[c], u)
      BY <3>1 DEF TravelsOnce
    <3>3. \A c \in Conn : u \in Range(chan'[c]) => u \in Range(chan[c])
      BY <2>3, <2>4, <2>6
    <3>4. Once(chan'[v], u)
      BY <1>0, <2>1, <2>6, <3>2, OnceAppend
    <3>5. \A c \in Conn : u \in Travelling(c)' => u \in Travelling(c)
      BY <2>1, <3>3 DEF Travelling
    <3>6. \A c \in Conn : Once(chan'[c], u) /\ Once(wire'[c], u)
      BY <2>1, <2>4, <3>2, <3>4
    <3> QED BY <2>1, <3>2, <3>3, <3>5, <3>6
  <2> QED BY <2>5, <2>6
<1>3. ASSUME NEW b \in Conn, ReplayRow(b) PROVE TravelsOnce'
  <2>1. PICK r \in replay[b] : Yield(b, r)
    BY <1>3 DEF ReplayRow
  <2>2. /\ call[r.task] = "stored" /\ r.task \in Task /\ call' = call /\ chan' = chan
        /\ wire' = [wire EXCEPT ![b] = Append(@, r.task)]
    <3>1. r \in Row /\ r \in AllRows
      BY <1>0, <2>1 DEF AllRows, InHand
    <3>2. call[r.task] = "stored"
      BY <1>0, <3>1 DEF RowsNamed
    <3> QED BY <1>0, <2>1, <3>1, <3>2 DEF Yield
  <2>3. Range(wire'[b]) = Range(wire[b]) \union {r.task}
    BY <1>0, <2>2, RangeAppend
  <2>4. \A c \in Conn : c # b => wire'[c] = wire[c]
    BY <1>0, <2>2
  <2> SUFFICES ASSUME NEW u \in Task, call[u] = "sent"
               PROVE  /\ \A c, d \in Conn : u \in Travelling(c)' /\ u \in Travelling(d)' => c = d
                      /\ \A c \in Conn :
                           /\ ~(u \in Range(chan'[c]) /\ u \in Range(wire'[c]))
                           /\ Once(chan'[c], u) /\ Once(wire'[c], u)
    BY <2>2 DEF TravelsOnce
  <2>5. /\ \A c, d \in Conn : u \in Travelling(c) /\ u \in Travelling(d) => c = d
        /\ \A c \in Conn : /\ ~(u \in Range(chan[c]) /\ u \in Range(wire[c]))
                           /\ Once(chan[c], u) /\ Once(wire[c], u)
    BY DEF TravelsOnce
  <2>6. u # r.task
    BY <2>2
  <2>7. \A c \in Conn : u \in Range(wire'[c]) => u \in Range(wire[c])
    BY <2>3, <2>4, <2>6
  <2>8. Once(wire'[b], u)
    BY <1>0, <2>2, <2>5, <2>6, OnceAppend
  <2>9. \A c \in Conn : u \in Travelling(c)' => u \in Travelling(c)
    BY <2>2, <2>7 DEF Travelling
  <2>10. \A c \in Conn : Once(chan'[c], u) /\ Once(wire'[c], u)
    BY <2>2, <2>4, <2>5, <2>8
  <2> QED BY <2>2, <2>5, <2>7, <2>9, <2>10
<1>4. ASSUME NEW b \in Conn, ForwardTask(b) PROVE TravelsOnce'
  <2> DEFINE h == Head(chan[b])
  <2>1. /\ call' = call /\ chan[b] # <<>>
        /\ wire' = [wire EXCEPT ![b] = Append(@, h)]
        /\ chan' = [chan EXCEPT ![b] = Tail(@)]
    BY <1>4 DEF ForwardTask, Forward
  <2>2. h \in Task /\ h \in Range(chan[b]) /\ Range(Tail(chan[b])) \subseteq Range(chan[b])
    BY <1>0, <2>1, RangeTail
  <2>3. Range(wire'[b]) = Range(wire[b]) \union {h}
    BY <1>0, <2>1, <2>2, RangeAppend
  <2>4. \A c \in Conn : c # b => wire'[c] = wire[c] /\ chan'[c] = chan[c]
    BY <1>0, <2>1
  <2> SUFFICES ASSUME NEW u \in Task, call[u] = "sent"
               PROVE  /\ \A c, d \in Conn : u \in Travelling(c)' /\ u \in Travelling(d)' => c = d
                      /\ \A c \in Conn :
                           /\ ~(u \in Range(chan'[c]) /\ u \in Range(wire'[c]))
                           /\ Once(chan'[c], u) /\ Once(wire'[c], u)
    BY <2>1 DEF TravelsOnce
  <2>5. /\ \A c, d \in Conn : u \in Travelling(c) /\ u \in Travelling(d) => c = d
        /\ \A c \in Conn : /\ ~(u \in Range(chan[c]) /\ u \in Range(wire[c]))
                           /\ Once(chan[c], u) /\ Once(wire[c], u)
    BY DEF TravelsOnce
  <2>6. chan'[b] = Tail(chan[b])
    BY <1>0, <2>1
  <2>7. Once(chan'[b], u) /\ (u = h => u \notin Range(chan'[b]))
    BY <1>0, <2>1, <2>5, <2>6, OnceTail
  <2>8. Once(wire'[b], u)
    <3>1. u = h => u \notin Range(wire[b])
      BY <2>2, <2>5
    <3> QED BY <1>0, <2>1, <2>2, <2>5, <3>1, OnceAppend
  <2>9. \A c \in Conn : u \in Travelling(c)' => u \in Travelling(c)
    BY <2>2, <2>3, <2>4, <2>6 DEF Travelling
  <2>10. ~(u \in Range(chan'[b]) /\ u \in Range(wire'[b]))
    BY <2>2, <2>3, <2>5, <2>6, <2>7
  <2> QED BY <2>4, <2>5, <2>7, <2>8, <2>9, <2>10
<1>5. ASSUME NEW b \in Conn, HandleTask(b) PROVE TravelsOnce'
  <2>1. /\ call' = call /\ chan' = chan /\ wire[b] # <<>>
        /\ wire' = [wire EXCEPT ![b] = Tail(@)]
    BY <1>5 DEF HandleTask
  <2>2. Range(wire'[b]) \subseteq Range(wire[b])
    BY <1>0, <2>1, RangeTail
  <2>3. \A c \in Conn : c # b => wire'[c] = wire[c]
    BY <1>0, <2>1
  <2> SUFFICES ASSUME NEW u \in Task, call[u] = "sent"
               PROVE  /\ \A c, d \in Conn : u \in Travelling(c)' /\ u \in Travelling(d)' => c = d
                      /\ \A c \in Conn :
                           /\ ~(u \in Range(chan'[c]) /\ u \in Range(wire'[c]))
                           /\ Once(chan'[c], u) /\ Once(wire'[c], u)
    BY <2>1 DEF TravelsOnce
  <2>4. /\ \A c, d \in Conn : u \in Travelling(c) /\ u \in Travelling(d) => c = d
        /\ \A c \in Conn : /\ ~(u \in Range(chan[c]) /\ u \in Range(wire[c]))
                           /\ Once(chan[c], u) /\ Once(wire[c], u)
    BY DEF TravelsOnce
  <2>5. Once(wire'[b], u)
    BY <1>0, <2>1, <2>4, OnceTail
  <2>6. \A c \in Conn : u \in Travelling(c)' => u \in Travelling(c)
    BY <2>1, <2>2, <2>3 DEF Travelling
  <2> QED BY <2>1, <2>2, <2>3, <2>4, <2>5, <2>6
<1>6. ASSUME NEW t \in Task, Dispatch(t) PROVE TravelsOnce'
  BY <1>0, <1>1, <1>2, <1>6 DEF Dispatch, LookupSender, SendRejected, DropSender,
     PersistUnsent, PersistFailed, AnswerFalse, CancelCall
<1>7. ASSUME NEW c \in Conn, Stream(c) PROVE TravelsOnce'
  <2>1. CASE CloseStream(c)
    BY <1>0, <2>1, TravelsKept DEF CloseStream
  <2>2. CASE \/ \E s \in Server : OpenStream(c, s)
            \/ RegisterSender(c) \/ DrainPending(c) \/ DrainFailed(c)
            \/ DeleteRow(c) \/ DeleteFailed(c) \/ LoseLink(c)
    BY <1>1, <2>2 DEF OpenStream, RegisterSender, DrainPending, DrainFailed,
       StartReplay, DeleteRow, DeleteFailed, AfterYield, Continue, LoseLink
  <2> QED BY <1>3, <1>4, <1>5, <1>7, <2>1, <2>2 DEF Stream
<1>8. ASSUME NEW s \in Server, Delete(s) PROVE TravelsOnce'
  BY <1>1, <1>8 DEF Delete, DeleteServerRows, EvictServer, EvictSender
<1>9. CASE Restart
  BY <1>0, <1>9, TravelsKept DEF Restart
<1>10. CASE UNCHANGED vars
  BY <1>1, <1>10 DEF vars
<1> QED BY <1>6, <1>7, <1>8, <1>9, <1>10 DEF Next

-----------------------------------------------------------------------------
(* The steps of the promise *)

InFlight == UNION {Travelling(c) : c \in Conn}

\* A task is in flight when some stream carries it.
LEMMA InFlightIs ==
  /\ \A x : x \in InFlight <=> \E c \in Conn : x \in Travelling(c)
  /\ \A x : x \in InFlight' <=> \E c \in Conn : x \in Travelling(c)'
  BY DEF InFlight

\* A step that leaves the promise alone.
Stutters == /\ Answers' = Answers /\ Targets' = Targets /\ StoredTasks' = StoredTasks
            /\ offered' = offered /\ InFlight' = InFlight /\ handled' = handled
            /\ Deleted' = Deleted

\* A step that changes nothing a caller can tell is a stutter of the promise.
LEMMA StutterStep == ASSUME Stutters PROVE [Delivery!DNext]_Delivery!dvars
  BY DEF Stutters, InFlight, Delivery!dvars

\* At start nothing is promised.
LEMMA DeliveryInit == Init => Delivery!DInit
<1> SUFFICES ASSUME Init PROVE Delivery!DInit
  OBVIOUS
<1>1. UNION {Travelling(c) : c \in Conn} = {}
  BY RangeNil DEF Init, Travelling
<1>2. Answers = [t \in Task |-> "none"] /\ Targets = [t \in Task |-> None]
  BY DEF Init, Answers, Targets
<1>3. StoredTasks = {} /\ Deleted = {} /\ offered = {} /\ handled = [t \in Task |-> 0]
  BY DEF Init, StoredTasks, Deleted
<1> QED BY <1>1, <1>2, <1>3 DEF Delivery!DInit

\* A call that ends changes its own answer and target, and no other.
LEMMA CallEnds ==
  ASSUME TypeOK, ServersAgree, NEW t \in Task, NEW a \in Returned,
         call[t] \in {"sending", "failed", "unsent"},
         call' = [call EXCEPT ![t] = a], dest' = dest
  PROVE  /\ dest[t] \in Server
         /\ Answers[t] = "none"
         /\ Answers' = [Answers EXCEPT ![t] = IF a \in {"sent", "stored"} THEN a ELSE "lost"]
         /\ Targets' = [Targets EXCEPT ![t] = dest[t]]
<1>1. dest[t] \in Server
  BY DEF TypeOK, ServersAgree
<1>2. Answers[t] = "none"
  BY DEF Answers
<1>3. DOMAIN call = Task /\ call'[t] = a /\ \A u \in Task : u # t => call'[u] = call[u]
  BY DEF TypeOK
<1>4. Answers' = [Answers EXCEPT ![t] = IF a \in {"sent", "stored"} THEN a ELSE "lost"]
  BY <1>3 DEF Answers, Returned
<1>5. Targets' = [Targets EXCEPT ![t] = dest[t]]
  BY <1>3 DEF Targets, Returned
<1> QED BY <1>1, <1>2, <1>4, <1>5

\* A call that ends refused or cancelled gives its task up.
LEMMA GivesUp ==
  ASSUME TypeOK, ServersAgree, NEW t \in Task, NEW a \in {"refused", "cancelled"},
         call[t] \in {"sending", "failed", "unsent"},
         call' = [call EXCEPT ![t] = a], dest' = dest,
         pending_tasks' = pending_tasks, chan' = chan, wire' = wire,
         offered' = offered, handled' = handled, server' = server
  PROVE  Delivery!GiveUp(t, dest[t])
<1>1. /\ Answers[t] = "none" /\ Answers' = [Answers EXCEPT ![t] = "lost"]
      /\ Targets' = [Targets EXCEPT ![t] = dest[t]]
  BY CallEnds
<1>2. /\ StoredTasks' = StoredTasks /\ Deleted' = Deleted
      /\ (UNION {Travelling(c) : c \in Conn})' = UNION {Travelling(c) : c \in Conn}
  BY DEF StoredTasks, Deleted, Travelling
<1> QED BY <1>1, <1>2 DEF Delivery!GiveUp, Delivery!End

\* A step of send_task is a step the promise allows.
LEMMA DeliveryDispatch ==
  ASSUME IInv, NEW t \in Task, Dispatch(t)
  PROVE  [Delivery!DNext]_Delivery!dvars
<1> USE DEF callVars, streamVars, tableVars, ghostVars
<1>0. TypeOK /\ ServersAgree /\ NothingLeftBehind
  BY DEF IInv
<1>1. ASSUME NEW s \in Server, LookupSender(t, s) PROVE Stutters
  <2>1. Answers' = Answers /\ Targets' = Targets
    BY <1>0, <1>1 DEF LookupSender, Answers, Targets, TypeOK
  <2> QED BY <1>1, <2>1 DEF LookupSender, Stutters, StoredTasks, InFlight, Travelling, Deleted
<1>2. ASSUME SendAccepted(t) PROVE Delivery!Accept(t, dest[t]) /\ dest[t] \in Server
  <2>1. PICK v \in Conn :
          /\ call[t] = "sending" /\ wire' = wire /\ dest' = dest
          /\ chan' = [chan EXCEPT ![v] = Append(@, t)]
          /\ call' = [call EXCEPT ![t] = "sent"]
    <3>1. via[t] \in Conn
      BY <1>0, <1>2 DEF SendAccepted, Enqueue, ServersAgree, TypeOK
    <3> QED BY <1>2, <3>1 DEF SendAccepted, Enqueue
  <2>2. /\ dest[t] \in Server /\ Answers[t] = "none"
        /\ Answers' = [Answers EXCEPT ![t] = "sent"]
        /\ Targets' = [Targets EXCEPT ![t] = dest[t]]
    BY <1>0, <2>1, CallEnds
  <2>3. Range(chan'[v]) = Range(chan[v]) \union {t}
    BY <1>0, <2>1, RangeAppend DEF TypeOK
  <2>4. \A c \in Conn : c # v => chan'[c] = chan[c]
    BY <1>0, <2>1 DEF TypeOK
  <2>5. /\ Travelling(v)' = Travelling(v) \union {t}
        /\ \A c \in Conn : c # v => Travelling(c)' = Travelling(c)
    BY <2>1, <2>3, <2>4 DEF Travelling
  <2>6. InFlight' = InFlight \union {t}
    BY <2>1, <2>5, InFlightIs
  <2>7. /\ StoredTasks' = StoredTasks /\ Deleted' = Deleted
        /\ offered' = offered /\ handled' = handled
    BY <1>2 DEF SendAccepted, Enqueue, StoredTasks, Deleted
  <2> QED BY <2>2, <2>6, <2>7 DEF Delivery!Accept, Delivery!End, InFlight
<1>3. ASSUME SendRejected(t) \/ DropSender(t) PROVE Stutters
  <2>1. Answers' = Answers /\ Targets' = Targets
    BY <1>0, <1>3 DEF SendRejected, DropSender, Answers, Targets, TypeOK
  <2> QED BY <1>3, <2>1 DEF SendRejected, DropSender, Stutters, StoredTasks, InFlight,
         Travelling, Deleted
<1>4. ASSUME PersistUnsent(t), t \in Persistable
      PROVE  Delivery!Store(t, dest[t]) /\ dest[t] \in Server
  <2>1. /\ call[t] = "unsent" /\ dest' = dest
        /\ call' = [call EXCEPT ![t] = "stored"]
        /\ pending_tasks' = pending_tasks \union {[id |-> next_row, task |-> t]}
    BY <1>4 DEF PersistUnsent, AnswerFalse, AddRow
  <2>2. /\ dest[t] \in Server /\ Answers[t] = "none"
        /\ Answers' = [Answers EXCEPT ![t] = "stored"]
        /\ Targets' = [Targets EXCEPT ![t] = dest[t]]
    BY <1>0, <2>1, CallEnds
  <2>3. StoredTasks' = StoredTasks \union {t}
    <3>1. [id |-> next_row, task |-> t].task = t
      OBVIOUS
    <3> QED BY <2>1, <3>1 DEF StoredTasks
  <2>4. /\ Deleted' = Deleted /\ offered' = offered /\ handled' = handled
        /\ (UNION {Travelling(c) : c \in Conn})' = UNION {Travelling(c) : c \in Conn}
    BY <1>4 DEF PersistUnsent, AnswerFalse, Deleted, Travelling
  <2> QED BY <1>4, <2>2, <2>3, <2>4 DEF Delivery!Store, Delivery!End
<1>5. ASSUME (PersistUnsent(t) /\ t \notin Persistable) \/ PersistFailed(t) \/ CancelCall(t)
      PROVE  Delivery!GiveUp(t, dest[t]) /\ dest[t] \in Server
  <2>1. \E a \in {"refused", "cancelled"} :
          /\ call[t] \in {"sending", "failed", "unsent"}
          /\ call' = [call EXCEPT ![t] = a] /\ dest' = dest
          /\ pending_tasks' = pending_tasks /\ chan' = chan /\ wire' = wire
          /\ offered' = offered /\ handled' = handled /\ server' = server
    BY <1>5 DEF PersistUnsent, PersistFailed, CancelCall, AnswerFalse
  <2>2. dest[t] \in Server
    BY <1>0, <2>1 DEF ServersAgree
  <2> QED BY <1>0, <2>1, <2>2, GivesUp
<1> QED
  BY <1>1, <1>2, <1>3, <1>4, <1>5, StutterStep DEF Dispatch, Delivery!DNext

\* What a stream yields from its channel stays on the way.
LEMMA DeliveryForward ==
  ASSUME IInv, NEW b \in Conn, ForwardTask(b)
  PROVE  Stutters
<1> USE DEF callVars, tableVars, ghostVars
<1>1. /\ chan[b] \in Seq(Task) /\ chan[b] # <<>> /\ wire[b] \in Seq(Task)
      /\ chan \in [Conn -> Seq(Task)] /\ wire \in [Conn -> Seq(Task)]
      /\ chan' = [chan EXCEPT ![b] = Tail(@)]
      /\ wire' = [wire EXCEPT ![b] = Append(@, Head(chan[b]))]
  BY DEF IInv, TypeOK, ForwardTask, Forward
<1>2. Head(chan[b]) \in Task
  BY <1>1, RangeTail
<1>3. Range(chan[b]) = {Head(chan[b])} \union Range(Tail(chan[b]))
  BY <1>1, HeadAndTail
<1>4. Range(Append(wire[b], Head(chan[b]))) = Range(wire[b]) \union {Head(chan[b])}
  BY <1>1, <1>2, RangeAppend
<1>5. \A c \in Conn : Travelling(c)' = Travelling(c)
  <2> TAKE c \in Conn
  <2>1. CASE c = b
    BY <1>1, <1>3, <1>4, <2>1 DEF Travelling
  <2>2. CASE c # b
    BY <1>1, <2>2 DEF Travelling
  <2> QED BY <2>1, <2>2
<1>6. InFlight' = InFlight
  BY <1>5, InFlightIs
<1> QED BY <1>6 DEF ForwardTask, Forward, Stutters, Answers, Targets, StoredTasks, Deleted

\* What an agent handles is received.
LEMMA DeliveryHandle ==
  ASSUME IInv, TravelsOnce, NEW b \in Conn, HandleTask(b)
  PROVE  \E t \in Task : Delivery!Receive(t)
<1> USE DEF callVars, tableVars
<1> DEFINE t == Head(wire[b])
<1>1. /\ wire[b] # <<>> /\ wire[b] \in Seq(Task) /\ wire \in [Conn -> Seq(Task)]
      /\ wire' = [wire EXCEPT ![b] = Tail(@)] /\ chan' = chan
      /\ call \in [Task -> CallState] /\ NothingLeftBehind
  BY DEF IInv, TypeOK, HandleTask
<1>2. t \in Task /\ t \in Range(wire[b])
  BY <1>1, RangeTail
<1>3. Range(wire[b]) = {t} \union Range(Tail(wire[b]))
  BY <1>1, HeadAndTail
<1>4. /\ wire'[b] = Tail(wire[b])
      /\ \A c \in Conn : c # b => wire'[c] = wire[c]
  BY <1>1
<1>5. /\ \A c \in Conn : c # b => Travelling(c)' = Travelling(c)
      /\ Travelling(b) = Travelling(b)' \union {t}
  BY <1>1, <1>3, <1>4 DEF Travelling
<1>6. t \in InFlight /\ InFlight = InFlight' \union {t}
  BY <1>5, InFlightIs
<1>7. PICK u \in Task : u = t
  BY <1>2
<1>8. \/ InFlight' = InFlight \ {u}
      \/ Answers[u] = "stored" /\ InFlight' = InFlight
  <2>1. call[u] \in {"sent", "stored"}
    BY <1>1, <1>2, <1>7 DEF NothingLeftBehind
  <2>2. CASE call[u] = "stored"
    <3>1. Answers[u] = "stored"
      BY <2>2 DEF Answers
    <3> QED BY <1>6, <1>7, <3>1
  <2>3. CASE call[u] = "sent"
    <3>1. /\ \A c, d \in Conn : u \in Travelling(c) /\ u \in Travelling(d) => c = d
          /\ u \notin Range(chan[b])
          /\ Once(wire[b], u)
      BY <1>2, <1>7, <2>3 DEF TravelsOnce
    <3>2. u \notin Range(Tail(wire[b]))
      BY <1>1, <1>7, <3>1, OnceTail
    <3>3. u \notin Travelling(b)'
      BY <1>1, <1>4, <3>1, <3>2 DEF Travelling
    <3>4. \A c \in Conn : u \notin Travelling(c)'
      BY <1>2, <1>5, <1>7, <3>1, <3>3 DEF Travelling
    <3> QED BY <1>6, <1>7, <3>4, InFlightIs
  <2> QED BY <2>1, <2>2, <2>3
<1>9. /\ handled' = [handled EXCEPT ![u] = IF @ = 0 THEN 1 ELSE 2]
      /\ Answers' = Answers /\ Targets' = Targets /\ StoredTasks' = StoredTasks
      /\ offered' = offered /\ Deleted' = Deleted
  BY <1>7 DEF HandleTask, Answers, Targets, StoredTasks, Deleted
<1> QED BY <1>6, <1>7, <1>8, <1>9 DEF Delivery!Receive, InFlight

\* A row that is replayed is offered.
LEMMA DeliveryReplay ==
  ASSUME IInv, NEW b \in Conn, ReplayRow(b)
  PROVE  \E t \in Task : Delivery!Offer(t)
<1> USE DEF callVars, tableVars
<1>1. PICK r \in replay[b] : Yield(b, r)
  BY DEF ReplayRow
<1>2. /\ r.task \in Task /\ wire \in [Conn -> Seq(Task)]
      /\ chan' = chan /\ wire' = [wire EXCEPT ![b] = Append(@, r.task)]
  BY <1>1 DEF IInv, TypeOK, Yield
<1>3. Answers[r.task] = "stored"
  <2>1. r \in AllRows
    BY DEF AllRows, InHand
  <2>2. call[r.task] = "stored"
    BY <2>1 DEF IInv, RowsNamed
  <2> QED BY <1>2, <2>2 DEF Answers
<1>4. Range(wire'[b]) = Range(wire[b]) \union {r.task}
  BY <1>2, RangeAppend
<1>5. /\ Travelling(b)' = Travelling(b) \union {r.task}
      /\ \A c \in Conn : c # b => Travelling(c)' = Travelling(c)
  BY <1>2, <1>4 DEF Travelling
<1>6. InFlight' = InFlight \union {r.task}
  BY <1>5, InFlightIs
<1>7. /\ offered' = offered \union {r.task}
      /\ Answers' = Answers /\ Targets' = Targets /\ StoredTasks' = StoredTasks
      /\ handled' = handled /\ Deleted' = Deleted
  BY <1>1 DEF Yield, Answers, Targets, StoredTasks, Deleted
<1> QED BY <1>2, <1>3, <1>6, <1>7 DEF Delivery!Offer, InFlight

\* The row deleted is the one that was yielded, or is gone already; another
\* row may stand for the same task.
LEMMA DeliveryDelete ==
  ASSUME IInv, NEW b \in Conn, DeleteRow(b)
  PROVE  Stutters \/ \E t \in Task : Delivery!RemoveRow(t)
<1> USE DEF callVars, ghostVars
<1>1. /\ ack[b] \in Row /\ ack[b].task \in offered /\ ack[b] \in AllRows
      /\ pending_tasks \subseteq AllRows
      /\ pending_tasks' = {r \in pending_tasks : r.id # ack[b].id}
  BY DEF IInv, TypeOK, RowsNamed, AllRows, InHand, DeleteRow, AfterYield
<1>2. pending_tasks' = pending_tasks \ {ack[b]}
  BY <1>1 DEF IInv, RowsNamed
<1>3. /\ Answers' = Answers /\ Targets' = Targets /\ offered' = offered
      /\ handled' = handled /\ Deleted' = Deleted /\ InFlight' = InFlight
  BY DEF DeleteRow, AfterYield, Answers, Targets, Deleted, InFlight, Travelling
<1>4. \/ StoredTasks' = StoredTasks
      \/ ack[b].task \in StoredTasks /\ StoredTasks' = StoredTasks \ {ack[b].task}
  BY <1>2 DEF StoredTasks
<1>5. CASE StoredTasks' = StoredTasks
  BY <1>3, <1>5 DEF Stutters
<1>6. CASE ack[b].task \in StoredTasks /\ StoredTasks' = StoredTasks \ {ack[b].task}
  <2>1. ack[b].task \in Task
    BY <1>1
  <2> QED BY <1>1, <1>3, <1>6, <2>1 DEF Delivery!RemoveRow, InFlight
<1> QED BY <1>4, <1>5, <1>6

\* A step of a stream is a step the promise allows,
LEMMA DeliveryStream ==
  ASSUME IInv, TravelsOnce, NEW b \in Conn, Stream(b)
  PROVE  [Delivery!DNext]_Delivery!dvars
<1> USE DEF callVars, streamVars, tableVars, ghostVars
<1>1. CASE ReplayRow(b)
  BY <1>1, DeliveryReplay DEF Delivery!DNext
<1>2. CASE DeleteRow(b)
  BY <1>2, DeliveryDelete, StutterStep DEF Delivery!DNext
<1>3. CASE ForwardTask(b)
  BY <1>3, DeliveryForward, StutterStep
<1>4. CASE HandleTask(b)
  BY <1>4, DeliveryHandle DEF Delivery!DNext
<1>5. CASE CloseStream(b)
  <2>1. /\ chan \in [Conn -> Seq(Task)] /\ wire \in [Conn -> Seq(Task)]
        /\ chan' = [chan EXCEPT ![b] = <<>>] /\ wire' = [wire EXCEPT ![b] = <<>>]
    BY <1>5 DEF IInv, TypeOK, CloseStream
  <2>2. \A c \in Conn : /\ chan'[c] = chan[c] \/ chan'[c] = <<>>
                        /\ wire'[c] = wire[c] \/ wire'[c] = <<>>
    BY <2>1
  <2>3. \A c \in Conn : Travelling(c)' \subseteq Travelling(c)
    BY <2>2, RangeNil DEF Travelling
  <2>4. InFlight' \subseteq InFlight
    BY <2>3, InFlightIs
  <2>5. /\ Answers' = Answers /\ Targets' = Targets /\ StoredTasks' = StoredTasks
        /\ offered' = offered /\ handled' = handled /\ Deleted' = Deleted
    BY <1>5 DEF CloseStream, Answers, Targets, StoredTasks, Deleted
  <2> QED BY <2>4, <2>5 DEF Delivery!DNext, Delivery!Lose, InFlight
<1>6. CASE \/ \E s \in Server : OpenStream(b, s)
          \/ RegisterSender(b) \/ DrainPending(b) \/ DrainFailed(b)
          \/ DeleteFailed(b) \/ LoseLink(b)
  <2>1. /\ call' = call /\ dest' = dest /\ pending_tasks' = pending_tasks
        /\ chan' = chan /\ wire' = wire /\ server' = server
        /\ offered' = offered /\ handled' = handled
    BY <1>6 DEF OpenStream, RegisterSender, DrainPending, DrainFailed, StartReplay,
       DeleteFailed, AfterYield, LoseLink
  <2> QED BY <2>1, StutterStep
          DEF Stutters, Answers, Targets, StoredTasks, InFlight, Travelling, Deleted
<1> QED BY <1>1, <1>2, <1>3, <1>4, <1>5, <1>6 DEF Stream

\* so is a step of a deletion,
LEMMA DeliveryDeletion ==
  ASSUME IInv, NEW s \in Server, Delete(s)
  PROVE  [Delivery!DNext]_Delivery!dvars
<1> USE DEF callVars, streamVars, tableVars, ghostVars
<1>1. CASE DeleteServerRows(s)
  <2>1. /\ server \in [Server -> ServerState] /\ call \in [Task -> CallState]
        /\ pending_tasks \subseteq Row
        /\ \A r \in pending_tasks : call[r.task] = "stored"
    BY DEF IInv, TypeOK, RowsNamed, AllRows
  <2>2. s \notin Deleted /\ Deleted' = Deleted \union {s}
    BY <1>1, <2>1 DEF DeleteServerRows, Deleted
  <2>3. \A r \in pending_tasks : r.task \in Task /\ Targets[r.task] = dest[r.task]
    BY <2>1 DEF Targets
  <2>4. pending_tasks' = {r \in pending_tasks : dest[r.task] # s}
    BY <1>1 DEF DeleteServerRows, RowsOf
  <2>5. StoredTasks' = {t \in StoredTasks : Targets[t] # s}
    BY <2>3, <2>4 DEF StoredTasks
  <2>6. /\ Answers' = Answers /\ Targets' = Targets /\ InFlight' = InFlight
        /\ offered' = offered /\ handled' = handled
    BY <1>1 DEF DeleteServerRows, Answers, Targets, InFlight, Travelling
  <2> QED BY <2>2, <2>5, <2>6 DEF Delivery!DNext, Delivery!DeleteServer, InFlight
<1>2. CASE EvictServer(s) \/ EvictSender(s)
  <2>1. Deleted' = Deleted
    BY <1>2 DEF IInv, TypeOK, EvictServer, EvictSender, Deleted
  <2> QED BY <1>2, <2>1, StutterStep DEF EvictServer, EvictSender, Stutters, Answers,
          Targets, StoredTasks, InFlight, Travelling
<1> QED BY <1>1, <1>2 DEF Delete

\* The calls a restart ends are lost, whatever they had in hand.
LEMMA DeliveryRestart ==
  ASSUME IInv, Restart
  PROVE  Delivery!Crash
<1> DEFINE ended == {t \in Task : call[t] \in {"sending", "failed", "unsent"}}
<1>1. /\ call \in [Task -> CallState] /\ server \in [Server -> ServerState]
      /\ \A t \in ended : dest[t] \in Server
  BY DEF IInv, TypeOK, ServersAgree
<1>2. ended \in SUBSET {t \in Task : Answers[t] = "none"}
  BY <1>1 DEF Answers
<1>3. Answers' = [t \in Task |-> IF t \in ended THEN "lost" ELSE Answers[t]]
  BY <1>1 DEF Restart, Answers
<1>4. [t \in ended |-> dest[t]] \in [ended -> Server]
  BY <1>1
<1>5. Targets' = [t \in Task |-> IF t \in ended THEN [u \in ended |-> dest[u]][t]
                                                ELSE Targets[t]]
  BY <1>1 DEF Restart, Targets
<1>6. Deleted' = Deleted
  BY <1>1 DEF Restart, Deleted
<1>7. InFlight' = {}
  <2>1. \A c \in Conn : Travelling(c)' = {}
    BY RangeNil DEF Restart, Travelling
  <2> QED BY <2>1, InFlightIs
<1>8. StoredTasks' = StoredTasks /\ offered' = offered /\ handled' = handled
  BY DEF Restart, tableVars, ghostVars, StoredTasks
<1> QED BY <1>2, <1>3, <1>4, <1>5, <1>6, <1>7, <1>8 DEF Delivery!Crash, InFlight

\* and so is every step.
LEMMA DeliveryStep ==
  ASSUME IInv, TravelsOnce, [Next]_vars
  PROVE  [Delivery!DNext]_Delivery!dvars
<1>1. CASE UNCHANGED vars
  BY <1>1, StutterStep DEF vars, Stutters, Answers, Targets, StoredTasks, InFlight,
     Travelling, Deleted
<1>2. CASE Restart
  BY <1>2, DeliveryRestart DEF Delivery!DNext
<1> QED BY <1>1, <1>2, DeliveryDispatch, DeliveryStream, DeliveryDeletion DEF Next

\* The task channel implements the delivery promise: whatever streams die,
\* servers are deleted and processes restart in between, each task is sent and
\* read at most once, stored until it was on the way, or lost with its call
\* (send_task, request_task, batch_delete_server).
THEOREM DeliveryIsImplemented == Spec => ImplementsDelivery
<1>1. Init => IInv /\ TravelsOnce
  BY InvInit, TravelsOnceInit
<1>2. IInv /\ TravelsOnce /\ [Next]_vars => IInv' /\ TravelsOnce'
  BY InvStep, TravelsOnceStep
<1>3. IInv /\ TravelsOnce /\ [Next]_vars => [Delivery!DNext]_Delivery!dvars
  BY DeliveryStep
<1> QED BY <1>1, <1>2, <1>3, DeliveryInit, PTL DEF Spec, ImplementsDelivery, Delivery!DSpec
=============================================================================
