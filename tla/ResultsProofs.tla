---------------------------- MODULE ResultsProofs -----------------------------
(***************************************************************************)
(* Proofs about ConfigRpc, for any agents, calls and processes: a call     *)
(* takes the result of its own task, but for an ApplyConfig task that an   *)
(* earlier process stored under the same id, and leaves no waiter.  And    *)
(* about ServiceMonitor, for any services, streams, window and channels:   *)
(* what was notified and commanded last is what the last results say.      *)
(***************************************************************************)
EXTENDS MCResults, SequenceTheorems, TLAPS

-----------------------------------------------------------------------------
(* ConfigRpc *)

\* At start no call waits.
LEMMA RpcInit == RpcAssumption /\ Init => RpcIInv
BY DEF RpcAssumption, Init, DInit, RpcIInv, TypeOK, RpcState, InFlight, Finished,
       WaitersBelongToCalls, IdsAreUnique, TravelsForThisProcess, ValuesAreOwn

\* The id is the counter's, which no call of this process has.
LEMMA BeginStep ==
  ASSUME RpcAssumption, RpcIInv, NEW t \in Task, NEW s \in Server, Begin(t, s)
  PROVE  RpcIInv'
<1>0. /\ rpc[t] = "idle" /\ rpc' = [rpc EXCEPT ![t] = "sending"]
      /\ server_id' = [server_id EXCEPT ![t] = s]
      /\ task_id' = [task_id EXCEPT ![t] = next_task_id]
      /\ next_task_id' = next_task_id + 1
      /\ waiters' = waiters \union {t}
      /\ boot' = [boot EXCEPT ![t] = now]
      /\ UNCHANGED <<oneshot, results, now, answer, flight>>
  BY DEF Begin, BeginWith, dvars
<1>t. TypeOK /\ flight \subseteq Task /\ answer \in [Task -> {"none", "sent", "stored", "lost"}]
  BY DEF RpcIInv
<1>1. TypeOK'
  <2>1. rpc' \in [Task -> RpcState] /\ server_id' \in [Task -> Server \union {None}]
    BY <1>0, <1>t DEF TypeOK, RpcState
  <2>2. task_id' \in [Task -> Nat] /\ next_task_id' \in Nat \ {0}
    BY <1>0, <1>t DEF TypeOK
  <2>3. boot' \in [Task -> 0..MaxBoot]
    <3>1. now \in 0..MaxBoot
      BY <1>t DEF TypeOK, RpcAssumption
    <3> QED BY <1>0, <1>t, <3>1 DEF TypeOK
  <2> QED BY <1>0, <1>t, <2>1, <2>2, <2>3 DEF TypeOK
<1>2. \A u \in Task : u # t =>
        rpc'[u] = rpc[u] /\ task_id'[u] = task_id[u] /\ boot'[u] = boot[u]
  BY <1>0, <1>t DEF TypeOK
<1>3. rpc'[t] = "sending" /\ task_id'[t] = next_task_id /\ boot'[t] = now
  BY <1>0, <1>t DEF TypeOK
<1>4. IdsAreUnique'
  <2>1. \A u \in Task : rpc[u] # "idle" /\ boot[u] = now => task_id[u] < next_task_id
    BY DEF RpcIInv, IdsAreUnique
  <2>2. \A u \in Task : task_id[u] \in Nat /\ next_task_id \in Nat
    BY <1>t DEF TypeOK
  <2>3. \A u \in Task : rpc'[u] # "idle" /\ boot'[u] = now =>
          task_id'[u] < next_task_id' /\ (task_id'[u] = next_task_id <=> u = t)
    BY <1>0, <1>2, <1>3, <2>1, <2>2
  <2> QED BY <1>0, <1>2, <1>3, <2>3 DEF RpcIInv, IdsAreUnique
<1>5. WaitersBelongToCalls'
  <2>1. \A w \in waiters' : w \in Task /\ rpc'[w] \notin Finished \union {"idle", "killed"} /\ boot'[w] = now
    BY <1>0, <1>2, <1>3, <1>t DEF RpcIInv, WaitersBelongToCalls, Finished, TypeOK
  <2>2. \A v, w \in waiters' : task_id'[v] = task_id'[w] => v = w
    BY <1>0, <1>4, <2>1 DEF IdsAreUnique
  <2> QED BY <1>0, <2>1, <2>2 DEF WaitersBelongToCalls
<1>6. TravelsForThisProcess'
  <2>1. now <= now
    BY <1>t DEF TypeOK
  <2> QED BY <1>0, <1>2, <1>3, <1>t, <2>1 DEF RpcIInv, TravelsForThisProcess, TypeOK
<1>7. ValuesAreOwn'
  <2>1. oneshot[t] = None
    BY <1>0 DEF RpcIInv, ValuesAreOwn
  <2>2. \A u \in Task : answer[u] = "stored" => u # t
    BY <1>0 DEF RpcIInv, TravelsForThisProcess
  <2> SUFFICES ASSUME NEW u \in Task
               PROVE  /\ rpc'[u] = "answered" => oneshot[u] # None
                      /\ oneshot[u] # None =>
                           /\ rpc'[u] # "idle" /\ u \notin waiters'
                           /\ \/ oneshot[u] = u
                              \/ /\ {u, oneshot[u]} \subseteq Persistable
                                 /\ answer[oneshot[u]] = "stored" /\ boot'[oneshot[u]] < boot'[u]
                                 /\ task_id'[oneshot[u]] = task_id'[u]
    BY <1>0 DEF ValuesAreOwn
  <2>3. CASE u = t
    BY <1>3, <2>1, <2>3
  <2>4. CASE u # t
    <3>1. oneshot[u] # None => oneshot[u] \in Task
      BY <1>t DEF TypeOK
    <3> QED BY <1>0, <1>2, <2>2, <2>4, <3>1 DEF RpcIInv, ValuesAreOwn
  <2> QED BY <2>3, <2>4
<1> QED BY <1>0, <1>1, <1>4, <1>5, <1>6, <1>7, <1>t DEF RpcIInv

\* A call goes on: with another answer it was "sending", and waiters only go.
LEMMA CallerRests ==
  ASSUME RpcAssumption, RpcIInv, NEW t \in Task, NEW to \in RpcState,
         rpc[t] \in InFlight, to \notin {"idle", "sending", "killed"},
         rpc' = [rpc EXCEPT ![t] = to],
         to = "answered" => oneshot[t] # None,
         UNCHANGED <<server_id, task_id, next_task_id, oneshot, results, boot, now>>,
         waiters' \subseteq waiters, to \in Finished => t \notin waiters',
         flight' \subseteq flight \union {t},
         \/ answer' = answer
         \/ /\ answer[t] = "none" /\ answer' \in [Task -> {"none", "sent", "stored", "lost"}]
            /\ \A u \in Task : u # t => answer'[u] = answer[u]
            /\ answer'[t] = "stored" => t \in Persistable,
         t \in flight' => t \in flight \/ boot[t] = now
  PROVE  RpcIInv'
<1>t. TypeOK /\ flight \subseteq Task /\ answer \in [Task -> {"none", "sent", "stored", "lost"}]
  BY DEF RpcIInv
<1>b. boot[t] = now /\ rpc[t] # "idle"
  BY DEF RpcIInv, TravelsForThisProcess, InFlight
<1>1. TypeOK'
  BY <1>t DEF TypeOK
<1>2. /\ rpc'[t] = to /\ \A u \in Task : u # t => rpc'[u] = rpc[u]
  BY <1>t DEF TypeOK
<1>3. IdsAreUnique'
  BY <1>2, <1>b DEF RpcIInv, IdsAreUnique
<1>4. WaitersBelongToCalls'
  <2>1. \A w \in waiters' : rpc'[w] \notin Finished \union {"idle", "killed"} /\ boot[w] = now
    BY <1>2, <1>t DEF RpcIInv, WaitersBelongToCalls, TypeOK
  <2> QED BY <2>1 DEF RpcIInv, WaitersBelongToCalls
<1>5. \A u \in Task : answer[u] = "stored" => answer'[u] = "stored"
  OBVIOUS
<1>6. TravelsForThisProcess'
  <2>1. \A u \in flight' \union results : u \in Task /\ (boot[u] = now \/ answer'[u] = "stored")
    BY <1>5, <1>t DEF RpcIInv, TravelsForThisProcess, TypeOK
  <2>2. \A u \in flight' \union results : rpc'[u] # "idle"
    BY <1>2, <1>b, <1>t, <2>1 DEF RpcIInv, TravelsForThisProcess
  <2>3. \A u \in Task : answer'[u] = "stored" => u \in Persistable
    BY DEF RpcIInv, TravelsForThisProcess
  <2>4. \A u \in Task : rpc'[u] \in {"idle", "sending"} => answer'[u] = "none"
    BY <1>2 DEF RpcIInv, TravelsForThisProcess
  <2>5. \A u \in Task : boot[u] <= now /\ (rpc'[u] \in InFlight => boot[u] = now)
    BY <1>2, <1>b DEF RpcIInv, TravelsForThisProcess
  <2> QED BY <2>1, <2>2, <2>3, <2>4, <2>5 DEF TravelsForThisProcess
<1>7. ValuesAreOwn'
  <2>1. \A u \in Task : oneshot[u] # None => oneshot[u] \in Task
    BY <1>t DEF TypeOK
  <2> QED BY <1>2, <1>5, <1>b, <2>1 DEF RpcIInv, ValuesAreOwn
<1>8. flight' \subseteq Task /\ answer' \in [Task -> {"none", "sent", "stored", "lost"}]
  BY <1>t
<1> QED BY <1>1, <1>3, <1>4, <1>6, <1>7, <1>8 DEF RpcIInv

\* Every step of a caller keeps the invariant.
LEMMA CallerStep ==
  ASSUME RpcAssumption, RpcIInv, NEW t \in Task, Caller(t)
  PROVE  RpcIInv'
<1>t. /\ TypeOK /\ flight \subseteq Task /\ answer \in [Task -> {"none", "sent", "stored", "lost"}]
      /\ rpc[t] \in InFlight => boot[t] = now
  BY DEF RpcIInv, TravelsForThisProcess
<1>1. ASSUME NEW s \in Server, Begin(t, s) PROVE RpcIInv'
  BY <1>1, BeginStep
<1>2. CASE Sent(t)
  <2>1. rpc[t] = "sending" /\ rpc' = [rpc EXCEPT ![t] = "waiting"]
    BY <1>2 DEF Sent
  <2>2. /\ answer[t] = "none" /\ answer' = [answer EXCEPT ![t] = "sent"]
        /\ flight' = flight \union {t}
        /\ UNCHANGED <<server_id, task_id, next_task_id, waiters, oneshot, results, boot, now>>
    BY <1>2 DEF Sent, Accept, End
  <2>3. answer' \in [Task -> {"none", "sent", "stored", "lost"}] /\ answer'[t] = "sent"
        /\ \A u \in Task : u # t => answer'[u] = answer[u]
    BY <1>t, <2>2
  <2>4. boot[t] = now
    BY <1>t, <2>1 DEF InFlight
  <2> QED BY <2>1, <2>2, <2>3, <2>4, CallerRests DEF RpcState, InFlight, Finished
<1>3. CASE NotSent(t)
  <2>1. /\ rpc[t] = "sending" /\ rpc' = [rpc EXCEPT ![t] = "unsent"] /\ flight' = flight
        /\ UNCHANGED <<server_id, task_id, next_task_id, waiters, oneshot, results, boot, now>>
        /\ answer[t] = "none"
        /\ answer' = [answer EXCEPT ![t] = IF t \in Persistable THEN "stored" ELSE "lost"]
    BY <1>3 DEF NotSent, Store, GiveUp, End
  <2>2. /\ answer' \in [Task -> {"none", "sent", "stored", "lost"}]
        /\ \A u \in Task : u # t => answer'[u] = answer[u]
        /\ answer'[t] = "stored" => t \in Persistable
    BY <1>t, <2>1
  <2> QED BY <2>1, <2>2, CallerRests DEF RpcState, InFlight, Finished
<1>4. CASE AnswerOffline(t)
  BY <1>4, <1>t, CallerRests DEF AnswerOffline, Forget, SameKind, dvars, RpcState, InFlight, Finished
<1>5. CASE TakeAnswer(t)
  <2>1. /\ rpc[t] = "waiting" /\ oneshot[t] # None /\ rpc' = [rpc EXCEPT ![t] = "answered"]
        /\ UNCHANGED <<server_id, task_id, next_task_id, waiters, oneshot, results, boot, now,
                       answer, flight>>
    BY <1>5 DEF TakeAnswer, dvars
  <2>2. t \notin waiters
    BY <2>1 DEF RpcIInv, ValuesAreOwn
  <2> QED BY <2>1, <2>2, CallerRests DEF RpcState, InFlight, Finished
<1>6. CASE Expire(t)
  BY <1>6, <1>t, CallerRests DEF Expire, dvars, RpcState, InFlight, Finished
<1>7. CASE AnswerTimeout(t)
  BY <1>7, <1>t, CallerRests DEF AnswerTimeout, Forget, SameKind, dvars, RpcState, InFlight, Finished
<1>8. CASE Cancel(t)
  <2>1. /\ rpc[t] \in InFlight /\ rpc' = [rpc EXCEPT ![t] = "cancelled"] /\ flight' = flight
        /\ UNCHANGED <<server_id, task_id, next_task_id, waiters, oneshot, results, boot, now>>
        /\ \/ answer' = answer
           \/ answer[t] = "none" /\ answer' = [answer EXCEPT ![t] = "lost"]
    BY <1>8 DEF Cancel, GiveUp, End, dvars, InFlight
  <2>2. \/ answer' = answer
        \/ /\ answer[t] = "none" /\ answer' \in [Task -> {"none", "sent", "stored", "lost"}]
           /\ \A u \in Task : u # t => answer'[u] = answer[u]
           /\ answer'[t] = "lost"
    BY <1>t, <2>1
  <2> QED BY <2>1, <2>2, CallerRests DEF RpcState, Finished
<1> QED BY <1>1, <1>2, <1>3, <1>4, <1>5, <1>6, <1>7, <1>8 DEF Caller

\* Only what was on its way moves: tasks and results are lost, or offered again.
LEMMA TravelRests ==
  ASSUME RpcAssumption, RpcIInv,
         UNCHANGED <<rpc, server_id, task_id, next_task_id, waiters, oneshot, boot, now, answer>>,
         results' \subseteq Task, flight' \subseteq Task,
         \A t \in (flight' \union results') \ (flight \union results) : answer[t] = "stored"
  PROVE  RpcIInv'
<1>1. TypeOK'
  BY DEF RpcIInv, TypeOK
<1>2. TravelsForThisProcess'
  BY DEF RpcIInv, TravelsForThisProcess
<1> QED BY <1>1, <1>2 DEF RpcIInv, WaitersBelongToCalls, SameKind, IdsAreUnique, ValuesAreOwn

\* The waiter a result hits is of this process: so is the task, or it was stored by an
\* earlier one.
LEMMA CompleteStep ==
  ASSUME RpcAssumption, RpcIInv, NEW t \in Task, CompleteTaskResult(t)
  PROVE  RpcIInv'
<1> DEFINE hit == {w \in waiters : SameKind(w, t) /\ task_id[w] = task_id[t]}
<1>0. /\ t \in results /\ results' = results \ {t}
      /\ waiters' = waiters \ hit
      /\ oneshot' = [w \in Task |-> IF w \in hit /\ rpc[w] # "expired" THEN t ELSE oneshot[w]]
      /\ UNCHANGED <<rpc, server_id, task_id, next_task_id, boot, now, answer, flight>>
  BY DEF CompleteTaskResult, Complete, dvars
<1>t. TypeOK /\ flight \subseteq Task /\ answer \in [Task -> {"none", "sent", "stored", "lost"}]
  BY DEF RpcIInv
<1>1. \A w \in hit : /\ w \in Task /\ boot[w] = now /\ rpc[w] # "idle"
                     /\ task_id[w] = task_id[t] /\ SameKind(w, t)
  BY <1>t DEF RpcIInv, WaitersBelongToCalls, TypeOK
<1>2. rpc[t] # "idle" /\ (boot[t] = now \/ answer[t] = "stored") /\ boot[t] <= now
  BY <1>0 DEF RpcIInv, TravelsForThisProcess
<1> HIDE DEF hit
<1>3. TypeOK'
  BY <1>0, <1>t DEF TypeOK
<1>4. ASSUME NEW w \in hit
      PROVE  \/ t = w
             \/ /\ {w, t} \subseteq Persistable
                /\ answer[t] = "stored" /\ boot[t] < boot[w] /\ task_id[t] = task_id[w]
  <2>1. CASE boot[t] = now
    BY <1>1, <1>2, <1>4, <2>1 DEF RpcIInv, IdsAreUnique
  <2>2. CASE boot[t] # now
    <3>1. answer[t] = "stored" /\ t \in Persistable
      BY <1>2, <2>2 DEF RpcIInv, TravelsForThisProcess
    <3>2. w \in Persistable
      BY <1>1, <1>4, <3>1 DEF SameKind
    <3>3. boot[t] < now
      BY <1>2, <1>t, <2>2 DEF TypeOK
    <3> QED BY <1>1, <1>4, <3>1, <3>2, <3>3
  <2> QED BY <2>1, <2>2
<1>5. ValuesAreOwn'
  <2> SUFFICES ASSUME NEW w \in Task
               PROVE  /\ rpc[w] = "answered" => oneshot'[w] # None
                      /\ oneshot'[w] # None =>
                           /\ rpc[w] # "idle" /\ w \notin waiters'
                           /\ \/ oneshot'[w] = w
                              \/ /\ {w, oneshot'[w]} \subseteq Persistable
                                 /\ answer[oneshot'[w]] = "stored"
                                 /\ boot[oneshot'[w]] < boot[w]
                                 /\ task_id[oneshot'[w]] = task_id[w]
    BY <1>0 DEF ValuesAreOwn
  <2>1. CASE w \in hit /\ rpc[w] # "expired"
    <3>1. oneshot'[w] = t /\ rpc[w] # "idle" /\ t # None
      BY <1>0, <1>1, <2>1 DEF RpcAssumption
    <3>2. w \notin waiters'
      BY <1>0, <2>1
    <3> QED BY <1>4, <2>1, <3>1, <3>2
  <2>2. CASE ~(w \in hit /\ rpc[w] # "expired")
    <3>1. oneshot'[w] = oneshot[w]
      BY <1>0, <2>2
    <3> QED BY <1>0, <3>1 DEF RpcIInv, ValuesAreOwn
  <2> QED BY <2>1, <2>2
<1>6. WaitersBelongToCalls' /\ TravelsForThisProcess' /\ IdsAreUnique'
  BY <1>0 DEF RpcIInv, WaitersBelongToCalls, SameKind, TravelsForThisProcess, IdsAreUnique
<1> QED BY <1>0, <1>3, <1>5, <1>6, <1>t DEF RpcIInv

\* A new process has no calls; those of the old one keep what they were answered.
LEMMA RestartStep == RpcAssumption /\ RpcIInv /\ RestartProcess => RpcIInv'
<1> SUFFICES ASSUME RpcAssumption, RpcIInv, RestartProcess PROVE RpcIInv'
  OBVIOUS
<1>0. /\ now < MaxBoot /\ now' = now + 1 /\ next_task_id' = 1
      /\ waiters' = {} /\ results' = {} /\ flight' = {}
      /\ answer' = [t \in Task |-> IF rpc[t] = "sending" THEN "lost" ELSE answer[t]]
      /\ rpc' = [t \in Task |-> IF rpc[t] \in InFlight THEN "killed" ELSE rpc[t]]
      /\ UNCHANGED <<server_id, task_id, oneshot, boot>>
  BY DEF RestartProcess, RestartAt
<1>t. TypeOK /\ answer \in [Task -> {"none", "sent", "stored", "lost"}]
  BY DEF RpcIInv
<1>1. TypeOK'
  BY <1>0, <1>t DEF TypeOK, RpcState, RpcAssumption
<1>2. answer' \in [Task -> {"none", "sent", "stored", "lost"}]
  BY <1>0, <1>t
<1>3. \A t \in Task : boot[t] \in Nat /\ boot[t] <= now /\ now \in Nat
  BY <1>t DEF RpcIInv, TravelsForThisProcess, TypeOK
<1>4. IdsAreUnique' /\ WaitersBelongToCalls'
  BY <1>0, <1>3 DEF IdsAreUnique, WaitersBelongToCalls
<1>5. \A t \in Task : /\ answer[t] = "stored" <=> answer'[t] = "stored"
                      /\ rpc'[t] # "sending" /\ (rpc'[t] = "idle" <=> rpc[t] = "idle")
                      /\ rpc'[t] = "answered" <=> rpc[t] = "answered"
                      /\ rpc[t] = "idle" => answer'[t] = answer[t]
  BY <1>0 DEF RpcIInv, TravelsForThisProcess, InFlight
<1>6. TravelsForThisProcess'
  <2>1. \A t \in Task : boot[t] <= now + 1 /\ rpc'[t] \notin InFlight
    BY <1>0, <1>3 DEF InFlight
  <2> QED BY <1>0, <1>5, <2>1 DEF RpcIInv, TravelsForThisProcess
<1>7. ValuesAreOwn'
  <2>1. \A t \in Task : oneshot[t] # None => oneshot[t] \in Task
    BY <1>t DEF TypeOK
  <2> QED BY <1>0, <1>5, <2>1 DEF RpcIInv, ValuesAreOwn
<1> QED BY <1>0, <1>1, <1>2, <1>4, <1>6, <1>7 DEF RpcIInv

-----------------------------------------------------------------------------
\* So does every step of the agents, and a restart.
LEMMA RpcStep == RpcAssumption /\ RpcIInv /\ [Next]_vars => RpcIInv'
<1> SUFFICES ASSUME RpcAssumption, RpcIInv, [Next]_vars PROVE RpcIInv'
  OBVIOUS
<1>t. results \subseteq Task /\ flight \subseteq Task
  BY DEF RpcIInv, TypeOK
<1>1. ASSUME NEW t \in Task, Caller(t) PROVE RpcIInv'
  BY <1>1, CallerStep
<1>2. ASSUME NEW t \in Task, Execute(t) PROVE RpcIInv'
  <2>1. /\ t \in flight /\ flight' \subseteq flight /\ results' \subseteq results \union {t}
        /\ UNCHANGED <<rpc, server_id, task_id, next_task_id, waiters, oneshot, boot, now, answer>>
    BY <1>2 DEF Execute, Receive
  <2> QED BY <1>t, <2>1, TravelRests
<1>3. ASSUME NEW t \in Task, CompleteTaskResult(t) PROVE RpcIInv'
  BY <1>3, CompleteStep
<1>4. CASE LoseConnections
  <2>1. /\ flight' \subseteq flight /\ results' \subseteq results
        /\ UNCHANGED <<rpc, server_id, task_id, next_task_id, waiters, oneshot, boot, now, answer>>
    BY <1>4 DEF LoseConnections, Lose
  <2> QED BY <1>t, <2>1, TravelRests
<1>5. CASE Transport
  <2>1. UNCHANGED rpcVars
    BY <1>5 DEF Transport
  <2>2. ASSUME NEW t \in Task, Offer(t) PROVE RpcIInv'
    BY <1>t, <2>1, <2>2, TravelRests DEF Offer, rpcVars
  <2>3. ASSUME NEW t \in Task, RemoveRow(t) PROVE RpcIInv'
    BY <1>t, <2>1, <2>3, TravelRests DEF RemoveRow, rpcVars
  <2>4. ASSUME NEW s \in Server, DeleteServer(s) PROVE RpcIInv'
    BY <1>t, <2>1, <2>4, TravelRests DEF DeleteServer, rpcVars
  <2> QED BY <1>5, <2>2, <2>3, <2>4 DEF Transport
<1>6. CASE RestartProcess
  BY <1>6, RestartStep
<1>7. CASE UNCHANGED vars
  BY <1>t, <1>7, TravelRests DEF vars, dvars, rpcVars
<1> QED BY <1>1, <1>2, <1>3, <1>4, <1>5, <1>6, <1>7 DEF Next

\* The invariant gives the answers their owners.
LEMMA AnswersAreOwn == RpcIInv => OwnAnswer
BY DEF RpcIInv, ValuesAreOwn, OwnAnswer

\* Ids, waiters and values belong to the calls of this process in every state
\* (request_config, apply_config_and_wait, complete_task_result).
THEOREM RpcInvariant == ASSUME RpcAssumption PROVE Spec => []RpcIInv
<1>1. Init => RpcIInv
  BY RpcInit
<1>2. RpcIInv /\ [Next]_vars => RpcIInv'
  BY RpcStep
<1> QED BY <1>1, <1>2, PTL DEF Spec

\* However results are lost, repeated and late, and whatever processes follow each
\* other: request_config and apply_config_and_wait return the result of their own
\* task or that of a stored one of an earlier process with the same id.
THEOREM AnswersAreOfTheCall == ASSUME RpcAssumption PROVE Spec => []OwnAnswer
<1>1. Spec => []RpcIInv
  BY RpcInvariant
<1> QED BY <1>1, AnswersAreOwn, PTL

\* A call that was answered or timed out left no waiter behind, no waiter outlives its
\* process, and two calls never share one.  A call whose handler was dropped may leave
\* its own, until the process ends.
THEOREM NoWaiterIsLeft == ASSUME RpcAssumption PROVE Spec => []WaitersBelongToCalls
<1>1. Spec => []RpcIInv
  BY RpcInvariant
<1>2. RpcIInv => WaitersBelongToCalls
  BY DEF RpcIInv
<1> QED BY <1>1, <1>2, PTL

-----------------------------------------------------------------------------
(* ServiceMonitor: what readers have left *)

\* A sequence is its first element and the rest.
LEMMA HeadAndTail ==
  ASSUME NEW S, NEW s \in Seq(S), s # <<>>
  PROVE  /\ Head(s) \in S /\ Tail(s) \in Seq(S) /\ Len(Tail(s)) = Len(s) - 1 /\ Len(s) \in Nat \ {0}
         /\ {s[i] : i \in 1..Len(s)} = {Head(s)} \union {Tail(s)[i] : i \in 1..Len(Tail(s))}
<1>1. Len(s) \in Nat \ {0}
  BY EmptySeq
<1>2. Head(s) \in S /\ Tail(s) \in Seq(S) /\ Len(Tail(s)) = Len(s) - 1
  BY HeadTailProperties
<1>3. Head(s) = s[1] /\ \A i \in 1..Len(Tail(s)) : Tail(s)[i] = s[i + 1]
  BY HeadTailProperties
<1>4. ASSUME NEW i \in 1..Len(s)
      PROVE  s[i] \in {Head(s)} \union {Tail(s)[j] : j \in 1..Len(Tail(s))}
  <2>1. CASE i = 1
    BY <1>3, <2>1
  <2>2. CASE i # 1
    <3>1. i - 1 \in 1..Len(Tail(s)) /\ (i - 1) + 1 = i
      BY <1>1, <1>2, <2>2
    <3> QED BY <1>3, <3>1
  <2> QED BY <2>1, <2>2
<1>5. 1 \in 1..Len(s)
  BY <1>1
<1>6. \A j \in 1..Len(Tail(s)) : j + 1 \in 1..Len(s)
  BY <1>1, <1>2
<1> QED BY <1>1, <1>2, <1>3, <1>4, <1>5, <1>6

\* What is due for a reader are the effects it has not worked off.
LEMMA DueProperties ==
  ASSUME Monitor!TypeOK, NEW c \in Conn
  PROVE  /\ Monitor!Due(c) \subseteq Monitor!Effect
         /\ effects[c] = <<>> => Monitor!Due(c) = {}
         /\ effects[c] # <<>> => Head(effects[c]) \in Monitor!Due(c)
<1>1. effects[c] \in Seq(Monitor!Effect)
  BY DEF Monitor!TypeOK
<1>2. effects[c] = <<>> => Len(effects[c]) = 0
  BY <1>1, EmptySeq
<1> QED BY <1>1, <1>2, HeadAndTail DEF Monitor!Due

\* At start no service has samples.
LEMMA MonitorInit == Monitor!MonitorAssumption /\ Monitor!Init => Monitor!MonitorIInv
<1> SUFFICES ASSUME Monitor!MonitorAssumption, Monitor!Init PROVE Monitor!MonitorIInv
  OBVIOUS
<1>1. Len(<<>>) = 0 /\ \A S : <<>> \in Seq(S)
  BY EmptySeq
<1>2. Monitor!TypeOK
  BY <1>1 DEF Monitor!Init, Monitor!TypeOK, Monitor!MonitorAssumption, Monitor!Statuses
<1>3. Monitor!StatusIsOfSamples
  BY DEF Monitor!Init, Monitor!StatusIsOfSamples
<1>4. \A c \in Conn : Monitor!Due(c) = {}
  BY <1>2, DueProperties DEF Monitor!Init
<1>5. \A v \in Service : Monitor!WorkFits(v)
  BY <1>4 DEF Monitor!Init, Monitor!WorkFits, Monitor!Busy
<1> QED BY <1>2, <1>3, <1>5 DEF Monitor!MonitorIInv

\* Nothing follows from a step that leaves effects, statuses and what was told alone.
LEMMA WorkRests ==
  ASSUME Monitor!MonitorIInv, Monitor!TypeOK',
         UNCHANGED <<effects, samples, status, told, commanded>>
  PROVE  Monitor!MonitorIInv'
<1>1. \A c : Monitor!Due(c)' = Monitor!Due(c)
  BY DEF Monitor!Due
<1>2. Monitor!StatusIsOfSamples'
  BY DEF Monitor!MonitorIInv, Monitor!StatusIsOfSamples, Monitor!StatusOf
<1>3. ASSUME NEW v \in Service PROVE Monitor!WorkFits(v)'
  <2>1. Monitor!WorkFits(v)
    BY DEF Monitor!MonitorIInv
  <2> QED BY <1>1, <2>1 DEF Monitor!WorkFits, Monitor!Busy, Monitor!Fits, Monitor!CommandOf, Monitor!IsDue
<1> QED BY <1>2, <1>3 DEF Monitor!MonitorIInv

\* Sequences of none, one and two put together.
LEMMA ShortConcatenations ==
  ASSUME NEW S, NEW x \in S, NEW y \in S
  PROVE  <<>> \o <<>> = <<>> /\ <<x>> \o <<>> = <<x>> /\ <<x>> \o <<y>> = <<x, y>>
<1>1. <<>> \in Seq(S) /\ <<x>> \in Seq(S) /\ <<y>> \in Seq(S) /\ <<x, y>> \in Seq(S)
  OBVIOUS
<1>2. <<>> \o <<>> = <<>> /\ <<x>> \o <<>> = <<x>>
  BY <1>1, ConcatEmptySeq
<1>3. <<x>> \o <<y>> = <<x, y>>
  <2>1. <<x>> \o <<y>> \in Seq(S) /\ Len(<<x>> \o <<y>>) = 2
    BY <1>1, ConcatProperties
  <2>2. (<<x>> \o <<y>>)[1] = x /\ (<<x>> \o <<y>>)[2] = y
    BY <1>1, ConcatProperties
  <2> DEFINE z == <<x>> \o <<y>>
             w == <<x, y>>
  <2>3. /\ z \in Seq(S) /\ w \in Seq(S) /\ Len(z) = 2 /\ Len(w) = 2
        /\ z[1] = w[1] /\ z[2] = w[2]
    BY <1>1, <2>1, <2>2
  <2> HIDE DEF z, w
  <2>4. \A i \in 1..Len(z) : z[i] = w[i]
    BY <2>3
  <2>5. z = w
    BY <2>3, <2>4, SeqEqual
  <2> QED BY <2>5 DEF z, w
<1> QED BY <1>2, <1>3

\* What follows from a result.
LEMMA TodoCases ==
  ASSUME NEW v \in Service, NEW current \in {"good", "low", "down"}
  PROVE  LET n == [kind |-> "notify", service |-> v, what |-> current]
             k == [kind |-> "command", service |-> v,
                   what |-> IF current = "good" THEN "recover" ELSE "fail"]
             todo == Monitor!NotifyEffect(v, current) \o Monitor!CommandEffect(v, current)
         IN \/ /\ todo = <<>> /\ current # "down"
               /\ status[v] = "unset" \/ status[v] = current
            \/ /\ todo = <<n>>
               /\ status[v] = "unset" \/ (status[v] = "good" <=> current = "good")
            \/ /\ todo = <<n, k>> /\ status[v] # "unset"
<1> DEFINE n == [kind |-> "notify", service |-> v, what |-> current]
           k == [kind |-> "command", service |-> v,
                 what |-> IF current = "good" THEN "recover" ELSE "fail"]
           todo == Monitor!NotifyEffect(v, current) \o Monitor!CommandEffect(v, current)
<1>1. <<>> \o <<>> = <<>> /\ <<n>> \o <<>> = <<n>> /\ <<n>> \o <<k>> = <<n, k>>
  <2>1. n \in {n, k} /\ k \in {n, k}
    OBVIOUS
  <2> HIDE DEF n, k
  <2> QED BY <2>1, ShortConcatenations
<1>2. Monitor!NotifyEffect(v, current) = IF (current = "down" \/ current # status[v])
                                              /\ (status[v] # "unset" \/ current = "down")
                                           THEN <<n>> ELSE <<>>
  BY DEF Monitor!NotifyEffect, Monitor!RunsEffects
<1>3. Monitor!CommandEffect(v, current) =
        IF \/ current = "good" /\ status[v] \notin {"good", "unset"}
           \/ status[v] = "good" /\ current # "good"
        THEN <<k>> ELSE <<>>
  BY DEF Monitor!CommandEffect
<1> HIDE DEF n, k
<1>4. CASE ~((current = "down" \/ current # status[v]) /\ (status[v] # "unset" \/ current = "down"))
  <2>1. todo = <<>>
    BY <1>1, <1>2, <1>3, <1>4
  <2> QED BY <1>4, <2>1
<1>5. CASE /\ (current = "down" \/ current # status[v]) /\ (status[v] # "unset" \/ current = "down")
           /\ ~(\/ current = "good" /\ status[v] \notin {"good", "unset"}
                \/ status[v] = "good" /\ current # "good")
  <2>1. todo = <<n>>
    BY <1>1, <1>2, <1>3, <1>5
  <2> QED BY <1>5, <2>1 DEF n
<1>6. CASE /\ (current = "down" \/ current # status[v]) /\ (status[v] # "unset" \/ current = "down")
           /\ \/ current = "good" /\ status[v] \notin {"good", "unset"}
              \/ status[v] = "good" /\ current # "good"
  <2>1. todo = <<n, k>>
    BY <1>1, <1>2, <1>3, <1>6
  <2> QED BY <1>6, <2>1 DEF n, k
<1> QED BY <1>4, <1>5, <1>6

-----------------------------------------------------------------------------
(* ServiceMonitor: its steps *)

\* The window of results holds the newest, and no more than its size.
LEMMA RecentProperties ==
  ASSUME Monitor!MonitorAssumption, NEW w \in Seq(BOOLEAN), Len(w) <= StatusSize, NEW b \in BOOLEAN
  PROVE  LET new == Monitor!Recent(Append(w, b)) IN
         new \in Seq(BOOLEAN) /\ new # <<>> /\ Len(new) <= StatusSize
<1> DEFINE a == Append(w, b)
<1>1. a \in Seq(BOOLEAN) /\ Len(a) = Len(w) + 1 /\ Len(w) \in Nat /\ StatusSize \in Nat \ {0}
  BY DEF Monitor!MonitorAssumption
<1> HIDE DEF a
<1>2. a # <<>>
  BY <1>1, EmptySeq
<1>3. Tail(a) \in Seq(BOOLEAN) /\ Len(Tail(a)) = Len(w)
  BY <1>1, <1>2, HeadTailProperties
<1>4. CASE Len(a) > StatusSize
  <2>1. Len(w) = StatusSize
    BY <1>1, <1>4
  <2>2. Tail(a) # <<>>
    BY <1>1, <1>3, <2>1, EmptySeq
  <2> QED BY <1>1, <1>3, <1>4, <2>1, <2>2 DEF Monitor!Recent, a
<1>5. CASE ~(Len(a) > StatusSize)
  BY <1>1, <1>2, <1>5 DEF Monitor!Recent, a
<1> QED BY <1>4, <1>5

\* A result makes due what its status asks for.
LEMMA MonitorCompleteStep ==
  ASSUME Monitor!MonitorAssumption, Monitor!MonitorIInv, NEW c \in Conn, Monitor!CompleteResult(c)
  PROVE  Monitor!MonitorIInv'
<1> DEFINE result == Head(outbox[c])
           v == result.service
           window == Monitor!Recent(Append(samples[v], result.successful))
           current == Monitor!StatusOf(window)
           todo == Monitor!NotifyEffect(v, current) \o Monitor!CommandEffect(v, current)
           shared == todo # <<>> /\ \E d \in Conn \ {c} : Monitor!Busy(v, d)
           n == [kind |-> "notify", service |-> v, what |-> current]
           k == [kind |-> "command", service |-> v,
                 what |-> IF current = "good" THEN "recover" ELSE "fail"]
<1>0. Monitor!TypeOK /\ \A u \in Service : Monitor!WorkFits(u)
  BY DEF Monitor!MonitorIInv
<1>1. /\ effects[c] = <<>> /\ outbox[c] # <<>> /\ result # Command
      /\ outbox' = [outbox EXCEPT ![c] = Tail(@)]
      /\ samples' = [samples EXCEPT ![v] = window]
      /\ status' = IF Monitor!RunsEffects(v, current) THEN [status EXCEPT ![v] = current] ELSE status
      /\ effects' = [effects EXCEPT ![c] = todo]
      /\ IF shared THEN /\ told' = [told EXCEPT ![v] = "mixed"]
                        /\ commanded' = [commanded EXCEPT ![v] = "mixed"]
                   ELSE told' = told /\ commanded' = commanded
      /\ UNCHANGED <<live, channel, agent, via>>
  BY DEF Monitor!CompleteResult, Monitor!Idle, Monitor!history
<1>2. /\ result \in Monitor!Result /\ v \in Service /\ result.successful \in BOOLEAN
      /\ Tail(outbox[c]) \in Seq(Monitor!Result \union {Command})
      /\ Len(Tail(outbox[c])) <= ResultCap
  <2>1. outbox[c] \in Seq(Monitor!Result \union {Command}) /\ Len(outbox[c]) <= ResultCap
    BY <1>0 DEF Monitor!TypeOK
  <2>2. /\ result \in Monitor!Result \union {Command} /\ Len(outbox[c]) \in Nat
        /\ Tail(outbox[c]) \in Seq(Monitor!Result \union {Command})
        /\ Len(Tail(outbox[c])) = Len(outbox[c]) - 1
    BY <1>1, <2>1, HeadTailProperties, EmptySeq
  <2>3. result \in Monitor!Result
    BY <1>1, <2>2
  <2>4. Len(Tail(outbox[c])) <= ResultCap
    <3>1. ResultCap \in Nat
      BY DEF Monitor!MonitorAssumption
    <3> QED BY <2>1, <2>2, <3>1
  <2> QED BY <2>2, <2>3, <2>4 DEF Monitor!Result
<1> HIDE DEF result, v
<1>3. window \in Seq(BOOLEAN) /\ window # <<>> /\ Len(window) <= StatusSize
  <2>1. samples[v] \in Seq(BOOLEAN) /\ Len(samples[v]) <= StatusSize
    BY <1>0, <1>2 DEF Monitor!TypeOK
  <2> QED BY <1>2, <2>1, RecentProperties
<1> HIDE DEF window
<1>4. current \in {"good", "low", "down"}
  BY DEF Monitor!StatusOf
<1>5. /\ todo = <<>> /\ current # "down" /\ (status[v] = "unset" \/ status[v] = current)
      \/ /\ todo = <<n>> /\ (status[v] = "unset" \/ (status[v] = "good" <=> current = "good"))
      \/ /\ todo = <<n, k>> /\ status[v] # "unset"
  <2> HIDE DEF current
  <2> QED BY <1>2, <1>4, TodoCases
<1>6. current = Monitor!StatusOf(window)
  OBVIOUS
<1> HIDE DEF current
<1>7. status' = [status EXCEPT ![v] = current]
  <2>1. status = [status EXCEPT ![v] = status[v]]
    BY <1>0 DEF Monitor!TypeOK
  <2> QED BY <1>1, <2>1 DEF Monitor!RunsEffects
<1>8. n \in Monitor!Effect /\ k \in Monitor!Effect
  BY <1>2, <1>4 DEF Monitor!Effect, Monitor!Statuses
<1>9. /\ todo \in Seq(Monitor!Effect)
      /\ {todo[i] : i \in 1..Len(todo)} = IF todo = <<>> THEN {} ELSE IF todo = <<n>> THEN {n} ELSE {n, k}
  <2> HIDE DEF n, k, todo
  <2>1. CASE todo = <<>>
    BY <2>1, EmptySeq
  <2>2. CASE todo = <<n>>
    BY <1>8, <2>2
  <2>3. CASE todo = <<n, k>>
    BY <1>8, <2>3
  <2> QED BY <1>5, <2>1, <2>2, <2>3
<1> HIDE DEF todo
<1>10. Monitor!TypeOK'
  <2>1. outbox' \in [Conn -> Seq(Monitor!Result \union {Command})] /\ \A d \in Conn : Len(outbox'[d]) <= ResultCap
    BY <1>0, <1>1, <1>2 DEF Monitor!TypeOK
  <2>2. samples' \in [Service -> Seq(BOOLEAN)] /\ \A u \in Service : Len(samples'[u]) <= StatusSize
    BY <1>0, <1>1, <1>2, <1>3 DEF Monitor!TypeOK
  <2>3. status' \in [Service -> Monitor!Statuses]
    BY <1>0, <1>4, <1>7 DEF Monitor!TypeOK, Monitor!Statuses
  <2>4. effects' \in [Conn -> Seq(Monitor!Effect)]
    BY <1>0, <1>1, <1>9 DEF Monitor!TypeOK
  <2>5. /\ told' \in [Service -> Monitor!Statuses \union {"nothing", "mixed"}]
        /\ commanded' \in [Service -> {"nothing", "fail", "recover", "mixed"}]
    BY <1>0, <1>1 DEF Monitor!TypeOK
  <2> QED BY <1>0, <1>1, <2>1, <2>2, <2>3, <2>4, <2>5 DEF Monitor!TypeOK
<1>11. Monitor!StatusIsOfSamples'
  <2> SUFFICES ASSUME NEW u \in Service
               PROVE  status'[u] = IF samples'[u] = <<>> THEN "unset" ELSE Monitor!StatusOf(samples'[u])
    BY DEF Monitor!StatusIsOfSamples, Monitor!StatusOf
  <2>1. CASE u = v
    BY <1>0, <1>1, <1>2, <1>3, <1>6, <1>7, <2>1 DEF Monitor!TypeOK
  <2>2. CASE u # v
    <3>1. status'[u] = status[u] /\ samples'[u] = samples[u]
      BY <1>0, <1>1, <1>7, <2>2 DEF Monitor!TypeOK
    <3> QED BY <3>1 DEF Monitor!MonitorIInv, Monitor!StatusIsOfSamples
  <2> QED BY <2>1, <2>2
<1>12. /\ Monitor!Due(c) = {}
       /\ \A d \in Conn : d # c => Monitor!Due(d)' = Monitor!Due(d)
       /\ Monitor!Due(c)' = IF todo = <<>> THEN {} ELSE IF todo = <<n>> THEN {n} ELSE {n, k}
  <2>1. Monitor!Due(c) = {}
    BY <1>0, <1>1, DueProperties
  <2>2. effects'[c] = todo /\ \A d \in Conn : d # c => effects'[d] = effects[d]
    BY <1>0, <1>1 DEF Monitor!TypeOK
  <2> QED BY <1>9, <2>1, <2>2 DEF Monitor!Due
<1>13. status'[v] = current /\ n.service = v /\ n.kind = "notify" /\ n.what = current
       /\ k.service = v /\ k.kind = "command" /\ k.what = (IF current = "good" THEN "recover" ELSE "fail")
  BY <1>0, <1>2, <1>7 DEF Monitor!TypeOK
<1>15. todo = <<n, k>> => todo # <<>> /\ todo # <<n>>
  <2>1. Len(<<n, k>>) = 2 /\ Len(<<n>>) = 1 /\ Len(<<>>) = 0
    BY EmptySeq
  <2> QED BY <2>1
<1>16. <<n>> # <<>>
  BY EmptySeq
<1> HIDE DEF n, k
<1>14. ASSUME NEW u \in Service PROVE Monitor!WorkFits(u)'
  <2>0. Monitor!WorkFits(u)
    BY <1>0
  <2>1. CASE u # v
    <3>1. status'[u] = status[u] /\ told'[u] = told[u] /\ commanded'[u] = commanded[u]
      BY <1>0, <1>1, <1>7, <2>1 DEF Monitor!TypeOK
    <3>2. \A d \in Conn : \A e : e.service = u => (e \in Monitor!Due(d)' <=> e \in Monitor!Due(d))
      BY <1>12, <1>13, <2>1
    <3>3. \A d \in Conn : Monitor!Busy(u, d)' <=> Monitor!Busy(u, d)
      BY <3>2 DEF Monitor!Busy
    <3>4. \A kind : Monitor!IsDue(u, kind)' <=> Monitor!IsDue(u, kind)
      BY <3>2 DEF Monitor!IsDue
    <3>5. \A e : e.service = u => (Monitor!Fits(e)' <=> Monitor!Fits(e))
      BY <3>1 DEF Monitor!Fits, Monitor!CommandOf
    <3>6. Monitor!CommandOf(u)' = Monitor!CommandOf(u)
      BY <3>1 DEF Monitor!CommandOf
    <3>7. told'[u] # "mixed" => \A d \in Conn : \A e \in Monitor!Due(d)' : e.service = u => Monitor!Fits(e)'
      BY <2>0, <3>1, <3>2, <3>5 DEF Monitor!WorkFits
    <3> QED BY <2>0, <3>1, <3>3, <3>4, <3>6, <3>7 DEF Monitor!WorkFits
  <2>2. CASE u = v /\ shared
    <3>1. told'[u] = "mixed" /\ commanded'[u] = "mixed"
      BY <1>0, <1>1, <2>2 DEF Monitor!TypeOK
    <3>2. status'[u] # "unset"
      BY <1>4, <1>13, <2>2
    <3> QED BY <3>1, <3>2 DEF Monitor!WorkFits
  <2>3. CASE u = v /\ ~shared
    <3>1. told' = told /\ commanded' = commanded /\ status'[u] = current /\ current # "unset"
      BY <1>1, <1>4, <1>13, <2>3
    <3>2. CASE told[u] = "mixed"
      BY <2>0, <3>1, <3>2 DEF Monitor!WorkFits
    <3>3. CASE told[u] # "mixed"
      <4>1. CASE todo = <<>>
        <5>1. \A d \in Conn : Monitor!Due(d)' = Monitor!Due(d)
          BY <1>12, <4>1
        <5>2. CASE status[v] = current
          BY <2>0, <2>3, <3>1, <3>3, <5>1, <5>2
             DEF Monitor!WorkFits, Monitor!Busy, Monitor!IsDue, Monitor!Fits, Monitor!CommandOf
        <5>3. CASE status[v] = "unset" /\ current # "down"
          <6>1. told[u] = "nothing" /\ commanded[u] = "nothing" /\ \A d \in Conn : ~Monitor!Busy(u, d)
            BY <2>0, <2>3, <5>3 DEF Monitor!WorkFits
          <6>2. \A d \in Conn : ~Monitor!Busy(u, d)'
            BY <5>1, <6>1 DEF Monitor!Busy
          <6>3. \A d \in Conn : \A e \in Monitor!Due(d)' : e.service # u
            BY <6>2 DEF Monitor!Busy
          <6> QED BY <3>1, <5>3, <6>1, <6>2, <6>3 DEF Monitor!WorkFits
        <5> QED BY <1>5, <1>15, <1>16, <4>1, <5>2, <5>3
      <4>2. CASE todo # <<>>
        <5>0. PICK m, o : m = n /\ o = k
          OBVIOUS
        <5>1. \A d \in Conn : d # c => ~Monitor!Busy(u, d)
          BY <2>3, <4>2
        <5>2. \A d \in Conn : d # c => ~Monitor!Busy(u, d)'
          BY <1>12, <5>1 DEF Monitor!Busy
        <5>3. /\ m \in Monitor!Due(c)' /\ Monitor!Due(c)' \subseteq {m, o}
              /\ o \in Monitor!Due(c)' \/ status[v] = "unset" \/ (status[v] = "good" <=> current = "good")
          BY <1>5, <1>12, <1>15, <1>16, <4>2, <5>0
        <5>4. Monitor!Fits(m)' /\ Monitor!Fits(o)'
              /\ m.service = u /\ m.kind = "notify" /\ o.service = u /\ o.kind = "command"
          BY <1>13, <2>3, <5>0 DEF Monitor!Fits, Monitor!CommandOf
        <5>5. \A d \in Conn : \A e \in Monitor!Due(d)' : e.service = u => Monitor!Fits(e)'
          <6> SUFFICES ASSUME NEW d \in Conn, NEW e \in Monitor!Due(d)', e.service = u
                       PROVE  Monitor!Fits(e)'
            OBVIOUS
          <6>1. d = c
            BY <5>2 DEF Monitor!Busy
          <6> QED BY <5>3, <5>4, <6>1
        <5>6. \A d, e \in Conn : Monitor!Busy(u, d)' /\ Monitor!Busy(u, e)' => d = e
          BY <5>2
        <5>7. Monitor!IsDue(u, "notify")'
          BY <5>3, <5>4 DEF Monitor!IsDue
        <5>8. commanded'[u] \in {"nothing", Monitor!CommandOf(u)'} \/ Monitor!IsDue(u, "command")'
          <6>1. CASE o \in Monitor!Due(c)'
            BY <5>4, <6>1 DEF Monitor!IsDue
          <6>2. CASE status[v] = "unset"
            BY <2>0, <2>3, <3>1, <6>2 DEF Monitor!WorkFits
          <6>3. CASE o \notin Monitor!Due(c)' /\ (status[v] = "good" <=> current = "good") /\ status[v] # "unset"
            <7>1. Monitor!CommandOf(u)' = Monitor!CommandOf(u)
              BY <2>3, <3>1, <6>3 DEF Monitor!CommandOf
            <7>2. commanded[u] \in {"nothing", Monitor!CommandOf(u)} \/ Monitor!IsDue(u, "command")
              BY <2>0, <3>3 DEF Monitor!WorkFits
            <7>3. ~Monitor!IsDue(u, "command")
              BY <1>12, <2>3, <5>1 DEF Monitor!IsDue, Monitor!Busy
            <7> QED BY <3>1, <7>1, <7>2, <7>3
          <6> QED BY <5>3, <6>1, <6>2, <6>3
        <5>9. told[u] = "mixed" <=> commanded[u] = "mixed"
          BY <2>0 DEF Monitor!WorkFits
        <5> QED BY <3>1, <5>5, <5>6, <5>7, <5>8, <5>9 DEF Monitor!WorkFits
      <4> QED BY <4>1, <4>2
    <3> QED BY <3>2, <3>3
  <2> QED BY <2>1, <2>2, <2>3
<1> QED BY <1>10, <1>11, <1>14 DEF Monitor!MonitorIInv

\* The reader works an effect off: what it tells or commands fits.
LEMMA EffectDone ==
  ASSUME Monitor!MonitorIInv, Monitor!TypeOK', NEW c \in Conn, effects[c] # <<>>,
         Monitor!NextEffect(c), UNCHANGED <<samples, status>>,
         \/ /\ Head(effects[c]).kind = "notify"
            /\ told' = Monitor!Latest(told, Head(effects[c])) /\ commanded' = commanded
         \/ /\ Head(effects[c]).kind = "command"
            /\ commanded' = Monitor!Latest(commanded, Head(effects[c])) /\ told' = told
  PROVE  Monitor!MonitorIInv'
<1>0. Monitor!TypeOK /\ Monitor!StatusIsOfSamples /\ \A u \in Service : Monitor!WorkFits(u)
  BY DEF Monitor!MonitorIInv
<1>1. PICK m : m = Head(effects[c])
  OBVIOUS
<1>2. effects[c] \in Seq(Monitor!Effect)
  BY <1>0 DEF Monitor!TypeOK
<1>3. Monitor!Due(c) = {m} \union Monitor!Due(c)'
  <2>1. effects'[c] = Tail(effects[c])
    BY <1>0 DEF Monitor!NextEffect, Monitor!TypeOK
  <2> DEFINE s == effects[c]
             t == Tail(effects[c])
  <2>2. {s[i] : i \in 1..Len(s)} = {Head(s)} \union {t[i] : i \in 1..Len(t)}
    BY <1>2, HeadAndTail
  <2>3. Monitor!Due(c) = {s[i] : i \in 1..Len(s)}
    BY DEF Monitor!Due
  <2>4. Monitor!Due(c)' = {t[i] : i \in 1..Len(t)}
    BY <2>1 DEF Monitor!Due
  <2> QED BY <1>1, <2>2, <2>3, <2>4
<1>4. \A d \in Conn : d # c => Monitor!Due(d)' = Monitor!Due(d)
  <2>1. \A d \in Conn : d # c => effects'[d] = effects[d]
    BY <1>0 DEF Monitor!NextEffect, Monitor!TypeOK
  <2> QED BY <2>1 DEF Monitor!Due
<1>5. m \in Monitor!Effect /\ m.service \in Service /\ m.what # "mixed"
  BY <1>1, <1>2, HeadAndTail DEF Monitor!Effect, Monitor!Statuses
<1>6. Monitor!StatusIsOfSamples'
  BY <1>0 DEF Monitor!StatusIsOfSamples, Monitor!StatusOf
<1>7. ASSUME NEW u \in Service PROVE Monitor!WorkFits(u)'
  <2>0. Monitor!WorkFits(u) /\ status'[u] = status[u] /\ Monitor!CommandOf(u)' = Monitor!CommandOf(u)
    BY <1>0 DEF Monitor!CommandOf
  <2>1. \A e : Monitor!Fits(e)' <=> Monitor!Fits(e)
    BY DEF Monitor!Fits, Monitor!CommandOf
  <2>2. \A d \in Conn : Monitor!Due(d)' \subseteq Monitor!Due(d)
    BY <1>3, <1>4
  <2>3. \A d \in Conn : Monitor!Busy(u, d)' => Monitor!Busy(u, d)
    BY <2>2 DEF Monitor!Busy
  <2>4. told[u] # "mixed" =>
          /\ \A d, e \in Conn : Monitor!Busy(u, d)' /\ Monitor!Busy(u, e)' => d = e
          /\ \A d \in Conn : \A e \in Monitor!Due(d)' : e.service = u => Monitor!Fits(e)'
    BY <2>0, <2>1, <2>2, <2>3 DEF Monitor!WorkFits
  <2>5. \A kind : m.service # u \/ m.kind # kind => (Monitor!IsDue(u, kind)' <=> Monitor!IsDue(u, kind))
    BY <1>3, <1>4 DEF Monitor!IsDue
  <2>6. CASE m.service # u
    <3>1. told'[u] = told[u] /\ commanded'[u] = commanded[u]
      BY <1>0, <1>1, <2>6 DEF Monitor!Latest, Monitor!TypeOK
    <3> QED BY <2>0, <2>3, <2>4, <2>5, <2>6, <3>1 DEF Monitor!WorkFits
  <2>7. CASE m.service = u
    <3>1. Monitor!Busy(u, c) /\ status[u] # "unset"
      BY <1>3, <2>0, <2>7 DEF Monitor!Busy, Monitor!WorkFits
    <3>2. told[u] # "mixed" => Monitor!Fits(m)
      BY <1>3, <2>0, <2>7 DEF Monitor!WorkFits
    <3>3. CASE m.kind = "notify" /\ told' = Monitor!Latest(told, m) /\ commanded' = commanded
      <4>1. told'[u] = IF told[u] = "mixed" THEN "mixed" ELSE m.what
        BY <1>0, <2>7, <3>3 DEF Monitor!Latest, Monitor!TypeOK
      <4>2. told[u] # "mixed" => told'[u] = status'[u]
        BY <2>0, <2>7, <3>2, <3>3, <4>1 DEF Monitor!Fits
      <4>3. Monitor!IsDue(u, "command")' <=> Monitor!IsDue(u, "command")
        BY <2>5, <3>3
      <4> QED BY <1>5, <2>0, <2>4, <3>1, <3>3, <4>1, <4>2, <4>3 DEF Monitor!WorkFits
    <3>4. CASE m.kind = "command" /\ commanded' = Monitor!Latest(commanded, m) /\ told' = told
      <4>1. commanded'[u] = IF commanded[u] = "mixed" THEN "mixed" ELSE m.what
        BY <1>0, <2>7, <3>4 DEF Monitor!Latest, Monitor!TypeOK
      <4>2. told[u] # "mixed" => commanded'[u] = Monitor!CommandOf(u)'
        BY <2>0, <2>7, <3>2, <3>4, <4>1 DEF Monitor!Fits, Monitor!WorkFits
      <4>3. Monitor!IsDue(u, "notify")' <=> Monitor!IsDue(u, "notify")
        BY <2>5, <3>4
      <4> QED BY <1>5, <2>0, <2>4, <3>1, <3>4, <4>1, <4>2, <4>3 DEF Monitor!WorkFits
    <3> QED BY <1>1, <3>3, <3>4
  <2> QED BY <2>6, <2>7
<1> QED BY <1>0, <1>6, <1>7 DEF Monitor!MonitorIInv

\* What a reader notifies and commands is what was due.
LEMMA MonitorEffectStep ==
  ASSUME Monitor!MonitorAssumption, Monitor!MonitorIInv, NEW c \in Conn,
         Monitor!Notify(c) \/ Monitor!CommandSent(c) \/ Monitor!CommandStored(c)
  PROVE  Monitor!MonitorIInv'
<1>0. Monitor!TypeOK
  BY DEF Monitor!MonitorIInv
<1>1. effects[c] # <<>> /\ Monitor!NextEffect(c) /\ UNCHANGED <<live, agent, outbox, samples, status>>
  BY DEF Monitor!Notify, Monitor!CommandSent, Monitor!CommandStored, Monitor!Dispatched,
         Monitor!Sending, Monitor!Idle, Monitor!agentVars
<1>2. /\ effects[c] \in Seq(Monitor!Effect) /\ Head(effects[c]) \in Monitor!Effect
      /\ Tail(effects[c]) \in Seq(Monitor!Effect)
  BY <1>0, <1>1, HeadAndTail DEF Monitor!TypeOK
<1>3. effects' \in [Conn -> Seq(Monitor!Effect)]
  BY <1>0, <1>1, <1>2 DEF Monitor!NextEffect, Monitor!TypeOK
<1>4. CASE Monitor!Notify(c)
  <2>1. /\ Head(effects[c]).kind = "notify" /\ Head(effects[c]).what \in Monitor!Statuses
        /\ told' = Monitor!Latest(told, Head(effects[c]))
        /\ UNCHANGED <<channel, via, commanded>>
    BY <1>2, <1>4 DEF Monitor!Notify, Monitor!Sending, Monitor!Effect, Monitor!Idle, Monitor!agentVars
  <2>2. told' \in [Service -> Monitor!Statuses \union {"nothing", "mixed"}]
    BY <1>0, <2>1 DEF Monitor!Latest, Monitor!TypeOK
  <2>3. Monitor!TypeOK'
    BY <1>0, <1>1, <1>3, <2>1, <2>2 DEF Monitor!TypeOK
  <2> QED BY <1>1, <2>1, <2>3, EffectDone
<1>5. CASE Monitor!CommandSent(c) \/ Monitor!CommandStored(c)
  <2>1. /\ Head(effects[c]).kind = "command" /\ Head(effects[c]).what \in {"fail", "recover"}
        /\ commanded' = Monitor!Latest(commanded, Head(effects[c]))
        /\ via' = [via EXCEPT ![c] = "unknown"] /\ told' = told
    BY <1>2, <1>5 DEF Monitor!CommandSent, Monitor!CommandStored, Monitor!Dispatched,
                      Monitor!Sending, Monitor!Effect
  <2>2. commanded' \in [Service -> {"nothing", "fail", "recover", "mixed"}]
    BY <1>0, <2>1 DEF Monitor!Latest, Monitor!TypeOK
  <2>3. via' \in [Conn -> Conn \union {None, "unknown"}]
    BY <1>0, <2>1 DEF Monitor!TypeOK
  <2>4. channel' \in Seq(Service \union {Command}) /\ Len(channel') <= TaskCap
    <3>1. channel \in Seq(Service \union {Command}) /\ Len(channel) <= TaskCap
      BY <1>0 DEF Monitor!TypeOK
    <3>2. CASE channel' = channel
      BY <3>1, <3>2
    <3>3. CASE channel' = Append(channel, Command) /\ Len(channel) < TaskCap
      <4>1. Append(channel, Command) \in Seq(Service \union {Command})
            /\ Len(Append(channel, Command)) = Len(channel) + 1 /\ Len(channel) \in Nat
        BY <3>1
      <4>2. TaskCap \in Nat
        BY DEF Monitor!MonitorAssumption
      <4> QED BY <3>3, <4>1, <4>2
    <3> QED BY <1>5, <3>2, <3>3 DEF Monitor!CommandSent, Monitor!CommandStored
  <2>5. Monitor!TypeOK'
    BY <1>0, <1>1, <1>3, <2>1, <2>2, <2>3, <2>4 DEF Monitor!TypeOK
  <2> QED BY <1>1, <2>1, <2>5, EffectDone
<1> QED BY <1>4, <1>5

\* The steps of the agent, and those of a reader that change only where things are.
LEMMA MonitorRestStep ==
  ASSUME Monitor!MonitorAssumption, Monitor!MonitorIInv,
         \/ \E v \in Service : Monitor!ProbeSent(v)
         \/ \E c \in Conn : Monitor!Connect(c) \/ Monitor!SkipResult(c) \/ Monitor!LookupSender(c)
         \/ Monitor!Disconnect \/ Monitor!AgentTakes \/ Monitor!AgentSends
  PROVE  Monitor!MonitorIInv'
<1>0. /\ Monitor!TypeOK
      /\ UNCHANGED <<effects, samples, status, told, commanded>>
  BY DEF Monitor!MonitorIInv, Monitor!ProbeSent, Monitor!Connect, Monitor!SkipResult,
         Monitor!LookupSender, Monitor!Disconnect, Monitor!AgentTakes, Monitor!AgentSends,
         Monitor!readVars, Monitor!history, Monitor!agentVars
<1>1. /\ channel \in Seq(Service \union {Command}) /\ Len(channel) <= TaskCap
      /\ Len(channel) \in Nat /\ TaskCap \in Nat \ {0} /\ ResultCap \in Nat \ {0}
      /\ outbox \in [Conn -> Seq(Monitor!Result \union {Command})]
      /\ \A c \in Conn : Len(outbox[c]) <= ResultCap /\ Len(outbox[c]) \in Nat
  BY <1>0 DEF Monitor!TypeOK, Monitor!MonitorAssumption
<1>2. \A S : <<>> \in Seq(S) /\ Len(<<>>) = 0
  BY EmptySeq
<1>3. Monitor!TypeOK'
  <2>1. CASE \E v \in Service : Monitor!ProbeSent(v)
    <3>1. PICK v \in Service : Monitor!ProbeSent(v)
      BY <2>1
    <3>2. channel' = Append(channel, v) /\ Len(channel) < TaskCap
          /\ UNCHANGED <<live, agent, outbox, via>>
      BY <3>1 DEF Monitor!ProbeSent, Monitor!readVars
    <3>3. channel' \in Seq(Service \union {Command}) /\ Len(channel') = Len(channel) + 1
      BY <1>1, <3>2
    <3>4. Len(channel') <= TaskCap
      BY <1>1, <3>2, <3>3
    <3> QED BY <1>0, <3>2, <3>3, <3>4 DEF Monitor!TypeOK
  <2>2. CASE \E c \in Conn : Monitor!Connect(c)
    BY <1>0, <2>2 DEF Monitor!TypeOK, Monitor!Connect, Monitor!readVars
  <2>3. CASE \E c \in Conn : Monitor!SkipResult(c)
    <3>1. PICK c \in Conn : Monitor!SkipResult(c)
      BY <2>3
    <3>2. outbox[c] # <<>> /\ outbox' = [outbox EXCEPT ![c] = Tail(@)]
          /\ UNCHANGED <<live, channel, agent, via>>
      BY <3>1 DEF Monitor!SkipResult, Monitor!readVars
    <3>3. Tail(outbox[c]) \in Seq(Monitor!Result \union {Command})
          /\ Len(Tail(outbox[c])) = Len(outbox[c]) - 1
      BY <1>1, <3>2, HeadTailProperties
    <3>4. Len(Tail(outbox[c])) <= ResultCap
      BY <1>1, <3>3
    <3>5. outbox' \in [Conn -> Seq(Monitor!Result \union {Command})] /\ \A d \in Conn : Len(outbox'[d]) <= ResultCap
      BY <1>1, <3>2, <3>3, <3>4
    <3> QED BY <1>0, <3>2, <3>5 DEF Monitor!TypeOK
  <2>4. CASE \E c \in Conn : Monitor!LookupSender(c)
    <3>1. PICK c \in Conn : Monitor!LookupSender(c)
      BY <2>4
    <3>2. via' = [via EXCEPT ![c] = live] /\ UNCHANGED <<live, channel, agent, outbox>>
      BY <3>1 DEF Monitor!LookupSender, Monitor!agentVars
    <3>3. via' \in [Conn -> Conn \union {None, "unknown"}]
      BY <1>0, <3>2 DEF Monitor!TypeOK
    <3> QED BY <1>0, <3>2, <3>3 DEF Monitor!TypeOK
  <2>5. CASE Monitor!Disconnect
    <3>1. live \in Conn /\ live' = None /\ channel' = <<>> /\ agent' = None /\ via' = via
      BY <1>0, <2>5 DEF Monitor!Disconnect, Monitor!TypeOK, Monitor!readVars
    <3>2. PICK n \in 0..Len(outbox[live]) : outbox' = [outbox EXCEPT ![live] = SubSeq(@, 1, n)]
      BY <2>5 DEF Monitor!Disconnect
    <3>3. SubSeq(outbox[live], 1, n) \in Seq(Monitor!Result \union {Command})
          /\ Len(SubSeq(outbox[live], 1, n)) = n
      <4>1. outbox[live] \in Seq(Monitor!Result \union {Command}) /\ Len(outbox[live]) \in Nat /\ n \in Nat
            /\ n <= Len(outbox[live])
        BY <1>1, <3>1, <3>2
      <4> QED BY <4>1, SubSeqProperties
    <3>4. n <= ResultCap
      BY <1>1, <3>1, <3>2
    <3>5. outbox' \in [Conn -> Seq(Monitor!Result \union {Command})] /\ \A d \in Conn : Len(outbox'[d]) <= ResultCap
      BY <1>1, <3>1, <3>2, <3>3, <3>4
    <3>6. Len(channel') <= TaskCap
      BY <1>1, <1>2, <3>1
    <3> QED BY <1>0, <1>2, <3>1, <3>5, <3>6 DEF Monitor!TypeOK
  <2>6. CASE Monitor!AgentTakes
    <3>1. channel # <<>> /\ channel' = Tail(channel) /\ UNCHANGED <<live, outbox, via>>
      BY <2>6 DEF Monitor!AgentTakes, Monitor!readVars
    <3>2. channel' \in Seq(Service \union {Command}) /\ Len(channel') = Len(channel) - 1
          /\ Head(channel) \in Service \union {Command}
      BY <1>1, <3>1, HeadTailProperties
    <3>3. Len(channel') <= TaskCap
      BY <1>1, <3>2
    <3>4. agent' \in Monitor!Result \union {Command, None}
      <4>1. CASE Head(channel) = Command
        BY <2>6, <4>1 DEF Monitor!AgentTakes
      <4>2. CASE Head(channel) # Command
        <5>1. PICK b \in BOOLEAN : agent' = [service |-> Head(channel), successful |-> b]
          BY <2>6, <4>2 DEF Monitor!AgentTakes
        <5> QED BY <3>2, <4>2, <5>1 DEF Monitor!Result
      <4> QED BY <4>1, <4>2
    <3> QED BY <1>0, <3>1, <3>2, <3>3, <3>4 DEF Monitor!TypeOK
  <2>7. CASE Monitor!AgentSends
    <3>1. /\ agent # None /\ Len(outbox[live]) < ResultCap /\ agent' = None
          /\ outbox' = [outbox EXCEPT ![live] = Append(@, agent)]
          /\ UNCHANGED <<live, channel, via>>
      BY <2>7 DEF Monitor!AgentSends, Monitor!readVars
    <3>2. agent \in Monitor!Result \union {Command}
      BY <1>0, <3>1 DEF Monitor!TypeOK
    <3>3. \A c \in Conn : /\ Append(outbox[c], agent) \in Seq(Monitor!Result \union {Command})
                          /\ Len(Append(outbox[c], agent)) = Len(outbox[c]) + 1
      BY <1>1, <3>2
    <3>4. ASSUME NEW c \in Conn
          PROVE  outbox'[c] \in Seq(Monitor!Result \union {Command}) /\ Len(outbox'[c]) <= ResultCap
      <4>1. CASE c = live
        <5>1. Len(outbox[c]) + 1 <= ResultCap
          BY <1>1, <3>1, <4>1
        <5> QED BY <1>1, <3>1, <3>3, <4>1, <5>1
      <4>2. CASE c # live
        BY <1>1, <3>1, <4>2
      <4> QED BY <4>1, <4>2
    <3>5. outbox' \in [Conn -> Seq(Monitor!Result \union {Command})]
      BY <1>1, <3>1, <3>4
    <3> QED BY <1>0, <3>1, <3>4, <3>5 DEF Monitor!TypeOK
  <2> QED BY <2>1, <2>2, <2>3, <2>4, <2>5, <2>6, <2>7
<1> QED BY <1>0, <1>3, WorkRests

\* A restart forgets samples, statuses and what was due.
LEMMA MonitorRestartStep ==
  ASSUME Monitor!MonitorAssumption, Monitor!Restart
  PROVE  Monitor!MonitorIInv'
<1>1. Len(<<>>) = 0 /\ \A S : <<>> \in Seq(S)
  BY EmptySeq
<1>2. Monitor!TypeOK'
  BY <1>1 DEF Monitor!Restart, Monitor!TypeOK, Monitor!MonitorAssumption, Monitor!Statuses
<1>3. Monitor!StatusIsOfSamples'
  BY DEF Monitor!Restart, Monitor!StatusIsOfSamples
<1>4. \A c \in Conn : Monitor!Due(c)' = {}
  <2>1. \A c \in Conn : effects'[c] = <<>>
    BY DEF Monitor!Restart
  <2> QED BY <1>1, <2>1 DEF Monitor!Due
<1>5. \A v \in Service : Monitor!WorkFits(v)'
  BY <1>4 DEF Monitor!Restart, Monitor!WorkFits, Monitor!Busy
<1> QED BY <1>2, <1>3, <1>5 DEF Monitor!MonitorIInv

\* Every step of readers, the agent and the scheduler keeps the invariant.
LEMMA MonitorStep ==
  Monitor!MonitorAssumption /\ Monitor!MonitorIInv /\ (Monitor!Next \/ UNCHANGED monitorVars)
    => Monitor!MonitorIInv'
<1> SUFFICES ASSUME Monitor!MonitorAssumption, Monitor!MonitorIInv, Monitor!Next \/ UNCHANGED monitorVars
             PROVE  Monitor!MonitorIInv'
  OBVIOUS
<1>1. CASE UNCHANGED monitorVars
  <2>1. Monitor!TypeOK'
    BY <1>1 DEF monitorVars, Monitor!MonitorIInv, Monitor!TypeOK
  <2> QED BY <1>1, <2>1, WorkRests DEF monitorVars
<1>2. CASE Monitor!Restart
  BY <1>2, MonitorRestartStep
<1>3. CASE \E c \in Conn : Monitor!CompleteResult(c)
  BY <1>3, MonitorCompleteStep
<1>4. CASE \E c \in Conn : Monitor!Notify(c) \/ Monitor!CommandSent(c) \/ Monitor!CommandStored(c)
  BY <1>4, MonitorEffectStep
<1>5. CASE \/ \E v \in Service : Monitor!ProbeSent(v)
           \/ \E c \in Conn : Monitor!Connect(c) \/ Monitor!SkipResult(c) \/ Monitor!LookupSender(c)
           \/ Monitor!Disconnect \/ Monitor!AgentTakes \/ Monitor!AgentSends
  BY <1>5, MonitorRestStep
<1> QED BY <1>1, <1>2, <1>3, <1>4, <1>5 DEF Monitor!Next

\* Once nothing is due, what was told and commanded is of the status, and so of the samples.
LEMMA SettledFits == Monitor!MonitorIInv => Monitor!EffectsFollowStatus
<1> SUFFICES ASSUME Monitor!MonitorIInv, NEW v \in Service, Monitor!Settled(v)
             PROVE  /\ told[v] \in Monitor!Statuses => told[v] = Monitor!StatusOf(samples[v])
                    /\ status[v] = "down" => told[v] \in {"down", "mixed"}
                    /\ commanded[v] = "fail" => Monitor!StatusOf(samples[v]) \in {"low", "down"}
                    /\ commanded[v] = "recover" => Monitor!StatusOf(samples[v]) = "good"
  BY DEF Monitor!EffectsFollowStatus, Monitor!StatusIsTold, Monitor!CommandsFollowStatus
<1>1. Monitor!WorkFits(v) /\ Monitor!TypeOK
      /\ status[v] = IF samples[v] = <<>> THEN "unset" ELSE Monitor!StatusOf(samples[v])
  BY DEF Monitor!MonitorIInv, Monitor!StatusIsOfSamples
<1>2. Monitor!StatusOf(samples[v]) \in {"good", "low", "down"}
  BY DEF Monitor!StatusOf
<1>3. ~Monitor!IsDue(v, "notify") /\ ~Monitor!IsDue(v, "command")
  BY DEF Monitor!Settled, Monitor!Busy, Monitor!IsDue
<1>4. /\ told[v] # "mixed" => (told[v] = "nothing" /\ status[v] # "down") \/ told[v] = status[v]
      /\ commanded[v] \in {"nothing", "mixed", Monitor!CommandOf(v)}
      /\ status[v] = "unset" => told[v] = "nothing" /\ commanded[v] = "nothing"
  BY <1>1, <1>3 DEF Monitor!WorkFits
<1>5. Monitor!CommandOf(v) = IF status[v] = "good" THEN "recover" ELSE "fail"
  BY DEF Monitor!CommandOf
<1> HIDE DEF Monitor!StatusOf
<1> QED BY <1>1, <1>2, <1>4, <1>5 DEF Monitor!Statuses

-----------------------------------------------------------------------------
(* The two of them *)

\* The calls and their waiters, and the streams, windows and statuses of the monitor, are what
\* they are said to be: for each of the two its inductive invariant.
THEOREM ResultsAreTyped == ResultsSpec => []ResultsTypeOK
<1>0. RpcAssumption /\ Monitor!MonitorAssumption
  BY ResultsAssumption
<1> DEFINE P == scene \in {"rpc", "monitor"} /\ RpcIInv /\ Monitor!MonitorIInv
<1>1. ResultsInit => P
  BY <1>0, RpcInit, MonitorInit DEF ResultsInit
<1>2. P /\ [ResultsNext]_<<scene, vars, monitorVars>> => P'
  <2> SUFFICES ASSUME P, [ResultsNext]_<<scene, vars, monitorVars>> PROVE P'
    OBVIOUS
  <2>1. [Next]_vars /\ (Monitor!Next \/ UNCHANGED monitorVars) /\ scene' = scene
    BY DEF ResultsNext
  <2> QED BY <1>0, <2>1, RpcStep, MonitorStep
<1>3. P => ResultsTypeOK
  BY DEF ResultsTypeOK
<1> HIDE DEF P
<1> QED BY <1>1, <1>2, <1>3, PTL DEF ResultsSpec

\* Once the readers are through with a service, the status notified last is the one its last
\* results make, a service that is down was notified, and the commands dispatched last are
\* those of the status, whatever streams ended meanwhile.  Services for which two readers
\* worked at once are left out, until a restart.
THEOREM WorkFollowsStatus == ResultsSpec => []EffectsFollowStatus
<1>1. ResultsTypeOK => EffectsFollowStatus
  BY SettledFits DEF ResultsTypeOK, EffectsFollowStatus
<1> QED BY <1>1, ResultsAreTyped, PTL
=============================================================================
