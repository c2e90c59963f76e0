------------------------------ MODULE ConfigRpc ------------------------------
(***************************************************************************)
(* request_config and apply_config_and_wait: calls that send a task to an  *)
(* agent and wait for its result.                                          *)
(*                                                                         *)
(* The waiting side leaves the sending half of a oneshot in a map under    *)
(* the id of its task; complete_task_result takes the half found under the *)
(* id of a result.  Ids come from a counter that starts again at 1 with    *)
(* the process, while ApplyConfig tasks may wait in the pending table.     *)
(*                                                                         *)
(* The tasks travel as TaskDelivery says, which TaskDispatch implements.   *)
(***************************************************************************)
EXTENDS TaskDelivery, FiniteSets

CONSTANTS
  MaxBoot,  \* bound: processes
  MaxCalls  \* bound: calls made

\* Task: one element per call.  Persistable: the ApplyConfig calls, the others
\* are ReportConfig calls, which are never stored.

RpcAssumption ==
  /\ Persistable \subseteq Task /\ None \notin Task \union Server
  /\ MaxBoot \in Nat \ {0}

VARIABLES
  rpc,           \* call -> where it stands
  server_id,     \* call -> its server
  task_id,       \* call -> the id of its task, 0 before
  next_task_id,  \* the counter, in memory
  waiters,       \* config_waiters and apply_config_waiters, told apart by call
  oneshot,       \* call -> the call whose task produced the value it was sent
  results,       \* calls whose result is on its way back
  boot,          \* history: call -> the process that made it; bounded by MaxBoot
  now            \* history: the current process

rpcVars == <<rpc, server_id, task_id, next_task_id, waiters, oneshot, results, boot, now>>
vars == <<dvars, rpcVars>>

RpcState  == {"idle", "sending", "unsent", "waiting", "expired",
              "offline", "answered", "timeout", "cancelled", "killed"}
InFlight  == {"sending", "unsent", "waiting", "expired"}
Finished  == {"offline", "answered", "timeout"}

SameKind(t, u) == (t \in Persistable) <=> (u \in Persistable)

Init ==
  /\ DInit
  /\ rpc = [t \in Task |-> "idle"]
  /\ server_id = [t \in Task |-> None]
  /\ task_id = [t \in Task |-> 0]
  /\ next_task_id = 1
  /\ waiters = {}
  /\ oneshot = [t \in Task |-> None]
  /\ results = {}
  /\ boot = [t \in Task |-> 0]
  /\ now = 1

BeginWith(t, s, id) ==
  /\ rpc[t] = "idle"
  /\ Cardinality({u \in Task : rpc[u] # "idle"}) < MaxCalls
  /\ rpc' = [rpc EXCEPT ![t] = "sending"]
  /\ server_id' = [server_id EXCEPT ![t] = s]
  /\ task_id' = [task_id EXCEPT ![t] = id]
  /\ waiters' = waiters \union {t}
  /\ boot' = [boot EXCEPT ![t] = now]
  /\ UNCHANGED <<oneshot, results, now>>
  /\ UNCHANGED dvars

\* Mutant of Begin: the id is read and stored back in two steps, and taken twice.
BeginRacing(t, s) ==
  BeginWith(t, s, next_task_id) /\ next_task_id' \in {next_task_id, next_task_id + 1}

\* Take an id, leave the waiter under it.
Begin(t, s) ==
  BeginWith(t, s, next_task_id) /\ next_task_id' = next_task_id + 1

\* send_task answers true ...
Sent(t) ==
  /\ rpc[t] = "sending"
  /\ Accept(t, server_id[t])
  /\ rpc' = [rpc EXCEPT ![t] = "waiting"]
  /\ UNCHANGED <<server_id, task_id, next_task_id, waiters, oneshot, results, boot, now>>

\* ... or false, having stored the task if it is replayable.
NotSent(t) ==
  /\ rpc[t] = "sending"
  /\ IF t \in Persistable THEN Store(t, server_id[t]) ELSE GiveUp(t, server_id[t])
  /\ rpc' = [rpc EXCEPT ![t] = "unsent"]
  /\ UNCHANGED <<server_id, task_id, next_task_id, waiters, oneshot, results, boot, now>>

\* waiters.remove(&task.id), in the two maps' own kind.
Forget(t) == waiters' = {w \in waiters : ~(SameKind(w, t) /\ task_id[w] = task_id[t])}

AnswerOffline(t) ==
  /\ rpc[t] = "unsent"
  /\ Forget(t)
  /\ rpc' = [rpc EXCEPT ![t] = "offline"]
  /\ UNCHANGED <<server_id, task_id, next_task_id, oneshot, results, boot, now>>
  /\ UNCHANGED dvars

\* The timeout polls the oneshot first: a value that is there wins.
TakeAnswer(t) ==
  /\ rpc[t] = "waiting"
  /\ oneshot[t] # None
  /\ rpc' = [rpc EXCEPT ![t] = "answered"]
  /\ UNCHANGED <<server_id, task_id, next_task_id, waiters, oneshot, results, boot, now>>
  /\ UNCHANGED dvars

\* 10 s or 15 s passed; the map is locked only afterwards.
Expire(t) ==
  /\ rpc[t] = "waiting"
  /\ oneshot[t] = None
  /\ rpc' = [rpc EXCEPT ![t] = "expired"]
  /\ UNCHANGED <<server_id, task_id, next_task_id, waiters, oneshot, results, boot, now>>
  /\ UNCHANGED dvars

\* Mutant of AnswerTimeout: the waiter stays.
AnswerTimeoutOnly(t) ==
  /\ rpc[t] = "expired"
  /\ rpc' = [rpc EXCEPT ![t] = "timeout"]
  /\ UNCHANGED <<server_id, task_id, next_task_id, waiters, oneshot, results, boot, now>>
  /\ UNCHANGED dvars

AnswerTimeout(t) ==
  /\ rpc[t] = "expired"
  /\ Forget(t)
  /\ rpc' = [rpc EXCEPT ![t] = "timeout"]
  /\ UNCHANGED <<server_id, task_id, next_task_id, oneshot, results, boot, now>>
  /\ UNCHANGED dvars

\* The HTTP client leaves: the call is dropped where it awaits and nobody
\* touches its waiter.
Cancel(t) ==
  /\ \/ rpc[t] = "sending" /\ GiveUp(t, server_id[t])
     \/ rpc[t] = "waiting" /\ UNCHANGED dvars
  /\ rpc' = [rpc EXCEPT ![t] = "cancelled"]
  /\ UNCHANGED <<server_id, task_id, next_task_id, waiters, oneshot, results, boot, now>>

Caller(t) ==
  \/ \E s \in Server : Begin(t, s)
  \/ Sent(t) \/ NotSent(t) \/ AnswerOffline(t)
  \/ TakeAnswer(t) \/ Expire(t) \/ AnswerTimeout(t)
  \/ Cancel(t)

-----------------------------------------------------------------------------
\* The agent reads the task; its result starts back, or is lost on the spot.
Execute(t) ==
  /\ Receive(t)
  /\ results' \in {results, results \union {t}}
  /\ UNCHANGED <<rpc, server_id, task_id, next_task_id, waiters, oneshot, boot, now>>

\* A result wakes the waiter that is hit; an expired call dropped its receiver.
Complete(t, hit) ==
  /\ t \in results
  /\ results' = results \ {t}
  /\ waiters' = waiters \ hit
  /\ oneshot' = [w \in Task |-> IF w \in hit /\ rpc[w] # "expired" THEN t ELSE oneshot[w]]
  /\ UNCHANGED <<rpc, server_id, task_id, next_task_id, boot, now>>
  /\ UNCHANGED dvars

\* Mutant of CompleteTaskResult: one map for both types.
CompleteAnyType(t) == Complete(t, {w \in waiters : task_id[w] = task_id[t]})

\* complete_task_result, ReportConfig and ApplyConfig branches: by type and id.
CompleteTaskResult(t) ==
  Complete(t, {w \in waiters : SameKind(w, t) /\ task_id[w] = task_id[t]})

\* Connections end; tasks and results on them are lost.
LoseConnections ==
  /\ Lose
  /\ results' \in SUBSET results
  /\ UNCHANGED <<rpc, server_id, task_id, next_task_id, waiters, oneshot, boot, now>>

\* What the streams do to stored tasks, and the administrator to servers.
Transport ==
  /\ \/ \E t \in Task : Offer(t) \/ RemoveRow(t)
     \/ \E s \in Server : DeleteServer(s)
  /\ UNCHANGED rpcVars

RestartAt(first) ==
  /\ now < MaxBoot
  /\ now' = now + 1
  /\ flight' = {}
  /\ answer' = [t \in Task |-> IF rpc[t] = "sending" THEN "lost" ELSE answer[t]]
  /\ target' = [t \in Task |-> IF rpc[t] = "sending" THEN server_id[t] ELSE target[t]]
  /\ UNCHANGED <<row, offered, received, deleted>>
  /\ rpc' = [t \in Task |-> IF rpc[t] \in InFlight THEN "killed" ELSE rpc[t]]
  /\ next_task_id' = first
  /\ waiters' = {}
  /\ results' = {}
  /\ UNCHANGED <<server_id, task_id, oneshot, boot>>

\* Mutant of RestartProcess: ids start at 0, the id of keepalives.
RestartAtZero == RestartAt(0)

\* The process ends and starts: waiters and results go, AtomicU64::new(1).
RestartProcess == RestartAt(1)

Next ==
  \/ \E t \in Task : Caller(t) \/ Execute(t) \/ CompleteTaskResult(t)
  \/ LoseConnections
  \/ Transport
  \/ RestartProcess

Spec == Init /\ [][Next]_vars

-----------------------------------------------------------------------------
TypeOK ==
  /\ rpc \in [Task -> RpcState]
  /\ server_id \in [Task -> Server \union {None}]
  /\ task_id \in [Task -> Nat]
  /\ next_task_id \in Nat \ {0}
  /\ waiters \subseteq Task
  /\ oneshot \in [Task -> Task \union {None}]
  /\ results \subseteq Task
  /\ boot \in [Task -> 0..MaxBoot]
  /\ now \in 1..MaxBoot

\* A call is answered with the result of its own task.  The one exception the
\* code leaves: an ApplyConfig task stored by an earlier process, replayed
\* while a call of this process holds the same id (complete_task_result looks
\* at the type and the id only, and the counter starts again at 1).
OwnAnswer ==
  \A t \in Task : rpc[t] = "answered" =>
    LET u == oneshot[t] IN
      \/ u = t
      \/ /\ {t, u} \subseteq Persistable
         /\ answer[u] = "stored" /\ boot[u] < boot[t]
         /\ task_id[u] = task_id[t]

\* A finished call leaves no waiter, whichever of the answer and the timeout
\* came first; no waiter of an earlier process is left; and two calls never
\* hold the same id in the same map, so that a call takes only its own out.
WaitersBelongToCalls ==
  /\ \A w \in waiters : rpc[w] \notin Finished \union {"idle", "killed"} /\ boot[w] = now
  /\ \A v, w \in waiters : SameKind(v, w) /\ task_id[v] = task_id[w] => v = w

\* Why they hold.  The calls of a process have ids of their own below the counter; what
\* travels belongs to a call of this process or was stored; and a value that was
\* sent to a waiter is of its own task or of a stored one of an earlier process.
IdsAreUnique ==
  \A t \in Task : rpc[t] # "idle" /\ boot[t] = now =>
    /\ task_id[t] < next_task_id
    /\ \A u \in Task :
         rpc[u] # "idle" /\ boot[u] = now /\ task_id[u] = task_id[t] => u = t

TravelsForThisProcess ==
  /\ \A t \in flight \union results : rpc[t] # "idle" /\ (boot[t] = now \/ answer[t] = "stored")
  /\ \A t \in Task : answer[t] = "stored" => t \in Persistable
  /\ \A t \in Task : rpc[t] \in {"idle", "sending"} => answer[t] = "none"
  /\ \A t \in Task : boot[t] <= now /\ (rpc[t] \in InFlight => boot[t] = now)

ValuesAreOwn ==
  \A t \in Task :
    /\ rpc[t] = "answered" => oneshot[t] # None
    /\ oneshot[t] # None =>
         /\ rpc[t] # "idle" /\ t \notin waiters
         /\ \/ oneshot[t] = t
            \/ /\ {t, oneshot[t]} \subseteq Persistable
               /\ answer[oneshot[t]] = "stored" /\ boot[oneshot[t]] < boot[t]
               /\ task_id[oneshot[t]] = task_id[t]

RpcIInv ==
  /\ TypeOK /\ flight \subseteq Task /\ answer \in [Task -> {"none", "sent", "stored", "lost"}]
  /\ WaitersBelongToCalls /\ IdsAreUnique /\ TravelsForThisProcess /\ ValuesAreOwn
=============================================================================
