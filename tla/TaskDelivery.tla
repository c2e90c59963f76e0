---------------------------- MODULE TaskDelivery ----------------------------
(***************************************************************************)
(* What the dashboard promises about one task, with no streams, channels,  *)
(* senders or locks: TaskDispatch implements it.                           *)
(*                                                                         *)
(* A call ends in one of three ways.  "sent": the task travels once and is *)
(* received at most once, or is lost with its connection.  "stored": a row *)
(* stands for it until the task was put on the way at least once or its    *)
(* server was deleted; it may be received several times.  "lost": it never *)
(* reaches anybody.                                                        *)
(***************************************************************************)
EXTENDS Naturals

CONSTANTS Server, Task, Persistable, None

VARIABLES
  answer,    \* task -> "none" until its call ended
  target,    \* task -> its server once the call ended, None before
  row,       \* the tasks a stored row stands for
  offered,   \* the stored tasks put on the way at least once
  flight,    \* the tasks on the way
  received,  \* task -> 0, 1, or 2 for "more than once"
  deleted    \* the servers an administrator deleted

dvars == <<answer, target, row, offered, flight, received, deleted>>

DInit ==
  /\ answer = [t \in Task |-> "none"]
  /\ target = [t \in Task |-> None]
  /\ row = {} /\ offered = {} /\ flight = {} /\ deleted = {}
  /\ received = [t \in Task |-> 0]

End(t, s, a) ==
  /\ answer[t] = "none"
  /\ answer' = [answer EXCEPT ![t] = a]
  /\ target' = [target EXCEPT ![t] = s]

Accept(t, s) ==
  /\ End(t, s, "sent")
  /\ flight' = flight \union {t}
  /\ UNCHANGED <<row, offered, received, deleted>>

Store(t, s) ==
  /\ t \in Persistable
  /\ End(t, s, "stored")
  /\ row' = row \union {t}
  /\ UNCHANGED <<offered, flight, received, deleted>>

GiveUp(t, s) ==
  /\ End(t, s, "lost")
  /\ UNCHANGED <<row, offered, flight, received, deleted>>

\* Streams work from a copy of the rows, so an offer may follow the removal.
Offer(t) ==
  /\ answer[t] = "stored"
  /\ offered' = offered \union {t}
  /\ flight' = flight \union {t}
  /\ UNCHANGED <<answer, target, row, received, deleted>>

RemoveRow(t) ==
  /\ t \in row \cap offered
  /\ row' = row \ {t}
  /\ UNCHANGED <<answer, target, offered, flight, received, deleted>>

Receive(t) ==
  /\ t \in flight
  /\ received' = [received EXCEPT ![t] = IF @ = 0 THEN 1 ELSE 2]
  /\ \/ flight' = flight \ {t}
     \/ answer[t] = "stored" /\ flight' = flight
  /\ UNCHANGED <<answer, target, row, offered, deleted>>

Lose ==
  /\ UNCHANGED <<answer, target, row, offered, received, deleted>>
  /\ flight' \in SUBSET flight

DeleteServer(s) ==
  /\ s \notin deleted
  /\ deleted' = deleted \union {s}
  /\ row' = {t \in row : target[t] # s}
  /\ UNCHANGED <<answer, target, offered, flight, received>>

\* Everything in memory goes, the calls in progress included; rows stay.
Crash ==
  /\ UNCHANGED <<row, offered, received, deleted>>
  /\ flight' = {}
  /\ \E dead \in SUBSET {t \in Task : answer[t] = "none"} :
       /\ answer' = [t \in Task |-> IF t \in dead THEN "lost" ELSE answer[t]]
       /\ \E s \in [dead -> Server] :
            target' = [t \in Task |-> IF t \in dead THEN s[t] ELSE target[t]]

DNext ==
  \/ Lose
  \/ \E t \in Task, s \in Server : Accept(t, s) \/ Store(t, s) \/ GiveUp(t, s)
  \/ \E t \in Task : Offer(t) \/ RemoveRow(t) \/ Receive(t)
  \/ \E s \in Server : DeleteServer(s)
  \/ Crash

DSpec == DInit /\ [][DNext]_dvars
=============================================================================
