--------------------------- MODULE MCTaskDispatch ---------------------------
(* Instances of TaskDispatch for TLC. *)
EXTENDS TaskDispatch, TLC

\* Streams are interchangeable, servers too; so are the tasks of one kind.
Symmetry ==
  Permutations(Conn) \union Permutations(Server)
    \union Permutations(Persistable) \union Permutations(Task \ Persistable)

\* Bound: one server is deleted at most; the other one stays.
OneDeletion == Cardinality({s \in Server : server[s] # "present"}) <= 1

\* Bounds of the liveness run: no server is deleted, one replayable task is over
\* before the other calls begin, and the same stream is always the first used.
NoDeletion == \A s \in Server : server[s] = "present"
InTurn ==
  /\ LET first == CHOOSE t \in Persistable : TRUE
     IN call[first] \notin Returned => \A t \in Task \ {first} : call[t] = "idle"
  /\ LET first == CHOOSE c \in Conn : TRUE
     IN peer[first] = None => \A c \in Conn : peer[c] = None

\* What the liveness properties and the steps to come depend on: the histories,
\* and what a call that is over answered, are left out.
LiveView ==
  <<task_senders, pending_tasks, next_row, via, phase, chan, replay, ack, wire, link, server,
    [t \in Task |-> IF call[t] \in Returned THEN "over" ELSE call[t]]>>
=============================================================================
