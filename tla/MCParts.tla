------------------------------ MODULE MCParts ---------------------------------
(* Parts for TLC that share no state a model of two of them would tell       *)
(* apart: the dashboard's ServerRegistry and OnlineUsers, and the agents'    *)
(* UpdateLock.  A behaviour is one of them, the others stay in their first   *)
(* states.                                                                   *)
EXTENDS ServerRegistry, OnlineUsers, UpdateLock, TLC

CONSTANTS v4, v6 \* one address and its two spellings
V4 == {v4}
V6 == {v6}
Spelling == [i \in {v4, v6} |-> v4]

ASSUME PartsAssumption == OnlineAssumption /\ LockAssumption

VARIABLE scene \* which of them goes on

PartsInit ==
  /\ scene \in {"registry", "online", "lock"}
  /\ Init /\ OnlineInit /\ LockInit

PartsNext ==
  \/ scene = "registry" /\ Next /\ UNCHANGED <<scene, onlineVars, lockVars>>
  \/ scene = "online" /\ OnlineNext /\ UNCHANGED <<scene, vars, lockVars>>
  \/ scene = "lock" /\ LockNext /\ UNCHANGED <<scene, vars, onlineVars>>

PartsSpec == PartsInit /\ [][PartsNext]_<<scene, vars, onlineVars, lockVars>>

\* Users are interchangeable, and RPCs.
Symmetry == Permutations(User) \union Permutations(Call)

\* The inductive invariants of the three: their variables have their types, ids are
\* those of the table or of calls, addresses those of visits, locks those of updates.
\* What does not go on is in its first state, and needs no look.
PartsTypeOK ==
  CASE scene = "registry" -> RegistryIInv
    [] scene = "online" -> OnlineIInv
    [] scene = "lock" -> LockIInv
=============================================================================
