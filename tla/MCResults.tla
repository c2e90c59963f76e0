------------------------------ MODULE MCResults -------------------------------
(* What agents send back, for TLC: ConfigRpc, whose calls wait for a result, *)
(* and ServiceMonitor, whose readers work off what follows from one.  A      *)
(* behaviour is one of them, the other rests in its first state, without a   *)
(* step that is due: fairness for both is fairness for the one that goes on. *)
EXTENDS ConfigRpc

CONSTANTS Service, Conn, StatusSize, GoodAbove, LowAbove, TaskCap, ResultCap, Command

VARIABLES
  scene, \* which of them goes on
  live, channel, agent, outbox, effects, via, samples, status, told, commanded

monitorVars == <<live, channel, agent, outbox, effects, via, samples, status, told, commanded>>

Monitor == INSTANCE ServiceMonitor

ASSUME ResultsAssumption == RpcAssumption /\ Monitor!MonitorAssumption

ResultsInit == scene \in {"rpc", "monitor"} /\ Init /\ Monitor!Init

ResultsNext ==
  \/ scene = "rpc" /\ Next /\ UNCHANGED <<scene, monitorVars>>
  \/ scene = "monitor" /\ Monitor!Next /\ UNCHANGED <<scene, vars>>

ResultsSpec ==
  ResultsInit /\ [][ResultsNext]_<<scene, vars, monitorVars>> /\ Monitor!Fairness

\* The variables of the two have their types: ids are those of calls made, no channel
\* takes more than it holds.  What does not go on is in its first state.
ResultsTypeOK ==
  CASE scene = "rpc" -> RpcIInv
    [] scene = "monitor" -> Monitor!MonitorIInv

\* ServiceMonitor: what was notified and commanded last is what the status says.
EffectsFollowStatus == scene = "monitor" => Monitor!EffectsFollowStatus

\* ServiceMonitor: readers work off what follows from a result, but for a circular wait.
EffectsEnd == Monitor!EffectsEnd
=============================================================================
