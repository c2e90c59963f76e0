------------------------------ MODULE MCAlerts --------------------------------
(* Alerts for TLC: AlertEngine, AlertTrigger for the commands an alert       *)
(* dispatches, and TransferAccounting for what its cycle rules read.  A      *)
(* behaviour is one of them, the others stay in one of their first states.   *)
EXTENDS MCAlertEngine

CONSTANTS Slot, Dispatch, MaxBytes, MaxReports, MaxReboots, MaxCrashes

ASSUME TrafficAssumption ==
  MaxBytes \in Nat /\ MaxReports \in Nat /\ MaxReboots \in Nat /\ MaxCrashes \in Nat

\* For WindowIsEnough.
ASSUME WindowAssumption == OfflineRulesAreShort

VARIABLES
  scene, \* which of them goes on
  step, slot, fresh, stale, coming, ran, recorded, counted, judged, made, spoiled,
  counter, streams, transfers, snapshot, adding, sent, newest, total, repeated, since, base,
  reboots, crashes

triggerVars == <<step, slot, fresh, stale, coming, ran, recorded, counted, judged, made, spoiled>>
trafficVars == <<counter, streams, transfers, snapshot, adding, sent, newest, total, repeated,
                 since, base, reboots, crashes>>

Trigger == INSTANCE AlertTrigger
Traffic == INSTANCE TransferAccounting WITH made <- sent

AlertsInit ==
  /\ scene \in {"engine", "trigger", "traffic"}
  /\ Init
  /\ scene = "engine" \/ \A a \in Alert : rules[a] = CHOOSE l \in RuleLists[a] : TRUE
  /\ scene = "engine" \/ (once = {} /\ silent = {})
  /\ Trigger!Init /\ Traffic!Init
  /\ scene = "trigger" \/ \A d \in Dispatch : slot[d] = CHOOSE p \in Slot : TRUE

AlertsNext ==
  \/ scene = "engine" /\ Next /\ UNCHANGED <<scene, triggerVars, trafficVars>>
  \/ scene = "trigger" /\ Trigger!Next /\ UNCHANGED <<scene, vars, trafficVars>>
  \/ scene = "traffic" /\ Traffic!Next /\ UNCHANGED <<scene, vars, triggerVars>>

AlertsSpec == AlertsInit /\ [][AlertsNext]_<<scene, vars, triggerVars, trafficVars>>

\* The variables of the three have their types: no window is longer than its rules
\* ask, no slot holds more than it was given, reports come from the past.  What does
\* not go on is in a first state.
AlertsTypeOK ==
  CASE scene = "engine" -> EngineIInv /\ WindowsEndAlike
    [] scene = "trigger" -> Trigger!TriggerIInv
    [] scene = "traffic" -> Traffic!TrafficIInv

\* AlertTrigger: recorded results and reservations are the same dispatches.
ResultsMatchReservations == Trigger!ResultsMatchReservations

\* TransferAccounting: the table has what was transferred, once.
TrafficIsCounted == Traffic!TrafficIsCounted
=============================================================================
