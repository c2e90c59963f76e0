----------------------------- MODULE MCAlertEngine -----------------------------
(* Instances of AlertEngine for TLC. *)
EXTENDS AlertEngine, TLC

CONSTANTS a1, a2

Offline(n) == [kind |-> "offline", duration |-> n]
Metric(n)  == [kind |-> "metric", duration |-> n]
Cycle      == [kind |-> "cycle", duration |-> 1]

\* An alert that is edited between three kinds of rule lists, and a second
\* one whose actions wait with those of the first.  Offline rules are no longer
\* than two looks or the rule beside them.
TwoAlerts ==
  a1 :> {<<Metric(3)>>, <<Offline(2), Metric(3)>>, <<Metric(2), Cycle>>} @@ a2 :> {<<Offline(1)>>}

\* An alert for servers that are offline for three looks.
OfflineAlert == a1 :> {<<Offline(3)>>}
=============================================================================
