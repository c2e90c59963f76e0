\* Two alerts on one server, one disturbance; three dispatches, on one slot or
\* spread over two; three reports of counters up to two, a reboot, a restart.
SPECIFICATION AlertsSpec
CONSTANTS
  a1 = a1
  a2 = a2
  Alert = {a1, a2}
  Server = {s1}
  RuleLists <- TwoAlerts
  MaxRules = 2
  MaxSamples = 3
  CycleLength = 2
  MaxDelay = 3
  MaxTick = 5
  MaxUpsets = 1
  Slot = {p1, p2}
  Dispatch = {d1, d2, d3}
  MaxBytes = 2
  MaxReports = 3
  MaxReboots = 1
  MaxCrashes = 1
INVARIANTS AlertsTypeOK WindowIsEnough StatusOfThisCycle ToldWhatIsSo
  ResultsMatchReservations TrafficIsCounted
PROPERTY NewsIsNew
CHECK_DEADLOCK FALSE
