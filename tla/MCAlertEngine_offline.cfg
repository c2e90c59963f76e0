SPECIFICATION Spec
CONSTANTS
  a1 = a1
  a2 = a2
  Alert = {a1}
  Server = {s1, s2}
  RuleLists <- OfflineAlert
  MaxRules = 1
  MaxSamples = 3
  CycleLength = 3
  MaxDelay = 1
  MaxTick = 8
  MaxUpsets = 0
INVARIANT OfflineAfterDuration
CHECK_DEADLOCK FALSE
