\* Two calls of three that wait for a result, over a restart.  One service and two
\* streams: one success of two samples is low availability, none is down.
SPECIFICATION ResultsSpec
CONSTANTS
  Server = {s1}
  Task = {a1, a2, r1}
  Persistable = {a1, a2}
  MaxBoot = 2
  MaxCalls = 2
  Service = {v1}
  Conn = {c1, c2}
  StatusSize = 2
  GoodAbove = 95
  LowAbove = 40
  TaskCap = 1
  ResultCap = 1
  Command = Command
  None = None
INVARIANTS ResultsTypeOK OwnAnswer WaitersBelongToCalls EffectsFollowStatus
PROPERTY EffectsEnd
CHECK_DEADLOCK FALSE
