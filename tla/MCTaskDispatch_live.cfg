\* One agent that comes back on a second stream; two stored tasks with
\* overlapping copies, and a caller that waits for a slot.
SPECIFICATION FairSpec
CONSTANTS
  Server = {s1}
  Task = {t1, t2, t3}
  Persistable = {t1, t2}
  Cancellable = {}
  Conn = {c1, c2}
  ChanCap = 1
  WireCap = 1
  None = None
VIEW LiveView
CONSTRAINTS NoDeletion InTurn
PROPERTIES CallsReturn AcceptedGoesOut RowsLeave
