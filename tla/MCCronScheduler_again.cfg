SPECIFICATION Spec
CONSTANTS
  c1 = c1
  c2 = c2
  s1 = s1
  Cron = {c1}
  Server = {s1}
  Occurs <- OneOccurs
  Covers <- OneCovers
  QueueCap = 2
  MaxTime = 4
  MaxUpsets = 1
  None = None
INVARIANT FiredOnce
