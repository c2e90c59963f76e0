SPECIFICATION FairSpec
CONSTANTS
  c1 = c1
  c2 = c2
  s1 = s1
  Cron = {c1, c2}
  Server = {s1}
  Occurs <- TwoOccurs
  Covers <- TwoCovers
  QueueCap = 1
  MaxTime = 3
  MaxUpsets = 1
  None = None
INVARIANTS CronIInv OccurrencesFireOnce
PROPERTY DueIsServed
