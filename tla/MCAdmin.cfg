\* One submission at a time, one change elsewhere; two entries on pages of one; two
\* rows of rules.  Two users in one tab, a token of two hours.
SPECIFICATION AdminSpec
CONSTANTS
  Job = {j1}
  MaxChanges = 1
  MaxLoads = 1
  Entry = {e1, e2}
  PageSize = 1
  MaxPages = 8
  MaxRules = 2
  MaxWaits = 2
  User = {u1, u2}
  NoUser = NoUser
  Timeout = 2
CONSTRAINT SecondCreates
INVARIANTS AdminTypeOK EditorsKeep DialogsFollowRows ProfileIsOfTheCookie
PROPERTIES EditsAreKept BatchesHit StoredIsMeant
CHECK_DEADLOCK FALSE
