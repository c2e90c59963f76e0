\* One agent that registers twice, two users, two RPCs; two visits from one address of
\* two spellings, two administrators; three updates, one second of patience.
SPECIFICATION PartsSpec
CONSTANTS
  User = {u1, u2}
  Global = Global
  Call = {c1, c2}
  MaxId = 2
  None = None
  v4 = v4
  v6 = v6
  Addr <- V4
  Mapped <- V6
  AddrOf <- Spelling
  Visit = {w1, w2}
  Admin = {b1, b2}
  NoIp = NoIp
  Process = {p1, p2, p3}
  Patience = 1
  NoFile = NoFile
SYMMETRY Symmetry
INVARIANTS PartsTypeOK RegistryFollowsStore BlocksHold UpdatesAlone
CHECK_DEADLOCK FALSE
