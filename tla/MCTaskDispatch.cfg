\* Two servers share two streams and two replayable tasks.
SPECIFICATION Spec
CONSTANTS
  Server = {s1, s2}
  Task = {t1, t2}
  Persistable = {t1, t2}
  Cancellable = {t1, t2}
  Conn = {c1, c2}
  ChanCap = 1
  WireCap = 1
  None = None
SYMMETRY Symmetry
CONSTRAINT OneDeletion
INVARIANTS IInv StoredIsKept ReplayInOrder
PROPERTY ImplementsDelivery
