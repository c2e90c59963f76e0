SPECIFICATION Spec
CONSTANTS
  Server = {s1}
  Task = {t1}
  Persistable = {t1}
  Cancellable = {}
  Conn = {c1, c2}
  ChanCap = 1
  WireCap = 1
  None = None
PROPERTY LiveStreamStaysRegistered
