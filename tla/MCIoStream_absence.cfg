SPECIFICATION Spec
CONSTANTS
  Stream = {i1}
  Buffer = 1
INVARIANT NoFalseAbsence
CHECK_DEADLOCK FALSE
