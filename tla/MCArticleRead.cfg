CONSTANTS
  K = 4
  Depth = 2
  Kept <- MCKept
  Servers = {s1, s2}
SPECIFICATION Spec
INVARIANTS
  MemoryIsBounded SinkIsSerial DoneIsComplete FirstErrorInFileOrder
  MismatchIsReported
PROPERTIES ReadSettles
CHECK_DEADLOCK FALSE
