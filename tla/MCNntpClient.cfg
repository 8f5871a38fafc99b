CONSTANTS
  N = 3
  Eager = TRUE
  Nobody = Nobody
SPECIFICATION Spec
INVARIANTS
  OneCommandAtATime PooledRepliesAreOwn IdleIsClean
PROPERTIES EveryCallSettles
CHECK_DEADLOCK FALSE
