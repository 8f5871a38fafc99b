CONSTANTS
  N = 3
  Eager = FALSE
  Nobody = Nobody
SPECIFICATION Spec
INVARIANTS RepliesAreOwn
CHECK_DEADLOCK FALSE
