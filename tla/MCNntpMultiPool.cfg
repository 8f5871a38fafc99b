CONSTANTS
  N = 3
  Spillover <- MCSpillover
  Walks = {w1, w2, w3}
  Exclusions <- MCExclusions
  DownAfter = 2
SYMMETRY MCSymmetry
SPECIFICATION Spec
INVARIANTS
  OverflowIsOptIn MissingMeansAllReadyAsked CapacityBlamesEarliest DownIsEarned
PROPERTIES NothingNewAfterFatalOrDown
CHECK_DEADLOCK FALSE
