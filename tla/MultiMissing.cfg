CONSTANTS
  N = 3
  Spillover <- MCSpillover
  Walks = {w1, w2, w3}
  Exclusions <- MCExclusions
  DownAfter = 2
SPECIFICATION Spec
INVARIANTS MissingMeansEveryServerSaidSo
CHECK_DEADLOCK FALSE
