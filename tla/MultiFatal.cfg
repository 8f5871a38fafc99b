CONSTANTS
  N = 3
  Spillover <- MCSpillover
  Walks = {w1, w2, w3}
  Exclusions <- MCExclusions
  DownAfter = 2
SPECIFICATION Spec
PROPERTIES FatalStopsEveryWalk
CHECK_DEADLOCK FALSE
