SPECIFICATION FairSpec
CONSTANTS
  c1 = c1
  c2 = c2
  Connections <- MCConnections
INVARIANTS LInv AlwaysAccepting HandedOverOnce
PROPERTY DetectionEnds
CHECK_DEADLOCK FALSE
