SPECIFICATION PhyloFairSpec
CONSTANTS
  MAX_PHY = 4
  MIN_PHY = 3
  Keys = {"a", "r", "q"}
  MaxKeys = 2
  SpawnFails = TRUE
INVARIANTS
  NeighboursExclusive
PROPERTIES
  NeverForgotten
  QuitEnds
CHECK_DEADLOCK FALSE
