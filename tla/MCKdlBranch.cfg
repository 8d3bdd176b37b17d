SPECIFICATION Spec
CONSTANTS
  Sentinel = 100
  Infinity = 1000
  SameTol = 0
  Problems <- MCProblems
  Residual <- MCResidual
  SeedPositions <- MCSeedPositions
  Reach <- MCReach
  MaxTime = 2
INVARIANT IteratesInside
PROPERTIES Implements StopsWhenTold
