SPECIFICATION Spec
CONSTANTS
  Sentinel = 100
  Infinity = 1000
  SameTol = 0
  Problems <- MCProblems
  Residual <- MCResidual
  SeedPositions <- MCSeedPositions
  MaxTime = 2
  Jump = 1
INVARIANT StartsInBox
PROPERTIES HitKept RetriesSearch Implements StopsWhenTold
