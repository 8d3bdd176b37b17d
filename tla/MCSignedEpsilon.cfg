SPECIFICATION Spec
CONSTANTS
  Sentinel = 100
  Infinity = 1000
  SameTol = 0
  Mechanisms <- GantryMechanisms
  Queries <- SignedQueries
  Positions <- MCPositions
  Residual <- MCResidual
  ManipValue <- MCManipValue
  DefaultEpsilon = 1
INVARIANT NothingHidden
