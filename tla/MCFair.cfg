SPECIFICATION FairSpec
CONSTANTS
  Sentinel = 100
  Infinity = 1000
  SameTol = 0
  Mechanisms <- GantryMechanisms
  Queries <- GantryQueries
  Positions <- MCPositions
  Residual <- MCResidual
  ManipValue <- MCManipValue
  DefaultEpsilon = 1
INVARIANT InnerSolversAsAssumed
PROPERTIES KeepsPromiseInTime SpeedReturnsEarly
