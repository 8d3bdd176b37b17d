SPECIFICATION FairSpec
CONSTANTS
  Sentinel = 100
  Infinity = 1000
  SameTol = 0
  Loads <- MCLoads
  Requests <- MCRequests
  FkRequests <- MCFkRequests
  Positions <- MCPositions
  DefaultTimeout <- MCDefaultTimeout
  Writes <- MCWrites
  LinkPose <- MCLinkPose
  Loosened <- MCLoosened
  Residual <- MCResidual
  ManipValue <- MCManipValue
INVARIANTS
  TypeOK
  IndicesAgree
  SolverNeverRefuses
  SolverAskedAsAssumed
  SolutionHeld
  OnTime
  FkAsHeld
PROPERTIES
  BoundsAdmitExactly
  RefusedForAReason
  KeepsSearchPromise
  EverySearchReturns
