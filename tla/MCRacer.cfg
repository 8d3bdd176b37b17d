SPECIFICATION Spec
CONSTANTS
  Sentinel = 100
  Infinity = 1000
  SameTol = 1
  Mechanisms <- CoupledMechanisms
  Queries <- CoupledQueries
  Positions <- MCPositions
  Residual <- MCResidual
  ManipValue <- MCManipValue
  DefaultEpsilon = 1
INVARIANTS
  TypeOK
  ErrorsIndexSolutions
  CandidatesDistinct
  SpeedStopsAtFirst
  NothingHidden
  CandidatesAnswer
  RankingOfLastCall
  AbortsJustified
PROPERTY KeepsPromise
