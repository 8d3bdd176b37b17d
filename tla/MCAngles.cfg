SPECIFICATION Spec
CONSTANTS
  Revolutions <- MCRevolutions
  Positions <- MCPositions
  LimitEnds <- MCLimitEnds
INVARIANTS
  TurnsByRevolutions
  EndsWithinLimits
  Settles
CHECK_DEADLOCK FALSE
