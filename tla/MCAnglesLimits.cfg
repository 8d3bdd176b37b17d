SPECIFICATION Spec
CONSTANTS
  Revolutions <- MCRevolutions
  Positions <- MCPositions
  LimitEnds <- MCLimitEnds
INVARIANTS
  LimitsMet
CHECK_DEADLOCK FALSE
