SPECIFICATION Spec
CONSTANTS
  Sentinel = 100
  Infinity = 1000
  Multipliers <- MCMultipliers
  Offsets <- MCOffsets
  Ends <- MCEnds
  Reach <- MCReach
  Columns <- MCColumns
INVARIANTS
  TypeOK
  TightenExact
  MimicBoundsReached
  TightenersAgree
  FoldIsChainRule
PROPERTY TightenIdempotent
