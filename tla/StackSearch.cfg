SPECIFICATION Spec
CONSTANTS
  MaxN = 4
  MaxAddr = 5
  MaxSize = 2
CHECK_DEADLOCK FALSE
INVARIANTS TableSorted HitIffInside
PROPERTY SearchTerminates
