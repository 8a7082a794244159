SPECIFICATION Spec
CONSTANTS
  W8 = 2
  W16 = 3
  W32 = 4
  W64 = 5
  NaN = 3
  RoundToFloat <- RoundingOf
  Plans <- OutOfOrder
INVARIANTS
  NumbersAscend
CHECK_DEADLOCK FALSE
