SPECIFICATION Spec
CONSTANTS
  W8 = 2
  W16 = 4
  W32 = 8
  W64 = 16
  FloatExp = 4
  One = 8
  Quantum32 = 4
  Quantum64 = 1
  TAG_SHIFT = 14
  Ieee <- MCIeee
  Operands <- MCOperands
INVARIANTS
  StackNumericsCorrect
  RegNumericsCorrect
  EffectsBooked
CHECK_DEADLOCK FALSE
