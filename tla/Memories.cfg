SPECIFICATION Spec
CONSTANTS
  W8 = 2
  W16 = 4
  W32 = 8
  W64 = 16
  FloatExp = 4
  One = 8
  Quantum32 = 4
  Quantum64 = 1
  TAG_SHIFT = 14
  PAGE = 8
  CHUNK = 2
  get_max_memory_size_in_pages = 2
  Ieee <- MCIeee
  Images <- MCImages
  Segments <- MCSegments
  Instructions <- MCInstructions
INVARIANTS
  StackMemoryCorrect
  RegMemoryCorrect
PROPERTIES
  TrapsChangeNothing
CHECK_DEADLOCK FALSE
