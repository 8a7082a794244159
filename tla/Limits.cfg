SPECIFICATION Spec
CONSTANTS
  LocalsCount = 1
  ResultsCount = 1
  Val = {0, 1}
  Args = {0, 1}
  Globals = {0}
  Stale = 7
  MAX_REGISTER_SLOTS = 3
  MAX_SPILLS = 1
  MAX_CONSTS = 1
  MAX_FRAME = 4
  Alphabets <- LimitsBodies
  Fuel = 40
INVARIANTS
  StackConsistent
  FrameCovers
CHECK_DEADLOCK FALSE
