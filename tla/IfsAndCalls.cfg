SPECIFICATION Spec
CONSTANTS
  LocalsCount = 1
  ResultsCount = 2
  Val = {0, 1}
  Args = {0, 1}
  Globals = {0, 1}
  Stale = 7
  MAX_REGISTER_SLOTS = 9
  MAX_SPILLS = 9
  MAX_CONSTS = 9
  MAX_FRAME = 20
  Alphabets <- IfsAndCallsBodies
  Fuel = 40
INVARIANTS
  TypeOK
  ComputesMeaning
  FrameCovers
CHECK_DEADLOCK FALSE
