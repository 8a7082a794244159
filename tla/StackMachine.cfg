SPECIFICATION Spec
CONSTANTS
  LocalsCount = 2
  ParamsCount = 1
  ResultsCount = 1
  Args = {0, 1}
  Globals = {0}
  Callers <- MCCallers
  Stale = 7
  CalleeDepth = 3
  Alphabets <- MCAlphabets
  Fuel = 40
INVARIANTS
  StackTypeOK
  StackComputesMeaning
  HeightModelHolds
  FrameKept
  BranchesResolve
  StackHeightsAgree
PROPERTIES
  StackTerminates
CHECK_DEADLOCK FALSE
