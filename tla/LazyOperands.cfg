SPECIFICATION Spec
CONSTANTS
  LocalsCount = 2
  Val = {v0, v1}
  Stale = v0
  MAX_REGISTER_SLOTS = 4
  MAX_SPILLS = 2
  MAX_CONSTS = 1
  MaxHeight = 3
  MaxEntries = 2
INVARIANTS
  TypeOK
  RefCounts
  OriginsExact
  SpillSlotsPartitioned
  RegistersContiguous
PROPERTIES
  SpillsAreStable
  ImplementsWasm
CHECK_DEADLOCK FALSE
