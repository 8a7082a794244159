SPECIFICATION Spec
CONSTANTS
  Func = {"thin", "wide"}
  Layout <- TwoLayouts
  Val = {0, 1}
  Zero = 0
  IndirectSites = {1}
  Host <- Flip
  HostParams = 1
  HostResults = 1
  MAX_DEPTH = 3
INVARIANTS
  TypeOK
  FileCovers
  DepthCounted
PROPERTIES
  ImplementsCallChain
CHECK_DEADLOCK FALSE
