SPECIFICATION Spec
CONSTANTS
  r1 = r1
  Runs = {r1}
  Sizes = {4, 10, 12, 36}
  MaxPersistChars = 10
  MaxResultSize = 10
  MaxCycleChars = 40
  OffloadThreshold = 6
  AsyncTools = FALSE
  DiskFails = FALSE
  MaxCycles = 2
  MaxCalls = 4
INVARIANTS
  OffloadedAreRestored

CHECK_DEADLOCK FALSE
