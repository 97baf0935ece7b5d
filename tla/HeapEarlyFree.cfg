SPECIFICATION Spec
CONSTANTS
  NChunk = 2
  NUnit = 2
  NActor = 2
  NArena = 2
  NLocks = 2
  Threshold = 2
  EarlyFree = TRUE
  MaxActs = 2
  MaxOps = 3
INVARIANT ReservedNotGlobal
CHECK_DEADLOCK FALSE
