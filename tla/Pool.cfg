SPECIFICATION PoolSpec
CONSTANTS
  NChunk = 2
  NUnit = 2
  NActor = 2
  NArena = 2
  NLocks = 2
  Threshold = 2
  EarlyFree = FALSE
  MaxActs = 2
  MaxOps = 3
  byteA = byteA
  byteB = byteB
  Thread = {t1, t2}
  Val = {byteA, byteB}
  Cap = 4
  AppendArg <- Buffers
  ChunkArg = {0, 2}
  MaxCalls = 4
  MaxCrash = 1
INVARIANTS NoDoubleGrant ReservedNotGlobal TrackedOnce HeapMatchesObjects NoLockCycle RunWhileLocked
INVARIANTS OffsetCoversDurable
INVARIANTS ListsAreRings NoDeadlock
PROPERTIES ImplementsLogDevice EntirelyOrNot
