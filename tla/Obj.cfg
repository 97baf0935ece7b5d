SPECIFICATION ObjSpec
CONSTANTS
  Root = {0, 1, 2}
  Obj = {4}
  Val = {0, 1}
  CacheSize = 2
  Threshold = 2
  MemsetInOrder = TRUE
  Calls = {"add", "alloc", "free", "abort", "oom"}
  MaxDepth = 2
  MaxTx = 1
  MaxCrash = 2
INVARIANTS TypeOK SnapshotOnce NprevAdjacent RangesExact AllOrNothing
INVARIANTS RollsBackExactly CountsValues
INVARIANTS AllOrNone DurableWhenIdle TransientLast
INVARIANTS RemoteDurable BuffersSuffice
PROPERTIES BufferStable
CHECK_DEADLOCK FALSE
