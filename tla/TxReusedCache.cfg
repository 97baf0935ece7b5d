SPECIFICATION Spec
CONSTANTS
  Root = {0}
  Obj = {4}
  Val = {0, 1}
  CacheSize = 2
  Threshold = 2
  MemsetInOrder = TRUE
  Calls = {"add", "free"}
  MaxDepth = 1
  MaxTx = 2
  MaxCrash = 1
INVARIANT AllOrNothing
CHECK_DEADLOCK FALSE
