SPECIFICATION Spec
CONSTANTS
  Word = {w1, w2}
  Bit = {b1}
  BaseCap = 2
  ExtCap = 1
  MergeSearch = 2
  FlushOrdered = FALSE
  MaxEntries = 3
  MaxOps = 1
  MaxCrash = 2
INVARIANT AllOrNone
CHECK_DEADLOCK FALSE
