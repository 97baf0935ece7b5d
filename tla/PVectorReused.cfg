SPECIFICATION Spec
CONSTANTS
  Shift = 1
  MaxArrays = 2
  Offset = {1, 2}
  MaxCommit = 6
  MaxPush = 6
  MaxCrash = 3
INVARIANT RollsBackExactly
CHECK_DEADLOCK FALSE
