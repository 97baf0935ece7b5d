SPECIFICATION MCSpec
CONSTANTS
  Caller = {c1, c2}
  Mode = {"r", "w"}
  RunIds = 16
  FirstRun = {0, 14}
  MaxOpenings = 2
  MaxFail = 1
  Thread = {t1, t2, t3}
  NLanes = 3
  Jump = 2
  Attempts = 2
  MaxNest = 2
  MaxOpen = 1
  Pool = {p1}
  Writer = {w1, w2}
  NArena = 2
  MaxCreate = 2
  MaxCrash = 2
  MaxWriteFail = 1
  MaxAdr = 2
  MaxStop = 2
INVARIANTS ReadyWhenUsed Exclusive
INVARIANTS LaneExclusive
INVARIANTS LoadedFlogsOwn LayoutOnce
INVARIANTS LossReported NoFalseAlarm
PROPERTIES GetReturns HoldReturns WritesReturn PersistReturns
