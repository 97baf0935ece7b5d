SPECIFICATION Spec
CONSTANTS
  Pool = {p1, p2}
  Thread = {t1}
  NArena = 1
  MaxCreate = 1
  MaxCrash = 0
  MaxFail = 0
INVARIANT MapsCleared
