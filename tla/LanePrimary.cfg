SPECIFICATION Spec
CONSTANTS
  Thread = {t1, t2}
  NLanes = 8
  Jump = 8
  Attempts = 2
  MaxNest = 1
  MaxOpen = 0
INVARIANT PrimaryReselected
