SPECIFICATION Spec
CONSTANTS
  NLanes = 1
  NThreads = 1
  Units = 2
  SqSize = 2
  CqSize = 3
  Modes = {"send", "write", "deep", "read"}
  Methods = {"APM", "GPSPM"}
  FirstCalls = 3
  OtherCalls = 0
INVARIANT SendQueueSuffices
CHECK_DEADLOCK FALSE
