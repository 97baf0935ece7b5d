SPECIFICATION FairSpec
CONSTANTS
    ExternalNlba = 2
    NFree = 2
    NLane = 2
    LockSpan = 1
    Data = {d0}
    Stale = d0
    Ops = {"read", "write", "zero"}
    MaxCall = 5
    MaxCrash = 0
    MaxFail = 0
PROPERTY WritesReturn
CHECK_DEADLOCK FALSE
