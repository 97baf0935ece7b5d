SPECIFICATION ArenaSpec
CONSTANTS
    ExternalNlba = 2
    NFree = 2
    NLane = 2
    LockSpan = 1
    Data = {d0, d1}
    Stale = d0
    Ops = {"read", "write", "zero", "error"}
    MaxCall = 4
    MaxCrash = 1
    MaxFail = 1
INVARIANTS FlogDecidable BlocksPartitioned NoWriteUnderReader RefusedForCause
PROPERTY ImplementsBlockDevice
CHECK_DEADLOCK FALSE
