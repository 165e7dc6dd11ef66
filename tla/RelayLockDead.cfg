SPECIFICATION LockFairSpec
CONSTANTS
    Procs = {p1, p2, p3}
    NoProc = NoProc
    Ttl = 1
    MayDie = TRUE
    MayStall = FALSE
    MaxTime = 4
PROPERTIES DeadHoldersFileIsRemoved
CHECK_DEADLOCK FALSE
