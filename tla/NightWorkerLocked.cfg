SPECIFICATION WSpec
CONSTANTS
    i1 = i1
    i2 = i2
    Items = {i1}
    Workers = {w1, w2}
    Clients = {c1}
    NoOwner = NoOwner
    NoItem = NoItem
    Priority <- MCPriority
    MaxAttempts <- MCMaxAttempts
    StopFiled <- MCStopFiled
    LeaseTime = 1
    MaxTime = 3
    Fts5 = FALSE
    Watch = TRUE
    MaxTasks = 9
    Deadline = 9
    FailurePause = TRUE
    MayStop = TRUE
SYMMETRY Symm
INVARIANTS WTypeOK OverlapOnlyAfterExpiry
PROPERTIES RunsOnlyOwnItems UsesQueue FinalStaysFinal OnlyOwnerReports ImplementsJobQueue
CHECK_DEADLOCK FALSE
