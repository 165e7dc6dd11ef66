SPECIFICATION WFairSpec
CONSTANTS
    i1 = i1
    i2 = i2
    Items = {i1, i2}
    Workers = {w1, w2}
    Clients = {c1}
    NoOwner = NoOwner
    NoItem = NoItem
    Priority <- MCPriority
    MaxAttempts <- MCUrgentOnce
    StopFiled <- MCNoStopFile
    LeaseTime = 1
    MaxTime = 3
    Fts5 = TRUE
    Watch = TRUE
    MaxTasks = 9
    Deadline = 9
    FailurePause = TRUE
    MayStop = FALSE
INVARIANTS TypeOK RunningIsRecoverable AttemptsBounded
PROPERTIES LiveLeaseNotStolen QueuedIsTaken DeadWorkersItemIsTaken
CHECK_DEADLOCK FALSE
