SPECIFICATION FairSpec
CONSTANTS
    t1 = t1
    Tasks = {t1, t2}
    Workers = {w1, w2}
    Clients = {c1}
    NoTask = NoTask
    NoProc = NoProc
    DeadProc = DeadProc
    Priority <- MCPriority
    Watch = TRUE
    FailurePause = TRUE
INVARIANTS TypeOK TasksRunAlone
PROPERTIES EndedStays ImplementsTaskBoard QueuedIsTaken
CHECK_DEADLOCK FALSE
