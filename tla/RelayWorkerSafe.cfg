SPECIFICATION WSpec
CONSTANTS
    a1 = a1
    m1 = m1
    Procs = {w1, c1}
    NoProc = NoProc
    Messages = {m1}
    Agents = {a1}
    Inbox <- MCInbox
    Ttl = 1
    MayDie = FALSE
    MayStall = FALSE
    MayFault = TRUE
    LeaseTime = 1
    StaleTime = 0
    MaxTime = 3
    Workers = {w1}
    AgentOf <- MCAgentOf
INVARIANTS RTypeOK MutualExclusion LeasesDoNotOverlap DoneIsDone
PROPERTIES EndsOnce OnlyCurrentLeaseEnds ImplementsMessageBox UsesRelay
CHECK_DEADLOCK FALSE
