SPECIFICATION WFairSpec
CONSTANTS
    a1 = a1
    m1 = m1
    Procs = {w1, c1}
    NoProc = NoProc
    Messages = {m1, m2}
    Agents = {a1}
    Inbox <- MCInbox
    Ttl = 1
    MayDie = FALSE
    MayStall = FALSE
    MayFault = TRUE
    LeaseTime = 1
    StaleTime = 0
    MaxTime = 3
    Workers = {w1}
    AgentOf <- MCAgentOf
PROPERTIES UnreadIsClaimed
CHECK_DEADLOCK FALSE
