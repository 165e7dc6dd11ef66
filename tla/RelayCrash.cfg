SPECIFICATION RSpec
CONSTANTS
    a1 = a1
    m1 = m1
    Procs = {p1, p2}
    NoProc = NoProc
    Messages = {m1}
    Agents = {a1}
    Inbox <- MCInbox
    Ttl = 1
    MayDie = TRUE
    MayStall = FALSE
    MayFault = FALSE
    LeaseTime = 2
    StaleTime = 0
    MaxTime = 4
SYMMETRY Symm
INVARIANTS LeasesDoNotOverlap
CHECK_DEADLOCK FALSE
