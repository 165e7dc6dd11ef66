SPECIFICATION Spec
CONSTANTS
    i1 = i1
    Items = {i1}
    Workers = {w1, w2}
    Clients = {c1}
    NoOwner = NoOwner
    NoItem = NoItem
    Priority <- MCPriority
    MaxAttempts <- MCMaxAttempts
    StopFiled <- MCStopFiled
    LeaseTime = 1
    MaxTime = 4
    Fts5 = TRUE
SYMMETRY Symm
PROPERTIES OnlyOwnerReports
CHECK_DEADLOCK FALSE
