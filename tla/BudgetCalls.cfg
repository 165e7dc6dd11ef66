SPECIFICATION Spec
CONSTANTS
    c1 = c1
    c2 = c2
    c3 = c3
    Calls = {c1, c2}
    Estimate <- MCMixed
    Usages = {3}
    CallLimit = 1
    TokenLimit = 2
    Ttl = 1
    MaxTime = 3
INVARIANTS TypeOK CallsInTimeBounded BilledOnce
PROPERTIES FinalStaysFinal ImplementsCallBudget
CHECK_DEADLOCK FALSE
