SPECIFICATION Spec
CONSTANTS
    c1 = c1
    c2 = c2
    c3 = c3
    Calls = {c1, c2}
    Estimate <- MCMixed
    Usages = {0, 3}
    CallLimit = 2
    TokenLimit = 2
    Ttl = 1
    MaxTime = 3
INVARIANTS TokensInTimeBounded
CHECK_DEADLOCK FALSE
