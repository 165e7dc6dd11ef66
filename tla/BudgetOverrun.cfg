SPECIFICATION Spec
CONSTANTS
    c1 = c1
    c2 = c2
    c3 = c3
    Calls = {c1, c2}
    Estimate <- MCMixed
    Usages = {3}
    CallLimit = 1
    TokenLimit = 4
    Ttl = 1
    MaxTime = 3
INVARIANTS SessionCallsBounded
CHECK_DEADLOCK FALSE
