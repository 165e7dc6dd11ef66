SPECIFICATION ESpec
CONSTANTS
    p = p
    q = q
    x = x
    y = y
    implement = implement
    cmd = cmd
    desk = desk
    k1 = k1
    k2 = k2
    Paths = {p, q}
    Contents = {x, y}
    Absent = Absent
    Actors = {c1, c2, k1, k2, g1, g2}
    Checkers = {c1, c2}
    Calls = {c1, c2}
    Workers = {k1, k2}
    Appliers = {g1, g2}
    Fingerprints <- MCFingerprints
    NoId = NoId
    UnknownId = UnknownId
    MaxTime = 2
    Invocations = {implement, cmd, desk}
    Writes <- MCWrites
    Named <- MCNamed
    Guarded = {desk}
    Expiries = {0, 1, 2}
    Candidates <- MCCandidates
    MaxRounds = 2
    Scenarios <- MCScenarios
SYMMETRY MCSymmetry
INVARIANTS ETypeOK RunsWhatWasApproved LoopAllOrNothing RestoringUndoes RollbackLeavesProject ApplyDeliversRepair
CHECK_DEADLOCK FALSE
