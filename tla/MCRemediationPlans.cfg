SPECIFICATION FairSpec
CONSTANTS
    Plans = {p1, p2}
    Keys = {k1, k2}
    Filters = {f1, f2}
    MaxJobs = 2
    MaxInflight = 2
    MaxRecoveries = 1
    Pages = 2
    Cuts = {"publish", "expiry", "temp"}
    MaxRevision = 1
    MaxRestarts = 2
CHECK_DEADLOCK FALSE
INVARIANTS
    PlansHold
PROPERTIES
    CancellationWins
    RunningEnds
