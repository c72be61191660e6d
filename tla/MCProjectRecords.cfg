SPECIFICATION Spec
CONSTANTS
    f1 = f1
    d1 = d1
    d2 = d2
    Files = {f1, f2, f3}
    Contents = {d1, d2}
    Digest <- MCDigest
    Keys = {k1}
    Commits = {c1}
    Jobs = {j1, j2}
    NoFile = NoFile
    NoCommit = NoCommit
    NoJob = NoJob
    MaxSnapshots = 2
    Traces = {"decisions"}
    MaxRefreshes = 1
    MaxRestarts = 1
CHECK_DEADLOCK FALSE
SYMMETRY RecordSymmetry
INVARIANTS
    AdmissionsHold
    DeletionHolds
PROPERTIES
    HistoryKept
