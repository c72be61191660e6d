SPECIFICATION DecisionsSpec
CONSTANTS
    None = None
    Findings = {1, 2}
    ProjectOf <- MCProjectOf
    Batches <- MCBatches
    Statuses = {"accepted", "in_review"}
    MaxPerFinding = 3
    MaxDecisions = 3
    MaxStops = 1
CHECK_DEADLOCK FALSE
INVARIANTS
    DeletionResumes
