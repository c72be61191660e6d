SPECIFICATION DataSpec
CONSTANTS
    None = None
    Org = "A"
    Seeds <- MCSeeds
    Capacity = 2
    MaxEvents = 2
    MaxCutoff = 2
    MaxFaults = 2
    Kinds = {"jobs", "projects", "files", "verifications", "recurrences"}
    Values <- MCValues
    Reader = "A"
    PageSize = 1
    MaxWrites = 5
    MaxIndexFaults = 2
    Findings = {1, 2}
    ProjectOf <- MCProjectOf
    Batches <- MCBatches
    Statuses = {"accepted", "in_review"}
    MaxPerFinding = 3
    MaxDecisions = 3
    MaxStops = 2
    Names = {"admin", "cal"}
    Subjects = {"s1", "s2"}
    Projects = {"p1"}
    Assets = {"a1"}
    OrgOf <- MCOrgOf
    Accounts <- MCAccounts
    Members <- MCMembers
    Responsibles <- MCResponsibles
    Owners <- MCOwners
    Federated <- MCFederated
    AssignedRoles = {"administrator", "maintainer"}
    MaxUsers = 3
    MaxOrgs = 3
    MaxSessions = 1
    MaxRequests = 2
    MaxRevisions = 1
    MaxChanges = 2
    MaxAccessFaults = 1
    Clients = {"c1", "c2", "c3"}
    Tokens = {"t1", "t2"}
    Grants = {"g1", "g2"}
    Window = 2
    Threshold = 2
    Lockout = 3
    MaxKeys = 2
    RateWindow = 2
    RateLimit = 2
    MaxActiveTokens = 1
    MaxActiveGrants = 1
    Lifetime = 4
    MaxTime = 5
    MaxImports = 2
CHECK_DEADLOCK FALSE
INVARIANTS
    
    
    RestoredIsFaithful
    LedgerIsHistory
    IndexesAnswer
    DecisionsHold
    AccessHolds
    
