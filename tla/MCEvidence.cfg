SPECIFICATION Spec
CONSTANTS
    NoRoot = NoRoot
    None = None
    Sources <- MCSources
    Graphs <- MCGraphs
    Policies <- MCPolicies
    ScopedNames <- MCScopedNames
    MaxGraphs = 2
    MaxSaves = 1
    Components <- MCComponents
    Secondary <- MCSecondary
    Slots = {s1, s2}
    BatchSize = 1
    Ttl = 0
    Retention = 1
    Threshold = 1
    Cooldown = 1
    Validity = 1
    Permits = 1
    MaxRetries = 1
    MaxPages = 2
    MaxNow = 3
    MaxRequests = 3
    MaxUpsets = 1
SYMMETRY SlotSymmetry
CHECK_DEADLOCK FALSE
INVARIANTS
    
    EvidenceMatchesInventory
    NoFalseClean

    
