SPECIFICATION Spec
CONSTANTS
    o1 = o1
    a1 = a1
    c1 = c1
    Jobs = {j1, j2}
    Assets = {a1}
    Capabilities = {c1}
    Orgs = {o1}
    OrgOf <- MCOrgOf
    Recurrences = {r1}
    AssetOf <- MCAssetOf
    CapabilityOf <- MCCapabilityOf
    NoJob = NoJob
    NoRec = NoRec
    MaxActive = 2
    MaxPerOrg = 2
    MaxPerAsset = 2
    MaxPerCapability = 2
    MaxRevision = 2
    MaxOccurrence = 2
    MaxRestarts = 1
CHECK_DEADLOCK FALSE
INVARIANTS
    ContactedOnce
    OccurrenceRunsOnce
PROPERTIES
    DispatchOnlyArmed
    InflightEnds
