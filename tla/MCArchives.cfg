SPECIFICATION ArchivesSpec
CONSTANTS
    c1 = c1
    c2 = c2
    Nobody = Nobody
    Callers <- MCCallers
    Workloads <- MCWorkloads
    MaxEntries = 3
    MaxFiles = 2
    MaxFileBytes = 2
    MaxTotalBytes = 3
    MaxDeclared = 4
    MaxListed = 2
    Profiles <- MCProfiles
    ArchivesOf <- MCArchivesOf
INVARIANTS
    SourceContained
    
    
PROPERTIES
    RequestsEnd
