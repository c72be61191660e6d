SPECIFICATION Spec
CONSTANTS
    o1 = o1
    o2 = o2
    archive = archive
    sbom = sbom
    Jobs = {j1, j2}
    Projects = {archive}
    SbomProjects = {sbom}
    Owners = {o1, o2}
    OwnerOf <- MCOwnerOf
    NoProject = NoProject
    NoJob = NoJob
    MaxConcurrency = 1
    MaxInflight = 2
    MaxInflightPerOwner = 1
    MaxRestarts = 2
CHECK_DEADLOCK FALSE
INVARIANTS
    NoOrphanWorkspace
    InflightHasTask
    RunnerCalledOnce
    AdmissionBound
PROPERTIES
    InflightEnds
