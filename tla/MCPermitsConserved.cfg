SPECIFICATION Spec
CONSTANTS
    o1 = o1
    o2 = o2
    archive = archive
    sbom = sbom
    Jobs = {j1, j2}
    Projects = {archive}
    SbomProjects = {}
    Owners = {o1, o2}
    OwnerOf <- MCOwnerOf
    NoProject = NoProject
    NoJob = NoJob
    MaxConcurrency = 1
    MaxInflight = 2
    MaxInflightPerOwner = 1
    MaxRestarts = 1
CHECK_DEADLOCK FALSE
INVARIANT PermitsConserved
