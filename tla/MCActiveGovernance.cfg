SPECIFICATION Spec
CONSTANTS
  Actors = {"bob"}
  Admins = {"bob", "eve"}
  Assets = {"x", "y", "z"}
  Batch = {"x", "y"}
  Exercised = {"z"}
  Ident <- MCIdent
  Approvals = {"p1"}
  Challenges = {"c1", "c2"}
  Remote = {"c1"}
  None = None
  MaxRev = 2
  MaxNow = 1
  MaxFaults = 1
  Ttl = 1
  Retention = 0
CHECK_DEADLOCK FALSE
INVARIANTS
    FourEyesOnce
    
PROPERTIES
    NothingUndone
