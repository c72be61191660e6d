SPECIFICATION Spec
CHECK_DEADLOCK FALSE
CONSTANTS
  Owners = {a, b}
  Watched = {a}
  Nobody = Nobody
  Retained <- MCRetained
  Analyses <- MCAnalyses
  Findings = {"f"}
  Severe = {"f"}
  Exploited = {"f"}
  Ecosystem <- MCEcosystem
  SampleSize = 1
  MaxPasses = 2
  MaxWrites = 2
  MaxRequests = 1
  MaxFaults = 1

  
PROPERTIES
  
  RebuildEnds
