CONSTANTS
  o1 = o1
  o2 = o2
  r1 = r1
  r2 = r2
  Ops <- MCOps
  Artifacts <- MCNoArtifact
  MaxConcurrent = 1
  MaxClaims = 1
SPECIFICATION FairSpec
PROPERTIES
  StartedWorkerSettles
  CancelSettles
