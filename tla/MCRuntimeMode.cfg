CONSTANTS
  o1 = o1
  o2 = o2
  Ops <- MCOps
  Artifacts <- MCNoArtifact
  MaxConcurrent = 1
  MaxClaims = 2
  MaxVersion = 3
SPECIFICATION ModeFairSpec
INVARIANTS
  UnfinishedInPresentMode
  LeftOverIsStuck
PROPERTIES
  SwitchEnds
