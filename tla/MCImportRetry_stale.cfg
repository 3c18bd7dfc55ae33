CONSTANTS
  o1 = o1
  o2 = o2
  Ops <- MCOps
  Artifacts <- MCNoArtifact
  MaxConcurrent = 1
  MaxClaims = 1
  MaxVersion = 3
SPECIFICATION RetrySpec
PROPERTIES
  PreparedRetryCanStart
