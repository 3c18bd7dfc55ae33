CONSTANTS
  k1 = k1  k2 = k2  i1 = i1
  FirstKey = k1
  Stranger = Stranger  ByHand = ByHand  NoKey = NoKey
  OwnKeys <- MCOwnKeys
  Previews <- MCPreviews
  MaxTrusted = 2
  p1 = p1  p2 = p2  a = a  b = b  o1 = o1  l1 = l1
  Default = Default  Nowhere = Nowhere
  ProfileIds <- MCProfileIds
  Addresses <- MCAddresses
  Bindables <- MCBindables
  LegacyBound <- MCLegacyBound
  m1 = m1  m2 = m2
  Ops <- MCOps
  Artifacts <- MCNoArtifact
  MaxConcurrent = 1
  MaxClaims = 1
  MaxVersion = 3
  Patchers <- MCPatchers
  Patches <- MCPatches
  Environments <- MCEnvironments
  MaxRevision = 2
  ClientAddress = ClientAddress
  HandlerIds <- MCProfileIds
  People <- MCAddresses
  MaxFailures <- MCStrict
  Window = 1
  Lockout = 2
  Lifetime = 1
  MaxTime = 2
SYMMETRY MCSymmetry
SPECIFICATION AdministrationSpec
CHECK_DEADLOCK FALSE
INVARIANTS
  TrustIsGenuine
  PreparedIsTrusted
  ClientIsBound
  ProfilesAgree
  WorkerRunsInItsMode
  PolicyIsConsistent
  PlanNamesItsPolicy
PROPERTY LockOutlasts
