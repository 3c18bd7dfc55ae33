CONSTANTS
  o1 = o1
  o2 = o2
  r1 = r1
  r2 = r2
  Ops <- MCOps
  Artifacts <- MCOneArtifact
  MaxConcurrent = 1
  MaxClaims = 2
SPECIFICATION Spec
SYMMETRY MCSymmetry
INVARIANTS
  TypeOK
  WorkerOwnsOperation
  LiveTaskIsRegistered
  ExecutingHasWorker
  CancelReachesWorker
  CountsMatchRows
  TerminalArtifactsSettled
PROPERTIES
  WorkspaceNotPulled
  ReadySurvivesRestart
  RestartSettles
  ImplementsLifecycle
