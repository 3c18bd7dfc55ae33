CONSTANTS
  o1 = o1
  r1 = r1
  r2 = r2
  None = None
  Absent = Absent
  Foreign = Foreign
  Imports <- MCImports
  Refs <- MCRefs
  Contested <- MCContested
  Mappings <- MCMappings
  ArtifactCount = 2
  Charts = {2}
  MaxRunning = 1
  MaxPlans = 2
SPECIFICATION ExecutionSpec
CHECK_DEADLOCK FALSE
INVARIANT RunsAsConfirmed
