CONSTANTS
  q1 = q1  q2 = q2
  Requests <- MCRequests
  Deliveries <- MCDeliveries
  Bad <- MCBad
  MaxPreviews = 2
  o1 = o1  r1 = r1  r2 = r2
  None = None  Absent = Absent  Foreign = Foreign
  Imports <- MCImports
  Refs <- MCRefs
  Contested <- MCContested
  Charts <- MCCharts
  Mappings <- MCMappings
  ArtifactCount = 2
  MaxRunning = 1
  MaxPlans = 2
  e1 = e1  e2 = e2
  Exports <- MCExports
  i1 = i1  ch = ch  stray = stray  img = img  chart = chart
  x = x  y = y  k1 = k1  k2 = k2  d1 = d1  d2 = d2
  NoRoot = NoRoot  NoRecord = NoRecord
  Parcels <- MCParcels
  SigningKeys <- MCSigningKeys
  Paths <- MCPaths
  Roots <- MCRoots
  RootOf <- MCRootOf
  ChartRoots <- MCChartRoots
  Bytes <- MCBytes
  Payloads <- MCPayloads
  MaxDamages = 2
  c1 = c1  c2 = c2  ra = ra  rb = rb  j1 = j1  j2 = j2
  Importers <- MCImporters
  Bodies <- MCBodies
  Wraps <- MCWraps
  Repos <- MCRepos
  SharedRepos <- MCSharedRepos
  SourceRepo = rb
  MaxImports = 2
  Nobody = Nobody
SYMMETRY MCSymmetry
SPECIFICATION TransfersSpec
CHECK_DEADLOCK FALSE
INVARIANTS
  OneImportPerDelivery
  WorkerHasBundle
  ReadyIsPrepared
  ExecutesAgreedPlan
  VerifiedAreDistinct
  CompletedIsProven
  CompletedIsPublished
  EndedLeavesNothing
  ReadinessImpliesArchive
  ImageCarriesSelection
  ImportIsReplayable
  AcceptedIsBuilt
  UnpackedIsWhole
PROPERTIES
  ReceiptIsFinal
  ForeignDeliveryStays
