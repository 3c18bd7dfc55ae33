CONSTANTS
  d1 = d1
  d2 = d2
  Exports <- MCExports
SPECIFICATION ExportSpec
INVARIANTS
  RestartLeavesNothingReady
