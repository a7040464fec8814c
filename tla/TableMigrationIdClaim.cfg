SPECIFICATION Spec
CONSTANTS
  Key <- MCKey
  Tables <- LargeIds
  Exact = 8
  CopyFresh = FALSE
  WritersPaused = TRUE
  MaxFaults = 0
  MaxRuns = 1
  MaxDryRuns = 0
PROPERTY SnapshotIdsPreserved
CHECK_DEADLOCK FALSE
