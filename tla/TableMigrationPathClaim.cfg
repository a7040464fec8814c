SPECIFICATION Spec
CONSTANTS
  Key <- MCKey
  Tables <- ForeignEntriesOnly
  Exact = 8
  CopyFresh = FALSE
  WritersPaused = TRUE
  MaxFaults = 0
  MaxRuns = 1
  MaxDryRuns = 0
INVARIANT NothingLeftBehind
CHECK_DEADLOCK FALSE
