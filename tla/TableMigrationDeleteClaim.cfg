SPECIFICATION Spec
CONSTANTS
  Key <- MCKey
  Tables <- DeleteOutsideOnly
  Exact = 8
  CopyFresh = FALSE
  WritersPaused = TRUE
  MaxFaults = 0
  MaxRuns = 1
  MaxDryRuns = 0
PROPERTY ReadersSeeTheTable
CHECK_DEADLOCK FALSE
