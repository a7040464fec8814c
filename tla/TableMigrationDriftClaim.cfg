SPECIFICATION Spec
CONSTANTS
  Key <- MCKey
  Tables <- BusyOnly
  Exact = 8
  CopyFresh = FALSE
  WritersPaused = FALSE
  MaxFaults = 0
  MaxRuns = 2
  MaxDryRuns = 0
PROPERTY RerunRecovers
CHECK_DEADLOCK FALSE
