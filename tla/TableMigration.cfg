SPECIFICATION Spec
CONSTANTS
  Key <- MCKey
  Tables <- AllTables
  Exact = 8
  CopyFresh = TRUE
  WritersPaused = TRUE
  MaxFaults = 2
  MaxRuns = 5
  MaxDryRuns = 1
INVARIANTS
  TypeOK
  NothingLeftBehind
  NeverHalfRebased
  
PROPERTIES
  ReadersSeeTheTable
  SourceUntouched
  DryRunPredicts
  AlarmsAreReal
  
CHECK_DEADLOCK FALSE
