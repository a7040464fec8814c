SPECIFICATION Spec
CONSTANTS
  Table = {t1, t2}
  Servers = {"overwrites", "ignores", "rejects"}
  Rejections = {"400", "409", "500"}
  Lossy = TRUE
  Interruptible = TRUE
  Killable = TRUE
  WritersPaused = TRUE
  MaxFaults = 2
  MaxCommits = 1
  MaxRuns = 2
INVARIANTS
  TypeOK
  ReportTruthful
  MissingIsReported
  NoLostCommit
PROPERTIES
  NoRegress
  ImplementsCatalogPointer
CHECK_DEADLOCK FALSE
