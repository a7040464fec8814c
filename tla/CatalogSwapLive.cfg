SPECIFICATION Spec
CONSTANTS
  Table = {t1, t2}
  Servers = {"overwrites", "ignores", "rejects"}
  Rejections = {"400", "409", "500"}
  Lossy = FALSE
  Interruptible = TRUE
  Killable = FALSE
  WritersPaused = TRUE
  MaxFaults = 1
  MaxCommits = 1
  MaxRuns = 2
PROPERTY DropWindowCloses
CHECK_DEADLOCK FALSE
