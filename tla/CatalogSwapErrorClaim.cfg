SPECIFICATION Spec
CONSTANTS
  Table = {t1}
  Servers = {"ignores", "overwrites"}
  Rejections = {"500"}
  Lossy = TRUE
  Interruptible = FALSE
  Killable = FALSE
  WritersPaused = TRUE
  MaxFaults = 1
  MaxCommits = 0
  MaxRuns = 1
INVARIANT ErrorRestoresPointer
CHECK_DEADLOCK FALSE
