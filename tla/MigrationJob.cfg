SPECIFICATION Spec
CONSTANTS
  Table = {t1, t2}
  NoTable = none
  BackoffLimit = 4
  MaxFaults = 2
INVARIANTS
  ExitHonest
  JobRebasesAll
PROPERTY OthersGetThere
CHECK_DEADLOCK FALSE
