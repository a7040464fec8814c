SPECIFICATION Spec
CONSTANTS
  Table = {t1, t2}
  NoTable = none
  BackoffLimit = 3
  MaxFaults = 0
INVARIANTS
  JobSucceededMeansValidated
CHECK_DEADLOCK FALSE
