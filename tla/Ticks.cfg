SPECIFICATION Spec
CONSTANTS
  Procs = {p, q}
  NULL = NULL
  W = 3
  SleepArgs <- SleepValues
  UsleepArgs = {999, 1000}
  Lag = 1
INVARIANTS KilledLeavesSoon
PROPERTIES SleepsAsAsked
CHECK_DEADLOCK FALSE
