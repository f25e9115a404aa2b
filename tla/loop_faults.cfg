SPECIFICATION Spec
CONSTANTS
  Wbc_control_frequency = 10
  Mpc_control_frequency = 3
  StateEstimate = FALSE
  MaxFreeRun = 2
  MaxTime = 10
  MaxLosses = 1
  MaxResets = 2
  MaxRelaunches = 1
INVARIANTS
  TypeOK
  LockStep
  FuturePolicyIsReplaced
PROPERTIES
  NoCommandSkipped
  LagAtMostOnePeriod
CHECK_DEADLOCK FALSE
