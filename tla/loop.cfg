SPECIFICATION FairSpec
CONSTANTS
  Wbc_control_frequency = 9
  Mpc_control_frequency = 3
  StateEstimate = TRUE
  MaxFreeRun = 3
  MaxTime = 14
  MaxLosses = 1
  MaxResets = 0
  MaxRelaunches = 0
INVARIANTS
  MpcKeepsItsRate
  PolicyBeforeCommand
PROPERTIES
  NoMeasurementSkipped
  SolverRunsAreSpaced
  ImplementsSampledControl
  StartedLoopRuns
  StallIsForEver
CHECK_DEADLOCK FALSE
