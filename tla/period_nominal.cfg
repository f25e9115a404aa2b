SPECIFICATION Spec
CONSTANTS
  timestep <- MCTimestep
  controlPeriod <- MCControlPeriod
  nominalSteps = 2
  MaxPeriods = 600
INVARIANTS
  PeriodIsNominal
CHECK_DEADLOCK FALSE
