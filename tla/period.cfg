SPECIFICATION Spec
CONSTANTS
  timestep <- MCTimestep
  controlPeriod <- MCControlPeriod
  nominalSteps = 2
  MaxPeriods = 600
INVARIANTS
  TypeOK
  PeriodIsBounded
  LongPeriodsFollowResolution
CHECK_DEADLOCK FALSE
