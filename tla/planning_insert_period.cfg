SPECIFICATION Spec
CONSTANTS
  phaseTransitionStanceTime = 2
  Gaits <- MCGaits
  ExternalSchedules <- NoSchedules
  initModeSchedule <- MCInitial
  defaultTemplate <- MCDefault
  timeHorizon = 5
  StartTimes = {0, 3}
  ResetTimes = {}
  Periods = {1, 2}
  MaxTime = 7
PROPERTIES
  InsertPeriodOrdered
CHECK_DEADLOCK FALSE
