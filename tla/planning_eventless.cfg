SPECIFICATION Spec
CONSTANTS
  phaseTransitionStanceTime = 2
  Gaits <- MCGaits
  ExternalSchedules <- MCEventless
  initModeSchedule <- MCInitial
  defaultTemplate <- MCDefault
  timeHorizon = 5
  StartTimes = {0, 3}
  ResetTimes = {}
  Periods = {1, 2}
  MaxTime = 7
INVARIANTS
  NeverFails
CHECK_DEADLOCK FALSE
