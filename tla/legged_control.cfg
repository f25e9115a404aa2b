SPECIFICATION FairSpec
CONSTANTS
  Wbc_control_frequency = 6
  Mpc_control_frequency = 2
  StateEstimate = TRUE
  Gaits <- MCGaits
  initModeSchedule <- MCInitial
  defaultTemplate <- MCDefault
  timeHorizon = 3
  phaseTransitionStanceTime = 1
  MaxFreeRun = 0
  MaxTime = 12
  MaxGoals = 1
  MaxLosses = 0
  MaxResets = 0
  MaxRelaunches = 0
INVARIANTS
  PolicyCoversObservation
PROPERTIES
  ImplementsPlanning
  ModesFollowEachOther
  GaitIsAdopted
  GoalIsTracked
CHECK_DEADLOCK FALSE
