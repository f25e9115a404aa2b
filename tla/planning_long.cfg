SPECIFICATION FairSpec
CONSTANTS
  phaseTransitionStanceTime = 1
  Gaits <- MCPace
  ExternalSchedules <- NoSchedules
  initModeSchedule <- MCInitial
  defaultTemplate <- MCDefault
  timeHorizon = 5
  StartTimes = {0, 9}
  ResetTimes = {0}
  Periods = {2}
  MaxTime = 12
INVARIANTS
  StandsBeforeFirstEvent
  HorizonIsPlanned
PROPERTIES
  ImplementsTimeline
  PastIsForgotten
  SwingInProgressIsKept
  CommittedHorizon
  GaitCommandServed
CHECK_DEADLOCK FALSE
