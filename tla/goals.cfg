SPECIFICATION Spec
CONSTANTS
  Gaits = {trot}
  MaxGoals = 3
  MaxTime = 3
  MaxResets = 1
  MaxRelaunches = 1
INVARIANTS
  TypeOK
  
PROPERTIES
  GoalFromFreshObservation
  ImplementsGoalRegister
CHECK_DEADLOCK FALSE
