SPECIFICATION Spec
CONSTANTS
  Gaits = {trot}
  MaxGoals = 1
  MaxTime = 3
  MaxResets = 0
  MaxRelaunches = 0
INVARIANTS
  GoalStartsAtMeasuredPose
CHECK_DEADLOCK FALSE
