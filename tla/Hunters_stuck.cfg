SPECIFICATION Spec
CONSTANTS
  N = 3
  M = 3
PROPERTY DayEnds
CHECK_DEADLOCK FALSE
