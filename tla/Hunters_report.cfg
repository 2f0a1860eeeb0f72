SPECIFICATION Spec
CONSTANTS
  N = 3
  M = 3
PROPERTY ReportsHonestly
CHECK_DEADLOCK FALSE
