SPECIFICATION Spec
CONSTANTS
  Wrenches = {w1, w2}
  Screws = {s1, s2}
  n = 2
INVARIANT OneRefill
PROPERTIES RefinesWorkshop EndsUnlessUnmanned
CHECK_DEADLOCK FALSE
