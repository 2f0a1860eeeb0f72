SPECIFICATION Spec
CONSTANTS
  N = 3
  M = 3
INVARIANTS StartLedger HuntIsOver DinnerLedger
PROPERTIES HungryBringNothing RefinesTribe EndsUnlessStarved
CHECK_DEADLOCK FALSE
