SPECIFICATION Spec
CONSTANTS
  Men = {m1, m2}
  Women = {w1, w2, w3}
  N = 2
INVARIANTS RoomTruth Barrier CleanAtEnd
PROPERTIES RefinesBathhouse Termination
