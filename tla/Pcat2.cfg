SPECIFICATION Spec
CONSTANTS
  Missing = Missing
  Chunk = 2
  Inputs <- AnyFiles
INVARIANT NothingLostOnTheWay
PROPERTIES RefinesCat Termination
