SPECIFICATION SessionSpec
CONSTANTS
  \* pcat
  Chunk = 2
  PipeSize = 2
  Missing = Missing
  Inputs <- AnyFiles
  \* cat
  CatChunk = 3
  NoFile = Missing
  CatInputs <- AnyFiles
  \* mywc
  WcChunk = 2
  WcRoom = 3
  WcLimit = 4
  \* final_task
  Room = 4
  \* cp and cp_mmap
  CpChunk = 2
  Name = {"a", "b", "d"}
  Trees <- AnyTrees
  Orders <- AnyOrders
  \* myshell
  SHELL_PIPE_MAX = 3
  SHELL_ARG_MAX = 4
  ShFeed = 2
  ShRoom = 1
  ShLines <- RedirectedLines
INVARIANT OnlyFirstTakesInput
