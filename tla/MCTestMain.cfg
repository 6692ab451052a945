SPECIFICATION MainFairSpec
CONSTANTS
  Workers = {w1, w2}
  Clients = {main}
  Main = main
  Fibers = {f1, f2}
  Counters = {c1}
  NULL = NULL
  MaxJobs = 2
  FrameChain = TRUE
  RootPrio <- LowRoot
  ChildPrio <- FramePrio
INVARIANTS SomebodyDrains NothingLeftAtExit
PROPERTY ProgramExits
CHECK_DEADLOCK FALSE
