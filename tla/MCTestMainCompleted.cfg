SPECIFICATION MainSpec
CONSTANTS
  Workers = {w1, w2}
  Clients = {main}
  Main = main
  Fibers = {f1, f2}
  Counters = {c1, c2}
  NULL = NULL
  MaxJobs = 3
  FrameChain = TRUE
  RootPrio <- LowRoot
  ChildPrio <- FramePrio
SYMMETRY Symmetry
INVARIANT AllTestsCompleted
CHECK_DEADLOCK FALSE
