SPECIFICATION FairSpec
CONSTANTS
  Workers = {w1, w2}
  Clients = {main}
  Fibers = {f1, f2}
  Counters = {c1, c2}
  NULL = NULL
  MaxJobs = 3
  FrameChain = FALSE
  RootPrio <- LowRoot
  ChildPrio <- NotBelow
PROPERTIES JobsComplete ImplementsProgress
