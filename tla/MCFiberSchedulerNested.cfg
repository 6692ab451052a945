SPECIFICATION FairSpec
CONSTANTS
  Workers = {w1}
  Clients = {main}
  Fibers = {f1, f2, f3}
  Counters = {c1, c2}
  NULL = NULL
  MaxJobs = 3
  FrameChain = FALSE
  RootPrio <- LowRoot
  ChildPrio <- NotBelow
PROPERTY WaitsEnd
