SPECIFICATION Spec
CONSTANTS
  Workers = {w1, w2}
  Clients = {main}
  Fibers = {f1, f2, f3}
  Counters = {c1, c2, c3}
  NULL = NULL
  MaxJobs = 4
  FrameChain = FALSE
  RootPrio <- LowRoot
  ChildPrio <- AnyChild
SYMMETRY Symmetry
INVARIANTS TypeOK HeldOnce NeitherLostNorDangling ThreadLocalsAgree CounterCountsJobs
PROPERTIES JoinIsSound ImplementsForkJoin
