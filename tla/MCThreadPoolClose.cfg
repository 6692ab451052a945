SPECIFICATION FairSpec
CONSTANTS
  NumThreads = 2
  Clients = {main}
  Tasks = {t1}
  Counted = {}
  NULL = NULL
  ActiveMod = 8
  InitialActive = {0}
PROPERTIES DestructorReturns
CHECK_DEADLOCK FALSE
