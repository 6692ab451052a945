SPECIFICATION FairSpec
CONSTANTS
  NumThreads = 2
  Clients = {main, helper}
  Tasks = {t1, t2, t3}
  Counted = {t1, t2}
  NULL = NULL
  ActiveMod = 8
  InitialActive = {0, 7}
INVARIANTS TypeOK TaskHeldOnce StartDataAlive CounterCountsTasks ClosedIsQuiet
PROPERTIES ConstructorReturns NotifyReachesSleeper AwakeWorkerDrains DestructorReturnsOrMisses
CHECK_DEADLOCK FALSE
