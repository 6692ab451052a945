SPECIFICATION AllocatorSpec
CONSTANTS
  Keys = {k, o}
  Key = k
  Threads = {t1, t2}
  Blocks = {b1, b2, b3}
  Nobody = Nobody
  NumFree = 0
  MaxFree = 2
  BlockSize = 2
  MaxCalls = 3
  MaxEntries = 2
  NULL = NULL
SYMMETRY Symmetry
INVARIANTS AllocatorTypeOK BlockHeldOnce FootprintWithinPeak ExtentsPrivate BlocksPrivate
PROPERTIES ImplementsBlockStore SettledStays
CHECK_DEADLOCK FALSE
