SPECIFICATION FairSpec
CONSTANTS
  Threads = {t1, t2, t3}
  Values = {v1, v2}
  NULL = NULL
  MaxLength = 2
PROPERTIES ImplementsFifo CallsReturn
