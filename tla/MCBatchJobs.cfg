SPECIFICATION Spec
CONSTANTS
  Workers = {w1, w2}
  Arrays = {a1, a2}
  Counts = {1, 3}
  MaxCount = 3
  MaxBatches = 3
  NULL = NULL
INVARIANT OnlyArraysAreMisused
PROPERTY JoinIsSound
CHECK_DEADLOCK FALSE
