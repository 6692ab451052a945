SPECIFICATION Spec
CONSTANTS
  Jobs = {j1, j2, j3}
  Main = Main
  Workers = {w1}
  Blocks = {b1, b2, b3}
  MaxFree = 1
  FramesToTrack = 2
  FrameMod = 4
  CountersPerBlock = 2
  Leaves = 1
  MaxFrame = 4
  NULL = NULL
SYMMETRY Symmetry
INVARIANT FrameIsValid
CHECK_DEADLOCK FALSE
