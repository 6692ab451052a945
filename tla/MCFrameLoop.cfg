SPECIFICATION FairSpec
CONSTANTS
  Jobs = {j1, j2, j3, j4}
  Main = Main
  Workers = {w1}
  Blocks = {b1, b2}
  MaxFree = 1
  FramesToTrack = 2
  FrameMod = 8
  CountersPerBlock = 1
  Leaves = 2
  MaxFrame = 2
  NULL = NULL
INVARIANTS TypeOK CountersSound MemoryReturned ActiveFrameIsOwn
PROPERTIES DeltaTimeFromFrameBefore FlipAfterJobs FramesFinish
CHECK_DEADLOCK FALSE
