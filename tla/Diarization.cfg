CONSTANTS
  MsSamples = 16
  FrameMs = 80
  MelMs = 10
  GuardMs = 20
  CoreFrames = 6
  LeftFrames = 1
  RightFrames = 7
  QueueMax = 2
  ChunkSizes = {5127, 16969}
  MaxSamples = 40000
  SegmentEnds = {12800}
SPECIFICATION Spec
INVARIANTS RolesAreFinal EndedTimelineIsComplete WindowsAreWhole
PROPERTIES RolesStopForGood CallsReturnOrJam
CHECK_DEADLOCK FALSE
