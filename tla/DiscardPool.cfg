SPECIFICATION Spec
CONSTANTS
  FrameCount = 2
  CheckEveryNFrames = 2
  MaxDiscarded = 1
  SpscCapacity = 2
  MaxTimeline = 4
  MaxItems = 9
INVARIANTS TagsSorted ReleasedUnused DestroyOrder OwnedOnce CommandBufferIdle
