SPECIFICATION FairSpec
CONSTANTS
  Threads = {1, 2}
  Desktop = FALSE
  MaxVersion = 0
  FixedDelta = 2
  MaxDelta = 5
  Elapsed = {0}
  MaxPolls = 2
INVARIANTS DestroyedAlone AckMeansExit StopHeeded
PROPERTIES DestroyEnds SurfaceRegained
