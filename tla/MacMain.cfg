SPECIFICATION FairSpec
CONSTANTS
  Threads = {1}
  Desktop = TRUE
  MaxVersion = 2
  FixedDelta = 2
  MaxDelta = 5
  Elapsed = {1, 3, 9}
INVARIANTS FixedKeepsUp FrameShowsClaimed
PROPERTIES LatestStateClaimed CloseReturns
