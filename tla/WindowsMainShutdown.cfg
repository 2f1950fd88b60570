SPECIFICATION Spec
CONSTANTS
  Threads = {t1}
  Desktop = TRUE
  MaxVersion = 1
  FixedDelta = 2
  MaxDelta = 5
  Elapsed = {0}
  MaxRequests = 2
INVARIANT ShutdownHeard
