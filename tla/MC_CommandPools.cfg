SPECIFICATION Spec
CONSTANTS
  r = r
  u = u
  Threads = {r, u}
  NoThread = NoThread
  Capacity = 3
  Wrap = 6
  ShutdownAlone = TRUE
  MaxPools = 3
  MaxStorages = 3
SYMMETRY ThreadSymmetry
INVARIANTS
  OwnedOnce
  CacheKnowsActive
  StorageAlive
PROPERTY
  RingIsFifo
