SPECIFICATION Spec
CONSTANTS
  a = a
  b = b
  c = c
  f1 = f1
  f2 = f2
  NoJob = NoJob
  Jobs = {a, b, c}
  Fibers = {f1, f2}
  Priority <- SharedPriority
  Edges <- AllEdges
  WaitsOn <- NoWaits
  QueueCapacity = 2
  EarlyReset = FALSE
  EarlyShutdown = TRUE
  MaxInflight = 4
  MaxRounds = 1
SYMMETRY FiberSymmetry
INVARIANTS
  DependencyOrder
  RunsOnce
  WaitAllSound
  ShutdownKeepsContinuations
  InflightCovers
