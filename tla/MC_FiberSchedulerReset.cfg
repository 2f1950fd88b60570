SPECIFICATION Spec
CONSTANTS
  a = a
  b = b
  c = c
  f1 = f1
  f2 = f2
  NoJob = NoJob
  Jobs = {a, b, c}
  Fibers = {f1, f2}
  Priority <- SharedPriority
  Edges <- JoinEdges
  WaitsOn <- NoWaits
  QueueCapacity = 4
  EarlyReset = TRUE
  EarlyShutdown = FALSE
  MaxInflight = 4
  MaxRounds = 0
PROPERTY ResetClearsOnlyRead
