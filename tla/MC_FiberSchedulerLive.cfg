SPECIFICATION FairSpec
CONSTANTS
  a = a
  b = b
  c = c
  f1 = f1
  f2 = f2
  NoJob = NoJob
  Jobs = {a, b, c}
  Fibers = {f1, f2}
  Priority <- JobPriority
  Edges <- JoinEdges
  WaitsOn <- BWaitsForA
  QueueCapacity = 4
  EarlyReset = FALSE
  EarlyShutdown = FALSE
  MaxInflight = 4
  MaxRounds = 0
PROPERTIES
  DueJobsFinish
  WaitAllReturns
  ShutdownReturns
