SPECIFICATION QueueSpec
CONSTANTS
  t1 = t1
  t2 = t2
  t3 = t3
  v1 = v1
  v2 = v2
  noValue = noValue
  Threads = {t1, t2, t3}
  Values = {v1, v2}
  NoValue = noValue
  Capacity = 2
  MaxPos = 4
INVARIANTS
  CellExclusive
  NoCellLost
PROPERTY ImplementsFifo
SYMMETRY QueueSymmetry
