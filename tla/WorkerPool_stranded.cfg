\* Two pool threads that are never stopped, and a ring that never fills.
CONSTANTS
  main = main
  w1 = w1
  w2 = w2
  Main = main
  Workers <- TwoWorkers
  Threads <- TwoWorkersThreads
  Depth = 4
  MaxOps = 3
  MaxBatch = 2
  CanStop = FALSE
SPECIFICATION PoolFairSpec
CHECK_DEADLOCK FALSE
PROPERTY EveryOpHandled
