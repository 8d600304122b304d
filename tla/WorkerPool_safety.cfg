\* Two pool threads on a ring of two blocks, three operations, shutdown at any time.
CONSTANTS
  main = main
  w1 = w1
  w2 = w2
  Main = main
  Workers <- TwoWorkers
  Threads <- TwoWorkersThreads
  Depth = 2
  MaxOps = 3
  MaxBatch = 2
  CanStop = TRUE
SPECIFICATION PoolSpec
SYMMETRY WorkerSymmetry
CHECK_DEADLOCK FALSE
INVARIANTS
  TokensConserved
  BlocksOwnedOnce
  NothingOverwritten
  CountTracksSlots
  HandledAtMostOnce
  OldestFirst
  FewLeftBehind
  NoMutualWait
