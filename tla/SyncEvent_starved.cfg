\* An auto event whose waiters may have deadlines.
CONSTANTS
  Threads = {t1, t2, t3}
  NoThread = NoThread
  Manuals = {FALSE}
  KindSets <- MethodKinds
  MaxFires = 2
SPECIFICATION FairSpec
CHECK_DEADLOCK FALSE
PROPERTY SleeperNotStarved
