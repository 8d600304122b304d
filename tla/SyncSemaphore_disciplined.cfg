\* Three objects that unlock what they locked, with a clock that may fail.
CONSTANTS
  Threads = {t1, t2, t3}
  MaxCount = 2
  NoThread = NoThread
  Disciplined = TRUE
  CountSize = 4
  ClockMayFail = TRUE
SPECIFICATION FairSpec
CHECK_DEADLOCK FALSE
INVARIANTS
  PermitsConserved
  OwnerInside
  NoLostWakeup
PROPERTIES
  ImplementsSemaphore
  SleeperServed
