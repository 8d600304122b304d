\* Manual and auto events, with and without deadlines.
CONSTANTS
  Threads = {t1, t2, t3}
  NoThread = NoThread
  Manuals = {TRUE, FALSE}
  KindSets <- AllKindSets
  MaxFires = 3
SPECIFICATION Spec
CHECK_DEADLOCK FALSE
SYMMETRY ThreadSymmetry
INVARIANTS
  TypeOK
  WaitingCounts
  ManualWakesAll
  OnePassPerFire
  SignalNotStranded
