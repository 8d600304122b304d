\* The last process never closes the segment; two processes may be killed.
CONSTANTS
  Procs = {p1, p2, p3, p4}
  NoProc = NoProc
  LastCloses = FALSE
  MaxCrashes = 2
SPECIFICATION Spec
SYMMETRY ProcSymmetry
CHECK_DEADLOCK FALSE
INVARIANTS
  OpenMeansInitialised
  NeverRebuiltInUse
  RefsCoverUsers
