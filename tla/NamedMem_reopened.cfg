\* The last process may close the segment and others reopen it.
CONSTANTS
  Procs = {p1, p2, p3}
  NoProc = NoProc
  LastCloses = TRUE
  MaxCrashes = 0
SPECIFICATION Spec
CHECK_DEADLOCK FALSE
INVARIANT OpenMeansInitialised
