\* Three objects; the scripts may or may not ask for a lock while they hold
\* one, and nest up to two read locks when they do.
CONSTANTS
  Procs = {p1, p2, p3}
  MaxReads = 2
SPECIFICATION FairSpec
CHECK_DEADLOCK FALSE
INVARIANTS
  TypeOK
  Exclusion
  CountAgrees
  EventAgrees
PROPERTIES
  NoReaderOvertakes
  WriterAdmitted
  WriteMutexComesBack
