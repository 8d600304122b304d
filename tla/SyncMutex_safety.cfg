\* Three threads and two objects opened on one name.
CONSTANTS
  Threads = {t1, t2, t3}
  Objects = {o1, o2}
  None = None
  MaxDepth = 2
SPECIFICATION Spec
SYMMETRY MutexSymmetry
CHECK_DEADLOCK FALSE
INVARIANTS
  OneOwner
  DepthAgrees
  SemaphoreAccounts
PROPERTY OnlyOwnerLeaves
