--------------------------- MODULE SyncMutexProofs ---------------------------
(***************************************************************************)
(* Proofs about SyncMutex for any number of threads, of objects opened on  *)
(* one name and of recursion levels.                                       *)
(***************************************************************************)
EXTENDS SyncMutex, TLAPS

(* A thread inside a critical section holds the one of its object.         *)
CritInv ==
  /\ \A t \in Threads : pc[t] # "idle" => obj[t] \in Objects
  /\ \A t \in Threads : pc[t] \in {"lcheck", "lset", "ucheck"} => crit[obj[t]] = t
  /\ \A t \in Threads : pc[t] \in {"lcrit", "lcheck"} => entered[t][obj[t]] < MaxDepth

(* A thread that took the semaphore and has not recorded itself is alone:  *)
(* no other is in the same place and no object is owned.                   *)
PendingInv ==
  \A t \in Threads : pc[t] \in {"lown", "lset"} =>
    /\ \A u \in Threads : pc[u] \in {"lown", "lset"} => u = t
    /\ \A o \in Objects : ownerId[o] = None

(* The inductive invariant.                                                *)
IInv == TypeOK /\ CritInv /\ PendingInv /\ OneOwner /\ DepthAgrees /\ SemaphoreAccounts

(* The initial state satisfies the inductive invariant.                    *)
LEMMA InitIInv == Init => IInv
  BY MutexAssumption
  DEF Init, IInv, TypeOK, PCs, CritInv, PendingInv, OneOwner, DepthAgrees, SemaphoreAccounts

(* Every step keeps it.                                                    *)
LEMMA NextIInv ==
  ASSUME IInv, [Next]_vars
  PROVE  IInv'
<1> USE MutexAssumption
<1> USE DEF IInv, TypeOK, PCs, CritInv, PendingInv, OneOwner, DepthAgrees,
            SemaphoreAccounts, Goto, Return, EnterCrit, LeaveCrit
<1>1. CASE UNCHANGED vars
  BY <1>1 DEF vars
<1>2. ASSUME NEW t \in Threads, NEW o \in Objects, NEW b \in BOOLEAN, CallLock(t, o, b)
      PROVE  IInv'
  BY <1>2 DEF CallLock
<1>3. ASSUME NEW t \in Threads, NEW o \in Objects, NEW b \in BOOLEAN, CallUnlock(t, o, b)
      PROVE  IInv'
  BY <1>3 DEF CallUnlock
<1>4. ASSUME NEW t \in Threads, LockTimesOut(t) PROVE IInv'
  BY <1>4 DEF LockTimesOut
<1>5. ASSUME NEW t \in Threads, Step(t) PROVE IInv'
  <2>1. CASE LockCrit(t)
    BY <2>1 DEF LockCrit
  <2>2. CASE LockAgain(t)
    BY <2>2 DEF LockAgain
  <2>3. CASE LockMustWait(t)
    BY <2>3 DEF LockMustWait
  <2>4. CASE LockTakesSemaphore(t)
    BY <2>4 DEF LockTakesSemaphore
  <2>5. CASE LockOwnCrit(t)
    BY <2>5 DEF LockOwnCrit
  <2>6. CASE LockSetOwner(t)
    BY <2>6 DEF LockSetOwner
  <2>7. CASE UnlockCrit(t)
    BY <2>7 DEF UnlockCrit
  <2>8. CASE UnlockRefused(t)
    BY <2>8 DEF UnlockRefused
  <2>9. CASE UnlockOwned(t)
    BY <2>9 DEF UnlockOwned
  <2> QED
    BY <1>5, <2>1, <2>2, <2>3, <2>4, <2>5, <2>6, <2>7, <2>8, <2>9 DEF Step
<1> QED
  BY <1>1, <1>2, <1>3, <1>4, <1>5 DEF Next
(* The inductive invariant holds in every reachable state.                 *)
LEMMA AlwaysIInv == Spec => []IInv
  BY InitIInv, NextIInv, PTL DEF Spec

(* Mutual exclusion across every object of a name (mutex.c:156-193).       *)
THEOREM MutexOneOwner == Spec => []OneOwner
<1>1. IInv => OneOwner
  BY DEF IInv
<1> QED
  BY <1>1, AlwaysIInv, PTL

(* The recursion count is what the owner has to undo (mutex.h:57-59).      *)
THEOREM MutexDepth == Spec => []DepthAgrees
<1>1. IInv => DepthAgrees
  BY DEF IInv
<1> QED
  BY <1>1, AlwaysIInv, PTL

(* The semaphore is taken exactly while somebody owns or is about to own.  *)
THEOREM MutexSemaphore == Spec => []SemaphoreAccounts
<1>1. IInv => SemaphoreAccounts
  BY DEF IInv
<1> QED
  BY <1>1, AlwaysIInv, PTL

(* A step ends an ownership only through its owner's unlock.               *)
LEMMA StepOnlyOwnerLeaves ==
  ASSUME IInv, Next, NEW o \in Objects, ownerId[o] # None, ownerId'[o] # ownerId[o]
  PROVE  ownerId'[o] = None /\ pc[ownerId[o]] = "ucheck" /\ obj[ownerId[o]] = o
<1> USE MutexAssumption DEF IInv, TypeOK, CritInv, PendingInv
<1>1. ASSUME NEW t \in Threads, Step(t)
      PROVE  ownerId'[o] = None /\ pc[ownerId[o]] = "ucheck" /\ obj[ownerId[o]] = o
  <2>1. CASE LockSetOwner(t)
    BY <2>1 DEF LockSetOwner
  <2>2. CASE UnlockOwned(t)
    BY <2>2 DEF UnlockOwned
  <2>3. CASE UNCHANGED ownerId
    BY <2>3
  <2> QED
    BY <1>1, <2>1, <2>2, <2>3
    DEF Step, LockCrit, LockAgain, LockMustWait, LockTakesSemaphore, LockOwnCrit,
        UnlockCrit, UnlockRefused
<1>2. ASSUME NEW t \in Threads, LockTimesOut(t) PROVE UNCHANGED ownerId
  BY <1>2 DEF LockTimesOut
<1>3. ASSUME NEW t \in Threads, NEW q \in Objects, NEW b \in BOOLEAN,
             CallLock(t, q, b) \/ CallUnlock(t, q, b)
      PROVE  UNCHANGED ownerId
  BY <1>3 DEF CallLock, CallUnlock
<1> QED
  BY <1>1, <1>2, <1>3 DEF Next

(* Nobody loses the mutex but by its own unlock(): no timeout, no refused  *)
(* unlock and no other thread's lock() ends an ownership.                  *)
THEOREM MutexKeptByOwner == Spec => OnlyOwnerLeaves
<1>1. IInv /\ [Next]_vars =>
        [\A o \in Objects : ownerId[o] # None /\ ownerId'[o] # ownerId[o] =>
           ownerId'[o] = None /\ pc[ownerId[o]] = "ucheck" /\ obj[ownerId[o]] = o]_vars
  BY StepOnlyOwnerLeaves
<1> QED
  BY <1>1, AlwaysIInv, PTL DEF Spec, OnlyOwnerLeaves
=============================================================================
