------------------------------ MODULE SyncMutex ------------------------------
(***************************************************************************)
(* Phalcon\Sync\Mutex (ext/sync/mutex.c and .h): a recursive mutex.  Every *)
(* object opened on the same name shares one binary semaphore; the owner   *)
(* and the recursion count are private to the object, guarded by its own   *)
(* critical section, which is not held while lock() waits.                 *)
(*                                                                         *)
(* The semaphore is the atomic one of AbstractSemaphore.                   *)
(***************************************************************************)
EXTENDS Integers, FiniteSets

CONSTANTS
  Threads,
  Objects,     \* Mutex objects opened on one name
  None,
  MaxDepth     \* bound on the recursion

ASSUME MutexAssumption ==
  /\ None \notin Threads /\ None \notin Objects
  /\ MaxDepth \in Nat \ {0}

VARIABLES
  sem,       \* count of the shared semaphore MxPthreadMutex
  crit,      \* owner of each object's MxPthreadCritSection
  ownerId,   \* MxOwnerID, None for 0
  mxCount,   \* MxCount
  pc,
  obj,       \* the object of the call a thread is in
  arg,       \* $wait is finite / $all is true, for the call under way
  entered    \* lock()s that returned true, per thread and object, minus unlocks

vars == <<sem, crit, ownerId, mxCount, pc, obj, arg, entered>>

(* "lcrit", "lcheck": lock() before and inside its first critical section; *)
(* "lwait": in phalcon_semaphore_wait; "lown", "lset": its second critical *)
(* section; "ucrit", "ucheck": phalcon_mutex_unlock_internal.              *)
PCs == {"idle", "lcrit", "lcheck", "lwait", "lown", "lset", "ucrit", "ucheck"}

TypeOK ==
  /\ sem \in 0 .. 1
  /\ crit \in [Objects -> Threads \cup {None}]
  /\ ownerId \in [Objects -> Threads \cup {None}]
  /\ mxCount \in [Objects -> 0 .. MaxDepth]
  /\ pc \in [Threads -> PCs]
  /\ obj \in [Threads -> Objects \cup {None}]
  /\ arg \in [Threads -> BOOLEAN]
  /\ entered \in [Threads -> [Objects -> 0 .. MaxDepth]]

Init ==
  /\ sem = 1
  /\ crit = [o \in Objects |-> None]
  /\ ownerId = [o \in Objects |-> None]
  /\ mxCount = [o \in Objects |-> 0]
  /\ pc = [t \in Threads |-> "idle"]
  /\ obj = [t \in Threads |-> None]
  /\ arg = [t \in Threads |-> FALSE]
  /\ entered = [t \in Threads |-> [o \in Objects |-> 0]]

Goto(t, l) == pc' = [pc EXCEPT ![t] = l]
Return(t) == Goto(t, "idle") /\ obj' = [obj EXCEPT ![t] = None]

EnterCrit(t) == crit[obj[t]] = None /\ crit' = [crit EXCEPT ![obj[t]] = t]
LeaveCrit(t) == crit' = [crit EXCEPT ![obj[t]] = None]

-----------------------------------------------------------------------------
CallLock(t, o, finite) ==
  /\ pc[t] = "idle" /\ entered[t][o] < MaxDepth
  /\ obj' = [obj EXCEPT ![t] = o]
  /\ arg' = [arg EXCEPT ![t] = finite]
  /\ Goto(t, "lcrit")
  /\ UNCHANGED <<sem, crit, ownerId, mxCount, entered>>

LockCrit(t) ==
  /\ pc[t] = "lcrit" /\ EnterCrit(t)
  /\ Goto(t, "lcheck")
  /\ UNCHANGED <<sem, ownerId, mxCount, obj, arg, entered>>

(* "already owned by the calling thread": count and return true *)
LockAgain(t) ==
  /\ pc[t] = "lcheck" /\ ownerId[obj[t]] = t
  /\ mxCount' = [mxCount EXCEPT ![obj[t]] = @ + 1]
  /\ entered' = [entered EXCEPT ![t][obj[t]] = @ + 1]
  /\ LeaveCrit(t) /\ Return(t)
  /\ UNCHANGED <<sem, ownerId, arg>>

LockMustWait(t) ==
  /\ pc[t] = "lcheck" /\ ownerId[obj[t]] # t
  /\ LeaveCrit(t)
  /\ Goto(t, "lwait")
  /\ UNCHANGED <<sem, ownerId, mxCount, obj, arg, entered>>

(* Mutant: the result of the wait is not looked at. *)
LockIgnoresResult(t) ==
  /\ pc[t] = "lwait"
  /\ sem' = 0
  /\ Goto(t, "lown")
  /\ UNCHANGED <<crit, ownerId, mxCount, obj, arg, entered>>

LockTakesSemaphore(t) ==
  /\ pc[t] = "lwait" /\ sem = 1
  /\ sem' = 0
  /\ Goto(t, "lown")
  /\ UNCHANGED <<crit, ownerId, mxCount, obj, arg, entered>>

LockTimesOut(t) ==
  /\ pc[t] = "lwait" /\ arg[t]
  /\ Return(t)
  /\ UNCHANGED <<sem, crit, ownerId, mxCount, arg, entered>>

LockOwnCrit(t) ==
  /\ pc[t] = "lown" /\ EnterCrit(t)
  /\ Goto(t, "lset")
  /\ UNCHANGED <<sem, ownerId, mxCount, obj, arg, entered>>

(* Mutant: the recursion count does not start at one. *)
LockSetOwnerUncounted(t) ==
  /\ pc[t] = "lset"
  /\ ownerId' = [ownerId EXCEPT ![obj[t]] = t]
  /\ entered' = [entered EXCEPT ![t][obj[t]] = 1]
  /\ LeaveCrit(t) /\ Return(t)
  /\ UNCHANGED <<sem, mxCount, arg>>

LockSetOwner(t) ==
  /\ pc[t] = "lset"
  /\ ownerId' = [ownerId EXCEPT ![obj[t]] = t]
  /\ mxCount' = [mxCount EXCEPT ![obj[t]] = 1]
  /\ entered' = [entered EXCEPT ![t][obj[t]] = 1]
  /\ LeaveCrit(t) /\ Return(t)
  /\ UNCHANGED <<sem, arg>>

-----------------------------------------------------------------------------
(* unlock($all), and the destructor, which is unlock_internal with all = 1 *)
CallUnlock(t, o, all) ==
  /\ pc[t] = "idle"
  /\ obj' = [obj EXCEPT ![t] = o]
  /\ arg' = [arg EXCEPT ![t] = all]
  /\ Goto(t, "ucrit")
  /\ UNCHANGED <<sem, crit, ownerId, mxCount, entered>>

UnlockCrit(t) ==
  /\ pc[t] = "ucrit" /\ EnterCrit(t)
  /\ Goto(t, "ucheck")
  /\ UNCHANGED <<sem, ownerId, mxCount, obj, arg, entered>>

(* Not owned by the calling thread: nothing happens, return 0. *)
UnlockRefused(t) ==
  /\ pc[t] = "ucheck" /\ ownerId[obj[t]] # t
  /\ LeaveCrit(t) /\ Return(t)
  /\ UNCHANGED <<sem, ownerId, mxCount, arg, entered>>

(* Mutant: the semaphore is not released with the last unlock. *)
UnlockKeepsSemaphore(t) ==
  LET o == obj[t]
      left == (IF arg[t] THEN 1 ELSE mxCount[o]) - 1
  IN  /\ pc[t] = "ucheck" /\ ownerId[o] = t
      /\ mxCount' = [mxCount EXCEPT ![o] = left]
      /\ entered' = [entered EXCEPT ![t][o] = IF arg[t] THEN 0 ELSE @ - 1]
      /\ ownerId' = [ownerId EXCEPT ![o] = IF left = 0 THEN None ELSE @]
      /\ LeaveCrit(t) /\ Return(t)
      /\ UNCHANGED <<sem, arg>>

(* Mutant: any thread may unlock an owned object. *)
UnlockByAnyone(t) ==
  LET o == obj[t]
      left == (IF arg[t] THEN 1 ELSE mxCount[o]) - 1
  IN  /\ pc[t] = "ucheck" /\ ownerId[o] # None
      /\ mxCount' = [mxCount EXCEPT ![o] = left]
      /\ entered' = [entered EXCEPT ![ownerId[o]][o] = left]
      /\ ownerId' = [ownerId EXCEPT ![o] = IF left = 0 THEN None ELSE @]
      /\ sem' = IF left = 0 THEN 1 ELSE sem
      /\ LeaveCrit(t) /\ Return(t)
      /\ UNCHANGED arg

(* if (all) MxCount = 1; MxCount--; at zero the owner is cleared and the   *)
(* semaphore released, all inside the critical section.                    *)
UnlockOwned(t) ==
  LET o == obj[t]
      left == (IF arg[t] THEN 1 ELSE mxCount[o]) - 1
  IN  /\ pc[t] = "ucheck" /\ ownerId[o] = t
      /\ mxCount' = [mxCount EXCEPT ![o] = left]
      /\ entered' = [entered EXCEPT ![t][o] = IF arg[t] THEN 0 ELSE @ - 1]
      /\ ownerId' = [ownerId EXCEPT ![o] = IF left = 0 THEN None ELSE @]
      /\ sem' = IF left = 0 THEN 1 ELSE sem
      /\ LeaveCrit(t) /\ Return(t)
      /\ UNCHANGED arg

-----------------------------------------------------------------------------
Step(t) ==
  \/ LockCrit(t) \/ LockAgain(t) \/ LockMustWait(t) \/ LockTakesSemaphore(t)
  \/ LockOwnCrit(t) \/ LockSetOwner(t)
  \/ UnlockCrit(t) \/ UnlockRefused(t) \/ UnlockOwned(t)

Next ==
  \E t \in Threads :
    \/ \E o \in Objects, b \in BOOLEAN : CallLock(t, o, b) \/ CallUnlock(t, o, b)
    \/ LockTimesOut(t)
    \/ Step(t)

Spec == Init /\ [][Next]_vars

-----------------------------------------------------------------------------
(* At most one object of a name is owned, and its owner is the only thread *)
(* that lock() has let in and not out again.                               *)
OneOwner ==
  /\ \A o, q \in Objects : ownerId[o] # None /\ ownerId[q] # None => o = q
  /\ \A t \in Threads, o \in Objects : entered[t][o] > 0 <=> ownerId[o] = t

(* The recursion count of an owned object is the number of lock()s its     *)
(* owner still has to undo; an unowned object has none.                    *)
DepthAgrees ==
  \A o \in Objects :
    mxCount[o] = IF ownerId[o] = None THEN 0 ELSE entered[ownerId[o]][o]

(* The semaphore is free exactly when nobody owns an object or is between  *)
(* taking the semaphore and recording itself as the owner.                 *)
SemaphoreAccounts ==
  sem = 1 <=> /\ \A o \in Objects : ownerId[o] = None
              /\ \A t \in Threads : pc[t] \notin {"lown", "lset"}

(* Only its owner can end an ownership: no timeout, no refused unlock and  *)
(* no other thread's lock() takes an object away from the thread in it.    *)
OnlyOwnerLeaves ==
  [][\A o \in Objects : ownerId[o] # None /\ ownerId'[o] # ownerId[o] =>
       ownerId'[o] = None /\ pc[ownerId[o]] = "ucheck" /\ obj[ownerId[o]] = o]_vars
=============================================================================
