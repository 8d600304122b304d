---------------------------- MODULE SyncSemaphore ----------------------------
(***************************************************************************)
(* Phalcon\Sync\Semaphore (ext/sync/semaphore.c) over the semaphore of     *)
(* ext/sync/common.h: a counter in shared memory protected by a pthread    *)
(* mutex, with a condition variable for the threads that find it at zero.  *)
(*                                                                         *)
(* A thread stands for one Semaphore object opened on the shared memory,   *)
(* with autounlock on (the default).  Acquiring the pthread mutex is a     *)
(* step of its own; what a thread does while it owns the mutex, up to and  *)
(* including the unlock, is one step.                                      *)
(***************************************************************************)
EXTENDS Integers, FiniteSets

CONSTANTS
  Threads,
  MaxCount,       \* $initialval: both MxCount and MxMax of a new semaphore
  NoThread,       \* value of the mutex when nobody owns it
  Disciplined,    \* TRUE: callers unlock() only what they lock()ed
  CountSize,      \* MxCount of the object is an unsigned int: modulo this
  ClockMayFail    \* whether phalcon_clock_gettime can return -1

ASSUME SemaphoreAssumption ==
  /\ IsFiniteSet(Threads)
  /\ MaxCount \in Nat \ {0}
  /\ NoThread \notin Threads
  /\ Disciplined \in BOOLEAN
  /\ CountSize \in Nat \ {0} /\ CountSize > MaxCount
  /\ ClockMayFail \in BOOLEAN

VARIABLES
  count,     \* UnixSemaphore->MxCount
  mutex,     \* owner of UnixSemaphore->MxMutex
  pc,
  wait,      \* the Wait argument of the call under way
  held       \* intern->MxCount: lock()s the destructor has to undo

vars == <<count, mutex, pc, wait, held>>

WaitKinds == {"zero", "timed", "infinite"}
(* "asleep": in pthread_cond_wait or _timedwait; "woken" and "timedout":   *)
(* on the way out of it, the mutex not yet reacquired; "retest" and        *)
(* "expired": the same with the mutex.  "release"/"drain" lead to          *)
(* phalcon_semaphore_release from unlock() and from the destructor.        *)
PCs == {"idle", "enter", "test", "asleep", "woken", "retest", "timedout",
        "expired", "release", "give", "drain", "draingive", "freed"}

TypeOK ==
  /\ count \in 0 .. MaxCount
  /\ mutex \in Threads \cup {NoThread}
  /\ pc \in [Threads -> PCs]
  /\ wait \in [Threads -> WaitKinds]
  /\ held \in [Threads -> 0 .. CountSize - 1]

(* phalcon_semaphore_init(..., initialval, initialval) *)
Init ==
  /\ count = MaxCount
  /\ mutex = NoThread
  /\ pc = [t \in Threads |-> "idle"]
  /\ wait = [t \in Threads |-> "zero"]
  /\ held = [t \in Threads |-> 0]

Asleep == {t \in Threads : pc[t] = "asleep"}
Rising == {t \in Threads : pc[t] \in {"woken", "retest"}}

Goto(t, l) == pc' = [pc EXCEPT ![t] = l]
Unlock == mutex' = NoThread

-----------------------------------------------------------------------------
(* lock(): phalcon_semaphore_wait.                                         *)

(* lock(-1), lock(0) and lock(n) reach the wait with these three kinds. *)
Lock(t, k) ==
  /\ pc[t] = "idle"
  /\ wait' = [wait EXCEPT ![t] = k]
  /\ Goto(t, "enter")
  /\ UNCHANGED <<count, mutex, held>>

(* Mutant: the result of pthread_mutex_trylock is not looked at. *)
EnterMutexUnchecked(t) ==
  /\ pc[t] = "enter"
  /\ mutex = NoThread \/ wait[t] = "zero"
  /\ mutex' = IF mutex = NoThread THEN t ELSE mutex
  /\ Goto(t, "test")
  /\ UNCHANGED <<count, wait, held>>

(* pthread_mutex_lock, or a pthread_mutex_trylock that succeeds *)
EnterMutex(t) ==
  /\ pc[t] = "enter"
  /\ mutex = NoThread
  /\ mutex' = t
  /\ Goto(t, "test")
  /\ UNCHANGED <<count, wait, held>>

(* if (pthread_mutex_trylock(...) != 0) return 0 *)
TryLockFails(t) ==
  /\ pc[t] = "enter"
  /\ wait[t] = "zero" /\ mutex # NoThread
  /\ Goto(t, "idle")
  /\ UNCHANGED <<count, mutex, wait, held>>

(* The permit is taken, the mutex unlocked, and lock() counts it. *)
TakePermit(t) ==
  /\ pc[t] \in {"test", "retest"}
  /\ count > 0
  /\ count' = count - 1
  /\ held' = [held EXCEPT ![t] = (@ + 1) % CountSize]
  /\ Unlock /\ Goto(t, "idle")
  /\ UNCHANGED wait

(* Wait == 0: "Failed to obtain lock.  Nothing to do." *)
GiveUp(t) ==
  /\ pc[t] = "test"
  /\ count = 0 /\ wait[t] = "zero"
  /\ Unlock /\ Goto(t, "idle")
  /\ UNCHANGED <<count, wait, held>>

(* if (phalcon_clock_gettime(&TempTime) == -1) return 0: the mutex is not  *)
(* unlocked on this path.                                                  *)
ClockFails(t) ==
  /\ ClockMayFail
  /\ pc[t] = "test"
  /\ count = 0 /\ wait[t] = "timed"
  /\ Goto(t, "idle")
  /\ UNCHANGED <<count, mutex, wait, held>>

(* pthread_cond_wait/_timedwait: unlock and sleep, atomically; from the    *)
(* first test or from the loop's condition.                                *)
Sleep(t) ==
  /\ \/ pc[t] = "test" /\ wait[t] # "zero"
     \/ pc[t] = "retest"
  /\ count = 0
  /\ Unlock /\ Goto(t, "asleep")
  /\ UNCHANGED <<count, wait, held>>

(* A wakeup without a signal, which the loops of 380 and 401 allow for. *)
SpuriousWake(t) ==
  /\ pc[t] = "asleep"
  /\ Goto(t, "woken")
  /\ UNCHANGED <<count, mutex, wait, held>>

(* The deadline of pthread_cond_timedwait passes. *)
TimeOut(t) ==
  /\ pc[t] = "asleep" /\ wait[t] = "timed"
  /\ Goto(t, "timedout")
  /\ UNCHANGED <<count, mutex, wait, held>>

(* Leaving the condition variable takes the mutex back. *)
Reacquire(t) ==
  /\ pc[t] \in {"woken", "timedout"}
  /\ mutex = NoThread
  /\ mutex' = t
  /\ Goto(t, IF pc[t] = "woken" THEN "retest" ELSE "expired")
  /\ UNCHANGED <<count, wait, held>>

(* Mutant: a wait that timed out takes a permit and still reports failure. *)
ExpiredTakes(t) ==
  /\ pc[t] = "expired"
  /\ count' = IF count > 0 THEN count - 1 ELSE count
  /\ Unlock /\ Goto(t, "idle")
  /\ UNCHANGED <<wait, held>>

(* if (Result2 != 0) break: a timeout is final, whatever the count. *)
Expired(t) ==
  /\ pc[t] = "expired"
  /\ Unlock /\ Goto(t, "idle")
  /\ UNCHANGED <<count, wait, held>>

-----------------------------------------------------------------------------
(* unlock() and the destructor: phalcon_semaphore_release.                 *)

(* unlock() has no check of its own. *)
UnlockCall(t) ==
  /\ pc[t] = "idle"
  /\ Disciplined => held[t] > 0
  /\ Goto(t, "release")
  /\ UNCHANGED <<count, mutex, wait, held>>

(* The object is destroyed: phalcon_sync_semaphore_object_free_handler. *)
Destroy(t) ==
  /\ pc[t] = "idle"
  /\ Goto(t, "drain")
  /\ UNCHANGED <<count, mutex, wait, held>>

(* while (intern->MxCount): done, and the memory is unmapped. *)
Drained(t) ==
  /\ pc[t] = "drain" /\ held[t] = 0
  /\ Goto(t, "freed")
  /\ UNCHANGED <<count, mutex, wait, held>>

LockRelease(t) ==
  /\ \/ pc[t] = "release"
     \/ pc[t] = "drain" /\ held[t] # 0
  /\ mutex = NoThread
  /\ mutex' = t
  /\ Goto(t, IF pc[t] = "release" THEN "give" ELSE "draingive")
  /\ UNCHANGED <<count, wait, held>>

(* MxCount[0]++, cut back to MxMax *)
Incremented == IF count + 1 > MaxCount THEN MaxCount ELSE count + 1

(* Mutant: no pthread_cond_signal. *)
GiveSilently(t) ==
  /\ pc[t] \in {"give", "draingive"}
  /\ count' = Incremented
  /\ held' = [held EXCEPT ![t] = (@ + CountSize - 1) % CountSize]
  /\ Unlock
  /\ Goto(t, IF pc[t] = "give" THEN "idle" ELSE "drain")
  /\ UNCHANGED wait

(* Mutant: pthread_cond_signal only when the count leaves zero. *)
GiveSignalsAtZero(t) ==
  /\ pc[t] \in {"give", "draingive"}
  /\ count' = Incremented
  /\ held' = [held EXCEPT ![t] = (@ + CountSize - 1) % CountSize]
  /\ Unlock
  /\ LET after == IF pc[t] = "give" THEN "idle" ELSE "drain"
     IN  \/ (Asleep = {} \/ count > 0) /\ Goto(t, after)
         \/ \E u \in Asleep : /\ count = 0
                              /\ pc' = [pc EXCEPT ![t] = after, ![u] = "woken"]
  /\ UNCHANGED wait

(* Mutant: the destructor adds everything its object holds in one go. *)
GiveAllAtOnce(t) ==
  /\ pc[t] \in {"give", "draingive"}
  /\ LET n == IF pc[t] = "give" THEN 1 ELSE held[t]
         after == IF pc[t] = "give" THEN "idle" ELSE "drain"
     IN  /\ count' = count + n
         /\ held' = [held EXCEPT ![t] = @ - n]
         /\ \/ Asleep = {} /\ Goto(t, after)
            \/ \E u \in Asleep : pc' = [pc EXCEPT ![t] = after, ![u] = "woken"]
  /\ Unlock
  /\ UNCHANGED wait

(* Increment, pthread_cond_signal (which wakes one sleeper if there is     *)
(* one), unlock; then unlock() or the destructor decrements its own count. *)
Give(t) ==
  /\ pc[t] \in {"give", "draingive"}
  /\ count' = Incremented
  /\ held' = [held EXCEPT ![t] = (@ + CountSize - 1) % CountSize]
  /\ Unlock
  /\ LET after == IF pc[t] = "give" THEN "idle" ELSE "drain"
     IN  \/ Asleep = {} /\ Goto(t, after)
         \/ \E u \in Asleep : pc' = [pc EXCEPT ![t] = after, ![u] = "woken"]
  /\ UNCHANGED wait

-----------------------------------------------------------------------------
(* The calls a script decides to make ... *)
Call(t) == (\E k \in WaitKinds : Lock(t, k)) \/ UnlockCall(t) \/ Destroy(t)

(* ... and the steps that follow from the code. *)
Step(t) ==
  \/ EnterMutex(t) \/ TryLockFails(t) \/ TakePermit(t) \/ GiveUp(t)
  \/ ClockFails(t) \/ Sleep(t) \/ Reacquire(t) \/ Expired(t)
  \/ LockRelease(t) \/ Give(t) \/ Drained(t)

Next == \E t \in Threads : Call(t) \/ Step(t) \/ SpuriousWake(t) \/ TimeOut(t)

Spec == Init /\ [][Next]_vars

(* The kernel schedules every runnable thread, and a timed wait times out. *)
(* Nothing makes a script call anything, and spurious wakeups are optional. *)
FairSpec == Spec /\ \A t \in Threads : WF_vars(Step(t)) /\ WF_vars(TimeOut(t))

-----------------------------------------------------------------------------
(* The permits the objects hold, one pair for each.                        *)
HeldPermits == {h \in Threads \X (1 .. CountSize - 1) : h[2] <= held[h[1]]}

(* While callers unlock only what they locked, every permit is either in   *)
(* the semaphore or with exactly one object, so MxMax never cuts a release *)
(* short and a destructor gives back exactly what its object took.         *)
PermitsConserved == count + Cardinality(HeldPermits) = MaxCount

(* The mutex is owned by the thread that is inside the code it protects.   *)
OwnerInside ==
  \A t \in Threads :
    pc[t] \in {"test", "retest", "expired", "give", "draingive"} => mutex = t

(* A failed clock has left the mutex with a thread that is out of the code *)
(* it protects: nobody gets in any more.                                   *)
Leaked == \E t \in Threads :
  mutex = t /\ pc[t] \notin {"test", "retest", "expired", "give", "draingive"}

(* No lost wakeup: while somebody sleeps in the condition variable, every  *)
(* permit in the semaphore has a thread already on its way to take it      *)
(* (comment at common.h:427, "Let a waiting thread have at it").           *)
NoLostWakeup == Asleep # {} => count <= Cardinality(Rising)

(* A permit and a sleeper do not stay side by side for ever, unless the    *)
(* clock has failed.                                                       *)
SleeperServed == []<>(count = 0 \/ Asleep = {} \/ Leaked)

(* The code implements the atomic semaphore Mutex and Readerwriter assume. *)
Abstract == INSTANCE AbstractSemaphore WITH permits <- count, holds <- held
ImplementsSemaphore == Abstract!Spec
=============================================================================
