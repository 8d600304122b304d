---------------------------- MODULE ReaderWriter ----------------------------
(***************************************************************************)
(* Phalcon\Sync\Readerwriter (ext/sync/readerwriter.c and .h).             *)
(*                                                                         *)
(* The lock is built from two binary semaphores and a manual event in      *)
(* shared memory: MxPthreadWWaitMutex is held by a writer for as long as   *)
(* it writes and by a reader while it enters, MxPthreadRCountMutex guards  *)
(* the reader count, MxPthreadRWaitEvent is signaled while the count is    *)
(* zero.  A process is one Readerwriter object with autounlock on (the     *)
(* default); every call on a semaphore or on the event is one step, which  *)
(* SyncSemaphore (ImplementsSemaphore) and SyncEvent justify.              *)
(***************************************************************************)
EXTENDS Integers, FiniteSets

CONSTANTS
  Procs,
  MaxReads      \* bound on the read locks one object nests

ASSUME ReaderWriterAssumption ==
  /\ IsFiniteSet(Procs)
  /\ MaxReads \in Nat \ {0}

VARIABLES
  wwait,       \* count of MxPthreadWWaitMutex
  rmutex,      \* count of MxPthreadRCountMutex
  rcount,      \* MxRCount
  signaled,    \* MxPthreadRWaitEvent
  pc,
  timed,       \* whether the call under way has a finite wait
  dying,       \* whether the destructor makes the call
  nested,      \* rigid: whether scripts ask for a lock while they hold one
  readLocks,   \* intern->MxReadLocks
  writeLock    \* intern->MxWriteLock

shared == <<wwait, rmutex, rcount, signaled>>
vars == <<wwait, rmutex, rcount, signaled, pc, timed, dying, nested, readLocks, writeLock>>

PCs == {"idle", "rWWait", "rRCount", "rAbort", "rReset", "rEnter", "rLeaveC", "rLeaveW",
        "uRCount", "uCount", "uFire", "uLeaveC",
        "wWWait", "wEvent", "wAbort", "vRelease", "drain", "freed"}

TypeOK ==
  /\ wwait \in 0 .. 1 /\ rmutex \in 0 .. 1
  /\ rcount \in Nat
  /\ signaled \in BOOLEAN
  /\ pc \in [Procs -> PCs]
  /\ timed \in [Procs -> BOOLEAN]
  /\ dying \in [Procs -> BOOLEAN]
  /\ nested \in BOOLEAN
  /\ readLocks \in [Procs -> Nat]
  /\ writeLock \in [Procs -> BOOLEAN]

(* __construct, Result == 0: semaphores 1/1, no reader, event presignaled. *)
Init ==
  /\ wwait = 1 /\ rmutex = 1 /\ rcount = 0 /\ signaled = TRUE
  /\ pc = [p \in Procs |-> "idle"]
  /\ timed = [p \in Procs |-> FALSE]
  /\ dying = [p \in Procs |-> FALSE]
  /\ nested \in BOOLEAN
  /\ readLocks = [p \in Procs |-> 0]
  /\ writeLock = [p \in Procs |-> FALSE]

Goto(p, l) == pc' = [pc EXCEPT ![p] = l]
Return(p) == Goto(p, IF dying[p] THEN "drain" ELSE "idle")
Locals == <<timed, dying, nested>>
Holdings == <<readLocks, writeLock>>
HoldsNothing(p) == readLocks[p] = 0 /\ ~writeLock[p]

-----------------------------------------------------------------------------
(* readlock()                                                              *)

ReadLock(p, finite) ==
  /\ pc[p] = "idle"
  /\ readLocks[p] < MaxReads
  /\ nested \/ HoldsNothing(p)
  /\ timed' = [timed EXCEPT ![p] = finite]
  /\ Goto(p, "rWWait")
  /\ UNCHANGED <<shared, dying, nested, Holdings>>

(* Mutant: the count of the semaphore goes down without being tested. *)
ReadAcquireWWaitUntested(p) ==
  /\ pc[p] = "rWWait"
  /\ wwait' = wwait - 1
  /\ Goto(p, "rRCount")
  /\ UNCHANGED <<rmutex, rcount, signaled, Locals, Holdings>>

(* Mutant: the reader does not pass through the write mutex. *)
ReadSkipsWWait(p) ==
  /\ pc[p] = "rWWait"
  /\ Goto(p, "rRCount")
  /\ UNCHANGED <<shared, Locals, Holdings>>

ReadAcquireWWait(p) ==
  /\ pc[p] = "rWWait" /\ wwait = 1
  /\ wwait' = 0
  /\ Goto(p, "rRCount")
  /\ UNCHANGED <<rmutex, rcount, signaled, Locals, Holdings>>

ReadAcquireRCount(p) ==
  /\ pc[p] = "rRCount" /\ rmutex = 1
  /\ rmutex' = 0
  /\ Goto(p, "rReset")
  /\ UNCHANGED <<wwait, rcount, signaled, Locals, Holdings>>

(* The wait for the write mutex times out: RETURN_FALSE at once ... *)
ReadGiveUp(p) ==
  /\ pc[p] = "rWWait" /\ timed[p]
  /\ Return(p)
  /\ UNCHANGED <<shared, Locals, Holdings>>

(* ... and the wait for the counter mutex after releasing the write mutex. *)
ReadTimeOut(p) ==
  /\ pc[p] = "rRCount" /\ timed[p]
  /\ Goto(p, "rAbort")
  /\ UNCHANGED <<shared, Locals, Holdings>>

(* Mutant: the first reader leaves the event signaled. *)
ReadResetForgotten(p) ==
  /\ pc[p] = "rReset"
  /\ Goto(p, "rEnter")
  /\ UNCHANGED <<shared, Locals, Holdings>>

(* phalcon_event_reset: fails only for an event that is not manual. *)
ReadReset(p) ==
  /\ pc[p] = "rReset"
  /\ signaled' = FALSE
  /\ Goto(p, "rEnter")
  /\ UNCHANGED <<wwait, rmutex, rcount, Locals, Holdings>>

(* MxRCount[0]++; MxReadLocks++ *)
ReadEnter(p) ==
  /\ pc[p] = "rEnter"
  /\ rcount' = rcount + 1
  /\ readLocks' = [readLocks EXCEPT ![p] = @ + 1]
  /\ Goto(p, "rLeaveC")
  /\ UNCHANGED <<wwait, rmutex, signaled, Locals, writeLock>>

ReadReleaseRCount(p) ==
  /\ pc[p] = "rLeaveC"
  /\ rmutex' = 1
  /\ Goto(p, "rLeaveW")
  /\ UNCHANGED <<wwait, rcount, signaled, Locals, Holdings>>

ReadReleaseWWait(p) ==
  /\ pc[p] \in {"rLeaveW", "rAbort"}
  /\ wwait' = 1
  /\ Return(p)
  /\ UNCHANGED <<rmutex, rcount, signaled, Locals, Holdings>>

-----------------------------------------------------------------------------
(* readunlock(), phalcon_readerwriter_readunlock_internal                  *)

(* An object unlocks only what it has locked. *)
ReadUnlock(p) ==
  /\ pc[p] = "idle" /\ readLocks[p] > 0
  /\ Goto(p, "uRCount")
  /\ UNCHANGED <<shared, Locals, Holdings>>

UnlockAcquireRCount(p) ==
  /\ pc[p] = "uRCount" /\ rmutex = 1
  /\ rmutex' = 0
  /\ Goto(p, "uCount")
  /\ UNCHANGED <<wwait, rcount, signaled, Locals, Holdings>>

(* Mutant: the object's own count is not taken down. *)
UnlockCountSharedOnly(p) ==
  /\ pc[p] = "uCount"
  /\ rcount' = IF rcount = 0 THEN 0 ELSE rcount - 1
  /\ Goto(p, IF rcount = 1 THEN "uFire" ELSE "uLeaveC")
  /\ UNCHANGED <<wwait, rmutex, signaled, Locals, Holdings>>

(* Both counters go down unless they are zero; the last reader fires, a    *)
(* zero reader count is a failure that only releases the mutex.            *)
UnlockCount(p) ==
  /\ pc[p] = "uCount"
  /\ readLocks' = [readLocks EXCEPT ![p] = IF @ = 0 THEN 0 ELSE @ - 1]
  /\ rcount' = IF rcount = 0 THEN 0 ELSE rcount - 1
  /\ Goto(p, IF rcount = 1 THEN "uFire" ELSE "uLeaveC")
  /\ UNCHANGED <<wwait, rmutex, signaled, Locals, writeLock>>

(* Mutant: the last reader does not fire the event. *)
UnlockFireForgotten(p) ==
  /\ pc[p] = "uFire"
  /\ Goto(p, "uLeaveC")
  /\ UNCHANGED <<shared, Locals, Holdings>>

UnlockFire(p) ==
  /\ pc[p] = "uFire"
  /\ signaled' = TRUE
  /\ Goto(p, "uLeaveC")
  /\ UNCHANGED <<wwait, rmutex, rcount, Locals, Holdings>>

UnlockReleaseRCount(p) ==
  /\ pc[p] = "uLeaveC"
  /\ rmutex' = 1
  /\ Return(p)
  /\ UNCHANGED <<wwait, rcount, signaled, Locals, Holdings>>

-----------------------------------------------------------------------------
(* writelock() and writeunlock()                                           *)

WriteLock(p, finite) ==
  /\ pc[p] = "idle"
  /\ nested \/ HoldsNothing(p)
  /\ timed' = [timed EXCEPT ![p] = finite]
  /\ Goto(p, "wWWait")
  /\ UNCHANGED <<shared, dying, nested, Holdings>>

WriteAcquireWWait(p) ==
  /\ pc[p] = "wWWait" /\ wwait = 1
  /\ wwait' = 0
  /\ Goto(p, "wEvent")
  /\ UNCHANGED <<rmutex, rcount, signaled, Locals, Holdings>>

WriteGiveUp(p) ==
  /\ pc[p] = "wWWait" /\ timed[p]
  /\ Return(p)
  /\ UNCHANGED <<shared, Locals, Holdings>>

(* Mutant: the writer does not wait for the readers to leave. *)
WriteEnterAtOnce(p) ==
  /\ pc[p] = "wEvent"
  /\ writeLock' = [writeLock EXCEPT ![p] = TRUE]
  /\ Return(p)
  /\ UNCHANGED <<shared, Locals, readLocks>>

(* "Wait for readers to reach zero", then MxWriteLock = 1 *)
WriteEnter(p) ==
  /\ pc[p] = "wEvent" /\ signaled
  /\ writeLock' = [writeLock EXCEPT ![p] = TRUE]
  /\ Return(p)
  /\ UNCHANGED <<shared, Locals, readLocks>>

(* Mutant: a writer that times out keeps the write mutex. *)
WriteTimeOutKeepsWWait(p) ==
  /\ pc[p] = "wEvent" /\ timed[p]
  /\ Return(p)
  /\ UNCHANGED <<shared, Locals, Holdings>>

WriteTimeOut(p) ==
  /\ pc[p] = "wEvent" /\ timed[p]
  /\ Goto(p, "wAbort")
  /\ UNCHANGED <<shared, Locals, Holdings>>

(* writeunlock: MxWriteLock = 0 ...; a process unlocks only its own lock. *)
WriteUnlock(p) ==
  /\ \/ pc[p] = "idle"
     \/ pc[p] = "drain" /\ readLocks[p] = 0
  /\ writeLock[p]
  /\ writeLock' = [writeLock EXCEPT ![p] = FALSE]
  /\ Goto(p, "vRelease")
  /\ UNCHANGED <<shared, Locals, readLocks>>

(* ... and the release, also on the way out of a writelock that timed out. *)
WriteReleaseWWait(p) ==
  /\ pc[p] \in {"vRelease", "wAbort"}
  /\ wwait' = 1
  /\ Return(p)
  /\ UNCHANGED <<rmutex, rcount, signaled, Locals, Holdings>>

-----------------------------------------------------------------------------
(* The destructor gives back every read lock, then the write lock (which   *)
(* WriteUnlock does from "drain"), then the memory.                        *)

Destroy(p) ==
  /\ pc[p] = "idle"
  /\ dying' = [dying EXCEPT ![p] = TRUE]
  /\ Goto(p, "drain")
  /\ UNCHANGED <<shared, timed, nested, Holdings>>

DrainRead(p) ==
  /\ pc[p] = "drain" /\ readLocks[p] > 0
  /\ Goto(p, "uRCount")
  /\ UNCHANGED <<shared, Locals, Holdings>>

Drained(p) ==
  /\ pc[p] = "drain" /\ HoldsNothing(p)
  /\ Goto(p, "freed")
  /\ UNCHANGED <<shared, Locals, Holdings>>

-----------------------------------------------------------------------------
Call(p) ==
  \/ \E finite \in BOOLEAN : ReadLock(p, finite) \/ WriteLock(p, finite)
  \/ Destroy(p)

LetGo(p) == ReadUnlock(p) \/ WriteUnlock(p)

TimeOut(p) == ReadGiveUp(p) \/ ReadTimeOut(p) \/ WriteGiveUp(p) \/ WriteTimeOut(p)

Step(p) ==
  \/ ReadAcquireWWait(p) \/ ReadAcquireRCount(p) \/ ReadReset(p) \/ ReadEnter(p)
  \/ ReadReleaseRCount(p) \/ ReadReleaseWWait(p)
  \/ UnlockAcquireRCount(p) \/ UnlockCount(p) \/ UnlockFire(p) \/ UnlockReleaseRCount(p)
  \/ WriteAcquireWWait(p) \/ WriteEnter(p) \/ WriteReleaseWWait(p)
  \/ DrainRead(p) \/ Drained(p)

Next == \E p \in Procs : Call(p) \/ LetGo(p) \/ TimeOut(p) \/ Step(p)

Spec == Init /\ [][Next]_vars

(* Inside a call a process keeps running, and a script that holds a lock   *)
(* gives it back some day (by unlocking or by destroying the object).      *)
FairSpec ==
  /\ Spec
  /\ \A p \in Procs : /\ WF_vars(Step(p))
                      /\ WF_vars(LetGo(p) \/ (~HoldsNothing(p) /\ Destroy(p)))

-----------------------------------------------------------------------------
(* A writer excludes every reader and every other writer, across timeouts, *)
(* destructors and the several steps each call takes.                      *)
Exclusion ==
  \A p \in Procs : writeLock[p] =>
    /\ rcount = 0
    /\ \A q \in Procs : writeLock[q] => q = p

(* The read locks the objects hold, one pair for each level of nesting.    *)
HeldReads == {h \in Procs \X (1 .. MaxReads) : h[2] <= readLocks[h[1]]}

(* The shared reader count is the number of read locks the objects hold.   *)
CountAgrees == rcount = Cardinality(HeldReads)

(* Whenever the counter mutex is free the event says whether there are     *)
(* readers, so a writer neither waits for nobody nor enters too early.     *)
EventAgrees == rmutex = 1 => (signaled <=> rcount = 0)

(* Once a writer owns the write mutex no reader gets in before it: the     *)
(* comment at readerwriter.c:210, "Guarantees that readers can't starve    *)
(* the writer".                                                            *)
NoReaderOvertakes ==
  [][\A p \in Procs : pc[p] = "wEvent" => rcount' <= rcount]_vars

(* A writer that owns the write mutex is admitted or gives up, provided    *)
(* scripts ask for one lock at a time.                                     *)
WriterAdmitted ==
  \A p \in Procs : (pc[p] = "wEvent" /\ ~nested) ~> pc[p] # "wEvent"

(* The write mutex never stays taken for ever: no cycle of processes       *)
(* waiting for each other, provided scripts ask for one lock at a time.    *)
WriteMutexComesBack == []<>(wwait = 1 \/ nested)
=============================================================================
