------------------------- MODULE ReaderWriterProofs -------------------------
(***************************************************************************)
(* Mutual exclusion of the reader-writer lock, for any number of objects,  *)
(* any nesting of read locks, and with timeouts and destructors.           *)
(***************************************************************************)
EXTENDS ReaderWriter, FiniteSetTheorems, TLAPS

(* The program points at which a process has the write mutex on loan.      *)
InWWait == {"rRCount", "rAbort", "rReset", "rEnter", "rLeaveC", "rLeaveW",
            "wEvent", "wAbort", "vRelease"}

(* A process owns the write mutex inside those points, and a writer from   *)
(* the moment it is admitted.                                              *)
OwnsWWait(p) == pc[p] \in InWWait \/ writeLock[p]

(* The program points between taking and releasing the counter mutex.      *)
InRCount == {"rReset", "rEnter", "rLeaveC", "uCount", "uFire", "uLeaveC"}

(* The write mutex has at most one owner and none while it is free; a      *)
(* process that is itself a writer is never inside the mutex a second time. *)
WWaitInv ==
  /\ wwait = 1 => \A p \in Procs : ~OwnsWWait(p)
  /\ \A p, q \in Procs : OwnsWWait(p) /\ OwnsWWait(q) => p = q
  /\ \A p \in Procs : ~(pc[p] \in InWWait /\ writeLock[p])

(* The same for the counter mutex. *)
RCountInv ==
  /\ rmutex = 1 => \A p \in Procs : pc[p] \notin InRCount
  /\ \A p, q \in Procs : pc[p] \in InRCount /\ pc[q] \in InRCount => p = q

(* A signaled event means no readers; the two points of a reader and of an *)
(* unlocker at which the event and the count are about to change agree     *)
(* with that; a writer holds the event signaled.  Without readers and      *)
(* without the signal, one of the two is about to change.                  *)
EventInv ==
  /\ signaled => rcount = 0
  /\ ~signaled /\ rcount = 0 => \E p \in Procs : pc[p] \in {"rEnter", "uFire"}
  /\ \A p \in Procs : pc[p] = "rEnter" => ~signaled
  /\ \A p \in Procs : pc[p] = "uFire" => rcount = 0
  /\ \A p \in Procs : writeLock[p] => signaled

(* The inductive invariant.                                                *)
IInv == TypeOK /\ WWaitInv /\ RCountInv /\ EventInv

-----------------------------------------------------------------------------
(* The constructor's state satisfies the invariant.                        *)
LEMMA InitInv == Init => IInv
BY DEF Init, IInv, TypeOK, PCs, WWaitInv, OwnsWWait, InWWait, RCountInv, InRCount, EventInv

(* Every step of readlock, readunlock, writelock, writeunlock and the      *)
(* destructor keeps the types.                                             *)
LEMMA TypeStep == TypeOK /\ [Next]_vars => TypeOK'
<1> SUFFICES ASSUME TypeOK, [Next]_vars PROVE TypeOK'
  OBVIOUS
<1> USE DEF TypeOK, PCs, Goto, Return, Locals, Holdings, shared
<1>1. CASE UNCHANGED vars
  BY <1>1 DEF vars
<1>2. ASSUME NEW p \in Procs, Call(p) \/ LetGo(p) \/ TimeOut(p) PROVE TypeOK'
  BY <1>2 DEF Call, LetGo, TimeOut, ReadLock, WriteLock, Destroy, ReadUnlock, WriteUnlock,
              ReadGiveUp, ReadTimeOut, WriteGiveUp, WriteTimeOut
<1>3. ASSUME NEW p \in Procs, Step(p) PROVE TypeOK'
  <2>1. CASE ReadAcquireWWait(p)
    BY <2>1 DEF ReadAcquireWWait
  <2>2. CASE ReadAcquireRCount(p)
    BY <2>2 DEF ReadAcquireRCount
  <2>3. CASE ReadReset(p)
    BY <2>3 DEF ReadReset
  <2>4. CASE ReadEnter(p)
    BY <2>4 DEF ReadEnter
  <2>5. CASE ReadReleaseRCount(p)
    BY <2>5 DEF ReadReleaseRCount
  <2>6. CASE ReadReleaseWWait(p)
    BY <2>6 DEF ReadReleaseWWait
  <2>7. CASE UnlockAcquireRCount(p)
    BY <2>7 DEF UnlockAcquireRCount
  <2>8. CASE UnlockCount(p)
    BY <2>8 DEF UnlockCount
  <2>9. CASE UnlockFire(p)
    BY <2>9 DEF UnlockFire
  <2>10. CASE UnlockReleaseRCount(p)
    BY <2>10 DEF UnlockReleaseRCount
  <2>11. CASE WriteAcquireWWait(p)
    BY <2>11 DEF WriteAcquireWWait
  <2>12. CASE WriteEnter(p)
    BY <2>12 DEF WriteEnter
  <2>13. CASE WriteReleaseWWait(p)
    BY <2>13 DEF WriteReleaseWWait
  <2>14. CASE DrainRead(p)
    BY <2>14 DEF DrainRead
  <2>15. CASE Drained(p)
    BY <2>15 DEF Drained
  <2>q. QED
    BY <1>3, <2>1, <2>2, <2>3, <2>4, <2>5, <2>6, <2>7, <2>8, <2>9, <2>10, <2>11,
       <2>12, <2>13, <2>14, <2>15 DEF Step
<1>q. QED
  BY <1>1, <1>2, <1>3 DEF Next

(* Every step keeps the three parts of the invariant.                      *)
LEMMA StepInv == IInv /\ [Next]_vars => IInv'
<1> SUFFICES ASSUME IInv, [Next]_vars PROVE WWaitInv' /\ RCountInv' /\ EventInv'
  BY TypeStep DEF IInv
<1> USE DEF IInv, TypeOK, WWaitInv, RCountInv, EventInv, OwnsWWait, InWWait, InRCount,
            Goto, Return, Locals, Holdings, shared
<1>1. CASE UNCHANGED vars
  BY <1>1 DEF vars
<1>2. ASSUME NEW p \in Procs, Call(p) PROVE WWaitInv' /\ RCountInv' /\ EventInv'
  BY <1>2 DEF Call, ReadLock, WriteLock, Destroy
<1>3. ASSUME NEW p \in Procs, LetGo(p) PROVE WWaitInv' /\ RCountInv' /\ EventInv'
  BY <1>3 DEF LetGo, ReadUnlock, WriteUnlock
<1>4. ASSUME NEW p \in Procs, TimeOut(p) PROVE WWaitInv' /\ RCountInv' /\ EventInv'
  BY <1>4 DEF TimeOut, ReadGiveUp, ReadTimeOut, WriteGiveUp, WriteTimeOut
<1>5. ASSUME NEW p \in Procs, Step(p) PROVE WWaitInv' /\ RCountInv' /\ EventInv'
  <2>1. CASE ReadAcquireWWait(p)
    BY <2>1 DEF ReadAcquireWWait
  <2>2. CASE ReadAcquireRCount(p)
    BY <2>2 DEF ReadAcquireRCount
  <2>3. CASE ReadReset(p)
    BY <2>3 DEF ReadReset
  <2>4. CASE ReadEnter(p)
    BY <2>4 DEF ReadEnter
  <2>5. CASE ReadReleaseRCount(p)
    BY <2>5 DEF ReadReleaseRCount
  <2>6. CASE ReadReleaseWWait(p)
    BY <2>6 DEF ReadReleaseWWait
  <2>7. CASE UnlockAcquireRCount(p)
    BY <2>7 DEF UnlockAcquireRCount
  <2>8. CASE UnlockCount(p)
    BY <2>8 DEF UnlockCount
  <2>9. CASE UnlockFire(p)
    BY <2>9 DEF UnlockFire
  <2>10. CASE UnlockReleaseRCount(p)
    BY <2>10 DEF UnlockReleaseRCount
  <2>11. CASE WriteAcquireWWait(p)
    BY <2>11 DEF WriteAcquireWWait
  <2>12. CASE WriteEnter(p)
    BY <2>12 DEF WriteEnter
  <2>13. CASE WriteReleaseWWait(p)
    BY <2>13 DEF WriteReleaseWWait
  <2>14. CASE DrainRead(p) \/ Drained(p)
    BY <2>14 DEF DrainRead, Drained
  <2>q. QED
    BY <1>5, <2>1, <2>2, <2>3, <2>4, <2>5, <2>6, <2>7, <2>8, <2>9, <2>10, <2>11,
       <2>12, <2>13, <2>14 DEF Step
<1>q. QED
  BY <1>1, <1>2, <1>3, <1>4, <1>5 DEF Next

(* The inductive invariant holds in every reachable state.                 *)
LEMMA ReaderWriterInv == Spec => []IInv
BY InitInv, StepInv, PTL DEF Spec

(* Type correctness of the lock for every set of objects.                  *)
THEOREM ReaderWriterTypeOK == Spec => []TypeOK
<1>1. IInv => TypeOK
  BY DEF IInv
<1>q. QED
  BY <1>1, ReaderWriterInv, PTL

(* A writer excludes readers and other writers, for any number of objects. *)
THEOREM WriterExcludes == Spec => []Exclusion
<1>1. IInv => Exclusion
  BY DEF IInv, WWaitInv, EventInv, OwnsWWait, Exclusion
<1>q. QED
  BY <1>1, ReaderWriterInv, PTL

(* Once a writer owns the write mutex, no reader is admitted before it: no *)
(* step taken while a writer waits for the readers raises the reader count. *)
THEOREM ReadersCannotOvertake == Spec => NoReaderOvertakes
<1>1. IInv /\ [Next]_vars => [\A p \in Procs : pc[p] = "wEvent" => rcount' <= rcount]_vars
  <2> SUFFICES ASSUME IInv, [Next]_vars, NEW p \in Procs, pc[p] = "wEvent"
               PROVE  rcount' <= rcount
    OBVIOUS
  <2>1. \A q \in Procs : pc[q] # "rEnter"
    BY DEF IInv, WWaitInv, OwnsWWait, InWWait
  <2>2. CASE rcount' = rcount
    BY <2>2 DEF IInv, TypeOK
  <2>3. ASSUME NEW q \in Procs, UnlockCount(q) PROVE rcount' <= rcount
    BY <2>3 DEF UnlockCount, IInv, TypeOK
  <2>4. ASSUME NEW q \in Procs, ReadEnter(q) PROVE FALSE
    BY <2>1, <2>4 DEF ReadEnter
  <2>5. ASSUME NEW q \in Procs, Call(q) \/ LetGo(q) \/ TimeOut(q) PROVE rcount' = rcount
    BY <2>5 DEF Call, LetGo, TimeOut, ReadLock, WriteLock, Destroy, ReadUnlock, WriteUnlock,
                ReadGiveUp, ReadTimeOut, WriteGiveUp, WriteTimeOut, shared
  <2>6. ASSUME NEW q \in Procs, Step(q) PROVE rcount' <= rcount
    BY <2>2, <2>3, <2>4, <2>6
       DEF Step, ReadAcquireWWait, ReadAcquireRCount, ReadReset, ReadReleaseRCount,
           ReadReleaseWWait, UnlockAcquireRCount, UnlockFire, UnlockReleaseRCount,
           WriteAcquireWWait, WriteEnter, WriteReleaseWWait, DrainRead, Drained, shared
  <2>q. QED
    BY <2>2, <2>5, <2>6 DEF Next, vars
<1>q. QED
  BY <1>1, ReaderWriterInv, PTL DEF Spec, NoReaderOvertakes
(* For any number of objects, the event is signaled exactly when there are *)
(* no readers, whenever nobody is between taking and releasing the counter *)
(* mutex.                                                                  *)
THEOREM EventAlwaysAgrees == Spec => []EventAgrees
<1>1. IInv => EventAgrees
  BY DEF IInv, RCountInv, InRCount, EventInv, EventAgrees
<1>q. QED
  BY <1>1, ReaderWriterInv, PTL
-----------------------------------------------------------------------------
(* An object has room for the lock it asks for and holds the one it gives  *)
(* back; together with the counts this is inductive.                       *)
NestInv ==
  \A p \in Procs :
    /\ readLocks[p] <= MaxReads
    /\ pc[p] \in {"rWWait", "rRCount", "rReset", "rEnter"} => readLocks[p] < MaxReads
    /\ pc[p] \in {"uRCount", "uCount"} => readLocks[p] > 0

(* Held read locks are finitely many.                                      *)
LEMMA HeldFinite ==
  ASSUME TypeOK PROVE IsFiniteSet(HeldReads) /\ Cardinality(HeldReads) \in Nat
<1>1. IsFiniteSet(Procs) /\ IsFiniteSet(1 .. MaxReads)
  BY ReaderWriterAssumption, FS_Interval
<1>2. IsFiniteSet(Procs \X (1 .. MaxReads))
  BY <1>1, FS_Product
<1>3. HeldReads \subseteq Procs \X (1 .. MaxReads)
  BY DEF HeldReads
<1> QED
  BY <1>2, <1>3, FS_Subset, FS_CardinalityType

(* The steps that leave both counts alone, and the two that change them.   *)
LEMMA CountSteps ==
  ASSUME TypeOK, NestInv, NEW p \in Procs, Call(p) \/ LetGo(p) \/ TimeOut(p) \/ Step(p)
  PROVE  /\ \/ UNCHANGED <<rcount, readLocks>>
            \/ ReadEnter(p) \/ UnlockCount(p)
         /\ NestInv'
<1> USE ReaderWriterAssumption DEF TypeOK, NestInv, Goto, Return, Locals, Holdings, shared
<1>1. CASE Call(p)
  BY <1>1 DEF Call, ReadLock, WriteLock, Destroy
<1>2. CASE LetGo(p) \/ TimeOut(p)
  BY <1>2 DEF LetGo, ReadUnlock, WriteUnlock, TimeOut, ReadGiveUp, ReadTimeOut, WriteGiveUp,
     WriteTimeOut
<1>3. CASE \/ ReadAcquireWWait(p) \/ ReadAcquireRCount(p) \/ ReadReset(p)
           \/ ReadReleaseRCount(p) \/ ReadReleaseWWait(p)
  BY <1>3 DEF ReadAcquireWWait, ReadAcquireRCount, ReadReset, ReadReleaseRCount,
     ReadReleaseWWait
<1>4. CASE \/ UnlockAcquireRCount(p) \/ UnlockFire(p) \/ UnlockReleaseRCount(p)
           \/ WriteAcquireWWait(p) \/ WriteEnter(p) \/ WriteReleaseWWait(p)
           \/ DrainRead(p) \/ Drained(p)
  BY <1>4 DEF UnlockAcquireRCount, UnlockFire, UnlockReleaseRCount, WriteAcquireWWait,
     WriteEnter, WriteReleaseWWait, DrainRead, Drained
<1>5. CASE ReadEnter(p)
  BY <1>5 DEF ReadEnter
<1>6. CASE UnlockCount(p)
  BY <1>6 DEF UnlockCount
<1> QED
  BY <1>1, <1>2, <1>3, <1>4, <1>5, <1>6 DEF Step

(* Both counts move together.                                              *)
LEMMA CountStep ==
  ASSUME TypeOK, NestInv, CountAgrees, [Next]_vars PROVE NestInv' /\ CountAgrees'
<1>1. CASE UNCHANGED vars
  BY <1>1 DEF vars, NestInv, CountAgrees, HeldReads
<1>2. ASSUME NEW p \in Procs, Call(p) \/ LetGo(p) \/ TimeOut(p) \/ Step(p)
      PROVE  NestInv' /\ CountAgrees'
  <2>1. NestInv'
    BY <1>2, CountSteps
  <2>t. /\ readLocks \in [Procs -> Nat] /\ rcount \in Nat /\ readLocks[p] \in Nat
        /\ MaxReads \in Nat /\ rcount = Cardinality(HeldReads)
    BY ReaderWriterAssumption DEF TypeOK, CountAgrees
  <2>2. CASE UNCHANGED <<rcount, readLocks>>
    BY <2>1, <2>2 DEF CountAgrees, HeldReads
  <2>3. CASE ReadEnter(p)
    <3> DEFINE h == <<p, readLocks[p] + 1>>
    <3>1. /\ pc[p] = "rEnter" /\ rcount' = rcount + 1
          /\ readLocks' = [readLocks EXCEPT ![p] = @ + 1]
      BY <2>3 DEF ReadEnter
    <3>2. readLocks[p] < MaxReads
      BY <3>1 DEF NestInv
    <3>3. h \in Procs \X (1 .. MaxReads) /\ h \notin HeldReads
      BY <3>2, <2>t DEF HeldReads
    <3>4. HeldReads' = HeldReads \cup {h}
      <4>1. ASSUME NEW q \in Procs, NEW i \in 1 .. MaxReads
            PROVE  i <= readLocks'[q] <=> i <= readLocks[q] \/ (q = p /\ i = readLocks[p] + 1)
        <5>1. CASE q = p
          BY <5>1, <3>1, <2>t
        <5>2. CASE q # p
          BY <5>2, <3>1, <2>t
        <5> QED
          BY <5>1, <5>2
      <4> QED
        BY <4>1, <3>3 DEF HeldReads
    <3>5. Cardinality(HeldReads \cup {h}) = Cardinality(HeldReads) + 1
      BY <3>3, HeldFinite, FS_AddElement
    <3>6. Cardinality(HeldReads') = Cardinality(HeldReads) + 1
      BY <3>4, <3>5
    <3> QED
      BY <2>1, <2>t, <3>1, <3>6 DEF CountAgrees
  <2>4. CASE UnlockCount(p)
    <3> DEFINE h == <<p, readLocks[p]>>
    <3>1. pc[p] = "uCount" /\ readLocks[p] > 0 /\ readLocks[p] <= MaxReads
      BY <2>4 DEF UnlockCount, NestInv
    <3>2. /\ rcount' = IF rcount = 0 THEN 0 ELSE rcount - 1
          /\ readLocks' = [readLocks EXCEPT ![p] = readLocks[p] - 1]
      <4>1. /\ rcount' = IF rcount = 0 THEN 0 ELSE rcount - 1
            /\ readLocks' = [readLocks EXCEPT ![p] =
                               IF readLocks[p] = 0 THEN 0 ELSE readLocks[p] - 1]
        BY <2>4 DEF UnlockCount
      <4>2. (IF readLocks[p] = 0 THEN 0 ELSE readLocks[p] - 1) = readLocks[p] - 1
        BY <3>1, <2>t
      <4> QED
        BY <4>1, <4>2
    <3>3. h \in Procs \X (1 .. MaxReads) /\ h \in HeldReads
      BY <3>1, <2>t DEF HeldReads
    <3>4. HeldReads' = HeldReads \ {h}
      <4>1. ASSUME NEW q \in Procs, NEW i \in 1 .. MaxReads
            PROVE  i <= readLocks'[q] <=> i <= readLocks[q] /\ ~(q = p /\ i = readLocks[p])
        <5>1. CASE q = p
          BY <5>1, <3>2, <2>t
        <5>2. CASE q # p
          BY <5>2, <3>2, <2>t
        <5> QED
          BY <5>1, <5>2
      <4> QED
        BY <4>1, <3>3 DEF HeldReads
    <3>5. Cardinality(HeldReads \ {h}) = Cardinality(HeldReads) - 1
      BY <3>3, HeldFinite, FS_RemoveElement
    <3>6. Cardinality(HeldReads') = Cardinality(HeldReads) - 1
      BY <3>4, <3>5
    <3>7. Cardinality(HeldReads) # 0
      BY <3>3, HeldFinite, FS_EmptySet
    <3> QED
      BY <2>1, <2>t, <3>2, <3>6, <3>7 DEF CountAgrees
  <2> QED
    BY <1>2, <2>1, <2>2, <2>3, <2>4, CountSteps
<1> QED
  BY <1>1, <1>2 DEF Next

(* For any number of objects and any nesting, MxRCount is the number of    *)
(* read locks the objects hold: a readunlock never finds it at zero, and   *)
(* destructors give back exactly what is held.                             *)
THEOREM CountAlwaysAgrees == Spec => []CountAgrees
<1>1. Init => NestInv /\ CountAgrees
  <2> SUFFICES ASSUME Init PROVE NestInv /\ CountAgrees
    OBVIOUS
  <2>1. NestInv
    BY ReaderWriterAssumption DEF Init, NestInv
  <2>2. HeldReads = {}
    BY ReaderWriterAssumption DEF Init, HeldReads
  <2> QED
    BY <2>1, <2>2, FS_EmptySet DEF Init, CountAgrees
<1>2. TypeOK /\ NestInv /\ CountAgrees /\ [Next]_vars => (NestInv /\ CountAgrees)'
  BY CountStep
<1> QED
  BY <1>1, <1>2, ReaderWriterTypeOK, PTL DEF Spec
=============================================================================
