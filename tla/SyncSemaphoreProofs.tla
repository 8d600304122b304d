------------------------- MODULE SyncSemaphoreProofs -------------------------
(***************************************************************************)
(* Proofs about SyncSemaphore for any number of threads and permits, with  *)
(* callers of any discipline and a clock that may fail.                    *)
(***************************************************************************)
EXTENDS SyncSemaphore, FiniteSetTheorems, TLAPS

USE DEF WaitKinds, PCs

(* The unsigned count of an object stays in its range, up and down.        *)
LEMMA HeldType ==
  \A n \in 0 .. CountSize - 1 :
    /\ (n + 1) % CountSize \in 0 .. CountSize - 1
    /\ (n + CountSize - 1) % CountSize \in 0 .. CountSize - 1
  BY SemaphoreAssumption

(* The count stays between zero and MxMax.                                 *)
LEMMA CountType ==
  ASSUME TypeOK
  PROVE  /\ Incremented \in 0 .. MaxCount
         /\ Incremented <= count + 1
         /\ count > 0 => count - 1 \in 0 .. MaxCount
  BY SemaphoreAssumption DEF TypeOK, Incremented

(* Initially everything has its type and nobody is inside.                 *)
LEMMA InitType == Init => TypeOK /\ OwnerInside
  BY SemaphoreAssumption DEF Init, TypeOK, OwnerInside

(* A step keeps the types and leaves in the protected code only the thread *)
(* that owns the mutex.                                                    *)
LEMMA NextType ==
  ASSUME TypeOK, OwnerInside, [Next]_vars
  PROVE  TypeOK' /\ OwnerInside'
<1> USE SemaphoreAssumption DEF TypeOK, OwnerInside, Goto, Unlock
<1>1. CASE UNCHANGED vars
  BY <1>1 DEF vars
<1>2. ASSUME NEW t \in Threads, Call(t) PROVE TypeOK' /\ OwnerInside'
  <2>1. ASSUME NEW k \in WaitKinds, Lock(t, k) PROVE TypeOK' /\ OwnerInside'
    BY <2>1 DEF Lock
  <2>2. CASE UnlockCall(t)
    BY <2>2 DEF UnlockCall
  <2>3. CASE Destroy(t)
    BY <2>3 DEF Destroy
  <2> QED
    BY <1>2, <2>1, <2>2, <2>3 DEF Call
<1>3. ASSUME NEW t \in Threads, Step(t) PROVE TypeOK' /\ OwnerInside'
  <2>1. CASE EnterMutex(t)
    BY <2>1 DEF EnterMutex
  <2>2. CASE TryLockFails(t)
    BY <2>2 DEF TryLockFails
  <2>3. CASE TakePermit(t)
    <3>1. TypeOK'
      BY <2>3, HeldType, CountType DEF TakePermit
    <3>2. OwnerInside'
      BY <2>3 DEF TakePermit
    <3> QED
      BY <3>1, <3>2
  <2>4. CASE GiveUp(t)
    BY <2>4 DEF GiveUp
  <2>5. CASE ClockFails(t)
    BY <2>5 DEF ClockFails
  <2>6. CASE Sleep(t)
    BY <2>6 DEF Sleep
  <2>7. CASE Reacquire(t)
    BY <2>7 DEF Reacquire
  <2>8. CASE Expired(t)
    BY <2>8 DEF Expired
  <2>9. CASE LockRelease(t)
    BY <2>9 DEF LockRelease
  <2>10. CASE Give(t)
    <3>1. PICK l \in {"idle", "drain"} :
            \/ pc' = [pc EXCEPT ![t] = l]
            \/ \E u \in Asleep : pc' = [pc EXCEPT ![t] = l, ![u] = "woken"]
      BY <2>10 DEF Give
    <3>2. pc' \in [Threads -> PCs] /\ \A u \in Threads \ {t} : pc'[u] \in {pc[u], "woken"}
      BY <3>1 DEF Asleep
    <3>3. pc'[t] \in {"idle", "drain", "woken"}
      BY <3>1 DEF Asleep
    <3>4. count' \in 0 .. MaxCount
      BY <2>10, CountType DEF Give
    <3>5. held' \in [Threads -> 0 .. CountSize - 1]
      BY <2>10, HeldType DEF Give
    <3>6. TypeOK'
      BY <2>10, <3>2, <3>4, <3>5 DEF Give
    <3>7. OwnerInside'
      BY <2>10, <3>2, <3>3 DEF Give
    <3> QED
      BY <3>6, <3>7
  <2>11. CASE Drained(t)
    BY <2>11 DEF Drained
  <2> QED
    BY <1>3, <2>1, <2>2, <2>3, <2>4, <2>5, <2>6, <2>7, <2>8, <2>9, <2>10, <2>11 DEF Step
<1>4. ASSUME NEW t \in Threads, SpuriousWake(t) PROVE TypeOK' /\ OwnerInside'
  BY <1>4 DEF SpuriousWake
<1>5. ASSUME NEW t \in Threads, TimeOut(t) PROVE TypeOK' /\ OwnerInside'
  BY <1>5 DEF TimeOut
<1> QED
  BY <1>1, <1>2, <1>3, <1>4, <1>5 DEF Next

(* Type correctness: the count of the semaphore stays between zero and     *)
(* MxMax and the count of every object within its width, also for callers  *)
(* that unlock what they never locked.                                     *)
THEOREM SemaphoreTypeOK == Spec => []TypeOK
  BY InitType, NextType, PTL DEF Spec

(* Mutual exclusion of the code under the pthread mutex, the way out of    *)
(* the condition variable and the clock failure of common.h:394 included.  *)
THEOREM MutexExcludes == Spec => []OwnerInside
  BY InitType, NextType, PTL DEF Spec

-----------------------------------------------------------------------------
(* The threads on their way to a permit are finitely many.                 *)
LEMMA RisingFinite == IsFiniteSet(Rising) /\ Cardinality(Rising) \in Nat
<1>1. Rising \subseteq Threads
  BY DEF Rising
<1> QED
  BY <1>1, SemaphoreAssumption, FS_Subset, FS_CardinalityType

(* Steps that neither add a permit, nor put a thread to sleep, nor take    *)
(* one off its way.                                                        *)
LEMMA QuietStep ==
  ASSUME TypeOK, NoLostWakeup,
         count' = count, Asleep' \subseteq Asleep, Rising' = Rising
  PROVE  NoLostWakeup'
  BY DEF NoLostWakeup

(* Initially nobody sleeps.                                                *)
LEMMA InitWakeup == Init => NoLostWakeup
  BY DEF Init, NoLostWakeup, Asleep

(* A permit given while somebody sleeps sends one sleeper on its way, and  *)
(* a thread on its way leaves it only with a permit or when there is none. *)
LEMMA NextWakeup ==
  ASSUME TypeOK, NoLostWakeup, [Next]_vars
  PROVE  NoLostWakeup'
<1> USE SemaphoreAssumption DEF TypeOK, Goto
<1>1. CASE UNCHANGED vars
  BY <1>1 DEF vars, NoLostWakeup, Asleep, Rising
<1>2. ASSUME NEW t \in Threads, Call(t) PROVE NoLostWakeup'
  <2>1. count' = count /\ Asleep' = Asleep /\ Rising' = Rising
    BY <1>2 DEF Call, Lock, UnlockCall, Destroy, Asleep, Rising
  <2> QED
    BY <2>1, QuietStep
<1>3. ASSUME NEW t \in Threads, Step(t) PROVE NoLostWakeup'
  <2>1. CASE EnterMutex(t) \/ TryLockFails(t) \/ GiveUp(t) \/ ClockFails(t)
    <3>1. count' = count /\ Asleep' = Asleep /\ Rising' = Rising
      BY <2>1 DEF EnterMutex, TryLockFails, GiveUp, ClockFails, Asleep, Rising
    <3> QED
      BY <3>1, QuietStep
  <2>2. CASE Reacquire(t) \/ Expired(t) \/ LockRelease(t) \/ Drained(t)
    <3>1. count' = count /\ Asleep' = Asleep /\ Rising' = Rising
      BY <2>2 DEF Reacquire, Expired, LockRelease, Drained, Asleep, Rising
    <3> QED
      BY <3>1, QuietStep
  <2>3. CASE Sleep(t)
    <3>1. Rising' \subseteq Rising
      BY <2>3 DEF Sleep, Rising
    <3>2. Cardinality(Rising') \in Nat
      BY <3>1, RisingFinite, FS_Subset, FS_CardinalityType
    <3>3. count' = 0
      BY <2>3 DEF Sleep
    <3> QED
      BY <3>2, <3>3 DEF NoLostWakeup
  <2>4. CASE TakePermit(t)
    <3>1. count' = count - 1 /\ Asleep' = Asleep
      BY <2>4 DEF TakePermit, Asleep
    <3>2. CASE pc[t] = "test"
      <4>1. Rising' = Rising
        BY <2>4, <3>2 DEF TakePermit, Rising
      <4> QED
        BY <3>1, <4>1, RisingFinite DEF NoLostWakeup
    <3>3. CASE pc[t] = "retest"
      <4>1. Rising' = Rising \ {t} /\ t \in Rising
        BY <2>4, <3>3 DEF TakePermit, Rising
      <4>2. Cardinality(Rising') = Cardinality(Rising) - 1
        BY <4>1, RisingFinite, FS_RemoveElement
      <4> QED
        BY <3>1, <4>2, RisingFinite DEF NoLostWakeup
    <3> QED
      BY <2>4, <3>2, <3>3 DEF TakePermit
  <2>5. CASE Give(t)
    <3>1. count' \in Nat /\ count' <= count + 1
      BY <2>5, CountType DEF Give
    <3>2. PICK l \in {"idle", "drain"} :
            \/ Asleep = {} /\ pc' = [pc EXCEPT ![t] = l]
            \/ \E u \in Asleep : pc' = [pc EXCEPT ![t] = l, ![u] = "woken"]
      BY <2>5 DEF Give
    <3>3. CASE Asleep = {} /\ pc' = [pc EXCEPT ![t] = l]
      <4>1. Asleep' = {}
        BY <3>3 DEF Asleep
      <4> QED
        BY <4>1 DEF NoLostWakeup
    <3>4. ASSUME NEW u \in Asleep, pc' = [pc EXCEPT ![t] = l, ![u] = "woken"]
          PROVE  NoLostWakeup'
      <4>1. pc[t] \in {"give", "draingive"} /\ pc[u] = "asleep" /\ u \in Threads
        BY <2>5 DEF Give, Asleep
      <4>2. Rising' = Rising \cup {u} /\ u \notin Rising
        BY <3>4, <4>1 DEF Rising
      <4>3. Cardinality(Rising') = Cardinality(Rising) + 1
        BY <4>2, RisingFinite, FS_AddElement
      <4>4. count <= Cardinality(Rising)
        BY <3>4 DEF NoLostWakeup
      <4> QED
        BY <3>1, <4>3, <4>4, RisingFinite DEF NoLostWakeup
    <3> QED
      BY <3>2, <3>3, <3>4
  <2> QED
    BY <1>3, <2>1, <2>2, <2>3, <2>4, <2>5 DEF Step
<1>4. ASSUME NEW t \in Threads, SpuriousWake(t) PROVE NoLostWakeup'
  <2>1. count' = count /\ Asleep' \subseteq Asleep
    BY <1>4 DEF SpuriousWake, Asleep
  <2>2. Rising' = Rising \cup {t} /\ t \notin Rising
    BY <1>4 DEF SpuriousWake, Rising
  <2>3. Cardinality(Rising') = Cardinality(Rising) + 1
    BY <2>2, RisingFinite, FS_AddElement
  <2> QED
    BY <2>1, <2>3, RisingFinite DEF NoLostWakeup
<1>5. ASSUME NEW t \in Threads, TimeOut(t) PROVE NoLostWakeup'
  <2>1. count' = count /\ Asleep' \subseteq Asleep /\ Rising' = Rising
    BY <1>5 DEF TimeOut, Asleep, Rising
  <2> QED
    BY <2>1, QuietStep
<1> QED
  BY <1>1, <1>2, <1>3, <1>4, <1>5 DEF Next

(* No wakeup is lost: signal, deadline and spurious wakeup may race in any *)
(* order (common.h:380-405 and 427).                                       *)
THEOREM WakeupsKept == Spec => []NoLostWakeup
<1>1. Init => TypeOK /\ OwnerInside /\ NoLostWakeup
  BY InitType, InitWakeup
<1>2. TypeOK /\ OwnerInside /\ NoLostWakeup /\ [Next]_vars
        => (TypeOK /\ OwnerInside /\ NoLostWakeup)'
  BY NextType, NextWakeup
<1> QED
  BY <1>1, <1>2, PTL DEF Spec
-----------------------------------------------------------------------------
(* With callers that unlock what they locked, an object on the way to a    *)
(* release has a permit to give.                                           *)
GiverHolds ==
  Disciplined =>
    \A t \in Threads : pc[t] \in {"release", "give", "draingive"} => held[t] > 0

(* Held permits are finitely many, and an object has no more than there    *)
(* are.                                                                    *)
LEMMA HeldFinite ==
  ASSUME TypeOK
  PROVE  /\ IsFiniteSet(HeldPermits) /\ Cardinality(HeldPermits) \in Nat
         /\ \A t \in Threads : held[t] <= Cardinality(HeldPermits)
<1>1. IsFiniteSet(Threads) /\ IsFiniteSet(1 .. CountSize - 1)
  BY SemaphoreAssumption, FS_Interval
<1>2. IsFiniteSet(Threads \X (1 .. CountSize - 1))
  BY <1>1, FS_Product
<1>3. HeldPermits \subseteq Threads \X (1 .. CountSize - 1)
  BY DEF HeldPermits
<1>4. IsFiniteSet(HeldPermits) /\ Cardinality(HeldPermits) \in Nat
  BY <1>2, <1>3, FS_Subset, FS_CardinalityType
<1>5. ASSUME NEW t \in Threads PROVE held[t] <= Cardinality(HeldPermits)
  <2>1. held[t] \in 0 .. CountSize - 1 /\ CountSize \in Nat
    BY SemaphoreAssumption DEF TypeOK
  <2>2. IsFiniteSet(1 .. held[t]) /\ Cardinality(1 .. held[t]) = held[t]
    BY <2>1, FS_Interval
  <2>3. IsFiniteSet({t}) /\ Cardinality({t}) = 1
    BY FS_Singleton
  <2>4. Cardinality({t} \X (1 .. held[t])) = 1 * held[t]
    BY <2>2, <2>3, FS_Product
  <2>5. {t} \X (1 .. held[t]) \subseteq HeldPermits
    BY <2>1 DEF HeldPermits
  <2>6. Cardinality({t} \X (1 .. held[t])) <= Cardinality(HeldPermits)
    BY <2>5, <1>4, FS_Subset
  <2> QED
    BY <2>1, <2>4, <2>6
<1> QED
  BY <1>4, <1>5

(* The steps that move a permit, and the rest.                             *)
LEMMA PermitSteps ==
  ASSUME TypeOK, GiverHolds, NEW t \in Threads,
         Call(t) \/ Step(t) \/ SpuriousWake(t) \/ TimeOut(t)
  PROVE  TakePermit(t) \/ Give(t) \/ (UNCHANGED <<count, held>> /\ GiverHolds')
<1> USE DEF TypeOK, GiverHolds, Goto
<1>1. CASE Call(t)
  <2>1. ASSUME NEW k \in WaitKinds, Lock(t, k) PROVE UNCHANGED <<count, held>> /\ GiverHolds'
    BY <2>1 DEF Lock
  <2>2. CASE UnlockCall(t)
    BY <2>2 DEF UnlockCall
  <2>3. CASE Destroy(t)
    BY <2>3 DEF Destroy
  <2> QED
    BY <1>1, <2>1, <2>2, <2>3 DEF Call
<1>2. CASE EnterMutex(t) \/ TryLockFails(t) \/ GiveUp(t) \/ ClockFails(t) \/ Sleep(t)
  BY <1>2 DEF EnterMutex, TryLockFails, GiveUp, ClockFails, Sleep
<1>3. CASE Reacquire(t) \/ Expired(t) \/ Drained(t) \/ SpuriousWake(t) \/ TimeOut(t)
  BY <1>3 DEF Reacquire, Expired, Drained, SpuriousWake, TimeOut
<1>4. CASE LockRelease(t)
  <2>1. held[t] \in Nat
    BY SemaphoreAssumption
  <2> QED
    BY <1>4, <2>1 DEF LockRelease
<1> QED
  BY <1>1, <1>2, <1>3, <1>4, Zenon DEF Step

(* A permit that is taken is one more with the object: the object's count  *)
(* does not wrap.                                                          *)
LEMMA TakeMoves ==
  ASSUME TypeOK, GiverHolds, PermitsConserved, NEW t \in Threads, TakePermit(t)
  PROVE  /\ count' = count - 1 /\ count > 0
         /\ held' = [held EXCEPT ![t] = @ + 1]
         /\ GiverHolds' /\ PermitsConserved'
<1> DEFINE h == <<t, held[t] + 1>>
<1>t. /\ held \in [Threads -> 0 .. CountSize - 1] /\ held[t] \in Nat /\ count \in Nat
      /\ MaxCount \in Nat /\ CountSize \in Nat /\ CountSize > MaxCount
      /\ count + Cardinality(HeldPermits) = MaxCount
      /\ IsFiniteSet(HeldPermits) /\ Cardinality(HeldPermits) \in Nat
      /\ held[t] <= Cardinality(HeldPermits)
  BY SemaphoreAssumption, HeldFinite DEF TypeOK, PermitsConserved
<1>1. /\ count > 0 /\ count' = count - 1
      /\ held' = [held EXCEPT ![t] = (held[t] + 1) % CountSize]
      /\ pc[t] \in {"test", "retest"} /\ pc' = [pc EXCEPT ![t] = "idle"]
  BY DEF TakePermit, Goto
<1>2. held[t] + 1 < CountSize
  BY <1>1, <1>t
<1>3. (held[t] + 1) % CountSize = held[t] + 1
  <2>1. held[t] + 1 \in 0 .. CountSize - 1
    BY <1>2, <1>t
  <2>2. \A x \in 0 .. CountSize - 1 : x % CountSize = x
    BY <1>1, <1>t
  <2> QED
    BY <2>1, <2>2
<1>4. held' = [held EXCEPT ![t] = held[t] + 1]
  BY <1>1, <1>3
<1>5. HeldPermits' = HeldPermits \cup {h}
  <2>1. ASSUME NEW u \in Threads, NEW i \in 1 .. CountSize - 1
        PROVE  i <= held'[u] <=> i <= held[u] \/ (u = t /\ i = held[t] + 1)
    <3>1. CASE u = t
      BY <3>1, <1>4, <1>t
    <3>2. CASE u # t
      BY <3>2, <1>4, <1>t
    <3> QED
      BY <3>1, <3>2
  <2>2. h \in Threads \X (1 .. CountSize - 1)
    BY <1>2, <1>t
  <2> QED
    BY <2>1, <2>2 DEF HeldPermits
<1>6. h \notin HeldPermits
  BY <1>t DEF HeldPermits
<1>7. Cardinality(HeldPermits \cup {h}) = Cardinality(HeldPermits) + 1
  BY <1>6, <1>t, FS_AddElement
<1>8. Cardinality(HeldPermits') = Cardinality(HeldPermits) + 1
  BY <1>5, <1>7
<1>9. PermitsConserved'
  BY <1>1, <1>8, <1>t DEF PermitsConserved
<1>10. GiverHolds'
  BY <1>1, <1>4, <1>t DEF GiverHolds, TypeOK
<1> QED
  BY <1>1, <1>4, <1>9, <1>10

(* A permit that is given leaves the object, and MxMax does not cut it     *)
(* short.                                                                  *)
LEMMA GiveMoves ==
  ASSUME Disciplined, TypeOK, GiverHolds, PermitsConserved, OwnerInside,
         NEW t \in Threads, Give(t)
  PROVE  /\ held[t] > 0 /\ count' = count + 1
         /\ held' = [held EXCEPT ![t] = @ - 1]
         /\ GiverHolds' /\ PermitsConserved'
<1> DEFINE h == <<t, held[t]>>
<1>t. /\ held \in [Threads -> 0 .. CountSize - 1] /\ held[t] \in 0 .. CountSize - 1
      /\ count \in Nat /\ MaxCount \in Nat /\ CountSize \in Nat /\ CountSize > 0
      /\ count + Cardinality(HeldPermits) = MaxCount
      /\ IsFiniteSet(HeldPermits) /\ Cardinality(HeldPermits) \in Nat
      /\ held[t] <= Cardinality(HeldPermits)
  BY SemaphoreAssumption, HeldFinite DEF TypeOK, PermitsConserved
<1>1. /\ count' = Incremented
      /\ held' = [held EXCEPT ![t] = (held[t] + CountSize - 1) % CountSize]
      /\ pc[t] \in {"give", "draingive"}
  BY DEF Give
<1>2. held[t] > 0
  BY <1>1 DEF GiverHolds
<1>3. (held[t] + CountSize - 1) % CountSize = held[t] - 1
  <2>1. held[t] - 1 \in 0 .. CountSize - 1 /\ held[t] + CountSize - 1 = (held[t] - 1) + CountSize
    BY <1>2, <1>t
  <2>2. \A x \in 0 .. CountSize - 1 : (x + CountSize) % CountSize = x
    BY <1>t
  <2> QED
    BY <2>1, <2>2
<1>4. held' = [held EXCEPT ![t] = held[t] - 1]
  BY <1>1, <1>3
<1>5. count' = count + 1
  BY <1>1, <1>2, <1>t DEF Incremented
<1>6. HeldPermits' = HeldPermits \ {h}
  <2>1. ASSUME NEW u \in Threads, NEW i \in 1 .. CountSize - 1
        PROVE  i <= held'[u] <=> i <= held[u] /\ ~(u = t /\ i = held[t])
    <3>1. CASE u = t
      BY <3>1, <1>4, <1>t
    <3>2. CASE u # t
      BY <3>2, <1>4, <1>t
    <3> QED
      BY <3>1, <3>2
  <2> QED
    BY <2>1 DEF HeldPermits
<1>7. h \in HeldPermits
  BY <1>2, <1>t DEF HeldPermits
<1>8. Cardinality(HeldPermits \ {h}) = Cardinality(HeldPermits) - 1
  BY <1>7, <1>t, FS_RemoveElement
<1>9. Cardinality(HeldPermits') = Cardinality(HeldPermits) - 1
  BY <1>6, <1>8
<1>10. PermitsConserved'
  BY <1>5, <1>9, <1>t DEF PermitsConserved
<1>11. GiverHolds'
  <2>1. PICK l \in {"idle", "drain"} :
          \/ pc' = [pc EXCEPT ![t] = l]
          \/ \E u \in Asleep : pc' = [pc EXCEPT ![t] = l, ![u] = "woken"]
    BY DEF Give, Goto
  <2>2. \A u \in Threads : pc'[u] \in {"release", "give", "draingive"} => u # t /\ pc'[u] = pc[u]
    BY <2>1 DEF TypeOK, Asleep
  <2>3. \A u \in Threads \ {t} : held'[u] = held[u]
    BY <1>4, <1>t
  <2> QED
    BY <2>2, <2>3 DEF GiverHolds
<1> QED
  BY <1>2, <1>4, <1>5, <1>10, <1>11

(* A step of disciplined callers conserves the permits and is a step of    *)
(* the atomic semaphore, or nothing to it.                                 *)
LEMMA PermitNext ==
  ASSUME Disciplined, TypeOK, OwnerInside, GiverHolds, PermitsConserved, [Next]_vars
  PROVE  /\ GiverHolds' /\ PermitsConserved'
         /\ [Abstract!Next]_(Abstract!vars)
<1>1. CASE UNCHANGED vars
  BY <1>1 DEF vars, GiverHolds, PermitsConserved, HeldPermits, Abstract!vars
<1>2. ASSUME NEW t \in Threads, Call(t) \/ Step(t) \/ SpuriousWake(t) \/ TimeOut(t)
      PROVE  /\ GiverHolds' /\ PermitsConserved'
             /\ [Abstract!Next]_(Abstract!vars)
  <2>1. CASE TakePermit(t)
    <3>1. Abstract!Acquire(t)
      BY <2>1, TakeMoves DEF Abstract!Acquire
    <3> QED
      BY <2>1, <3>1, TakeMoves DEF Abstract!Next
  <2>2. CASE Give(t)
    <3>1. Abstract!Release(t)
      BY <2>2, GiveMoves DEF Abstract!Release
    <3> QED
      BY <2>2, <3>1, GiveMoves DEF Abstract!Next
  <2>3. CASE UNCHANGED <<count, held>> /\ GiverHolds'
    BY <2>3 DEF PermitsConserved, HeldPermits, Abstract!vars
  <2> QED
    BY <1>2, <2>1, <2>2, <2>3, PermitSteps
<1> QED
  BY <1>1, <1>2 DEF Next

(* What holds before the first call.                                       *)
LEMMA InitPermits == Init => GiverHolds /\ PermitsConserved /\ Abstract!Init
<1> SUFFICES ASSUME Init PROVE GiverHolds /\ PermitsConserved /\ Abstract!Init
  OBVIOUS
<1>1. GiverHolds /\ Abstract!Init
  BY DEF Init, GiverHolds, Abstract!Init
<1>2. HeldPermits = {}
  BY SemaphoreAssumption DEF Init, HeldPermits
<1> QED
  BY <1>1, <1>2, FS_EmptySet, SemaphoreAssumption DEF Init, PermitsConserved

(* With callers that unlock what they locked, permits are conserved for    *)
(* any number of threads and permits: no release is cut short by MxMax,    *)
(* no object's unsigned count wraps, and a destructor gives back exactly   *)
(* what its object took, whatever times out or fails.                      *)
THEOREM PermitsKept == ASSUME Disciplined PROVE Spec => []PermitsConserved
<1>1. Init => TypeOK /\ OwnerInside /\ GiverHolds /\ PermitsConserved
  BY InitType, InitPermits
<1>2. TypeOK /\ OwnerInside /\ GiverHolds /\ PermitsConserved /\ [Next]_vars
        => (TypeOK /\ OwnerInside /\ GiverHolds /\ PermitsConserved)'
  BY NextType, PermitNext
<1> QED
  BY <1>1, <1>2, PTL DEF Spec

(* With such callers, the mutex, condition variable and counters of        *)
(* common.h:336-440 implement the atomic semaphore that Sync\Mutex and     *)
(* Sync\Readerwriter are written against.                                  *)
THEOREM SemaphoreImplementsAtomic == ASSUME Disciplined PROVE Spec => ImplementsSemaphore
<1>1. Init => TypeOK /\ OwnerInside /\ GiverHolds /\ PermitsConserved /\ Abstract!Init
  BY InitType, InitPermits
<1>2. TypeOK /\ OwnerInside /\ GiverHolds /\ PermitsConserved /\ [Next]_vars
        => (TypeOK /\ OwnerInside /\ GiverHolds /\ PermitsConserved)'
  BY NextType, PermitNext
<1>3. TypeOK /\ OwnerInside /\ GiverHolds /\ PermitsConserved /\ [Next]_vars
        => [Abstract!Next]_(Abstract!vars)
  BY PermitNext
<1> QED
  BY <1>1, <1>2, <1>3, PTL DEF Spec, ImplementsSemaphore, Abstract!Spec
=============================================================================
