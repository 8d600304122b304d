--------------------------- MODULE SyncEventProofs ---------------------------
(***************************************************************************)
(* Proofs about SyncEvent for any number of threads and signals, for       *)
(* manual and auto events.                                                 *)
(***************************************************************************)
EXTENDS SyncEvent, FiniteSetTheorems, TLAPS

(* A thread between its lock and its unlock of MxMutex owns it.            *)
OwnerInv == \A t \in Threads : pc[t] \in Inside => mutex = t

(* The calls of fire() under way fit under the bound as well.              *)
Firers == {u \in Threads : pc[u] \in {"fire", "firing"}}
FireInv == fires + Cardinality(Firers) <= MaxFires

(* A call of wait() has an argument of the script, and only one with a     *)
(* deadline runs out of it.                                                *)
KindInv ==
  \A t \in Threads :
    /\ pc[t] \in {"enter", "test"} \/ t \in Waiters => wait[t] \in kinds
    /\ pc[t] \in {"timedout", "expired"} => wait[t] = "timed"

(* TypeOK without the bounds of the two counters.                          *)
Types ==
  /\ manual \in BOOLEAN /\ kinds \in KindSets
  /\ signaled \in BOOLEAN
  /\ waiting \in Int
  /\ mutex \in Threads \cup {NoThread}
  /\ pc \in [Threads -> PCs]
  /\ wait \in [Threads -> {"zero", "timed", "infinite"}]
  /\ fires \in Nat
  /\ passes \in Nat
  /\ manual \in Manuals

(* The inductive invariant.                                                *)
IInv ==
  /\ Types /\ OwnerInv /\ FireInv /\ KindInv
  /\ WaitingCounts /\ ManualWakesAll /\ OnePassPerFire /\ SignalNotStranded

(* The sets the invariants count are finite.                               *)
LEMMA SetsFinite ==
  /\ IsFiniteSet(Waiters) /\ Cardinality(Waiters) \in 0 .. Cardinality(Threads)
  /\ IsFiniteSet(Firers) /\ Cardinality(Firers) \in Nat
<1>1. Waiters \subseteq Threads /\ Firers \subseteq Threads
  BY DEF Waiters, Firers
<1>2. IsFiniteSet(Waiters) /\ IsFiniteSet(Firers)
  BY <1>1, EventAssumption, FS_Subset
<1>3. Cardinality(Waiters) <= Cardinality(Threads)
  BY <1>1, EventAssumption, FS_Subset
<1>4. /\ Cardinality(Waiters) \in Nat /\ Cardinality(Firers) \in Nat
      /\ Cardinality(Threads) \in Nat
  BY <1>2, EventAssumption, FS_CardinalityType
<1> QED
  BY <1>2, <1>3, <1>4

(* Adding or removing one thread changes a finite set's size by one.       *)
LEMMA CardOne ==
  ASSUME NEW S, NEW x, IsFiniteSet(S)
  PROVE  /\ x \notin S => Cardinality(S \cup {x}) = Cardinality(S) + 1
         /\ x \in S => Cardinality(S \ {x}) = Cardinality(S) - 1
BY FS_AddElement, FS_RemoveElement

(* No wait is under way when the event is created.                         *)
LEMMA InitIInv == Init => IInv
<1> SUFFICES ASSUME Init PROVE IInv
  OBVIOUS
<1>1. \A t \in Threads : pc[t] = "idle"
  BY DEF Init
<1>2. Waiters = {} /\ Firers = {} /\ Asleep = {}
  BY <1>1 DEF Waiters, Firers, Asleep
<1>3. Cardinality({}) = 0
  BY FS_EmptySet
<1>4. Types
  BY EventAssumption DEF Init, Types, PCs
<1>5. OwnerInv /\ KindInv
  BY <1>1, <1>2 DEF OwnerInv, KindInv, Inside
<1>6. FireInv
  BY <1>2, <1>3, EventAssumption DEF FireInv, Init
<1>7. WaitingCounts
  BY <1>2, <1>3 DEF WaitingCounts, Init
<1>8. ManualWakesAll /\ SignalNotStranded
  BY <1>2 DEF ManualWakesAll, SignalNotStranded
<1>9. OnePassPerFire
  BY DEF OnePassPerFire, Init
<1> QED
  BY <1>4, <1>5, <1>6, <1>7, <1>8, <1>9 DEF IInv

(* The mutex has one owner, and every step keeps the types.                *)
LEMMA NextTypes == IInv /\ [Next]_vars => Types' /\ OwnerInv' /\ KindInv'
<1> SUFFICES ASSUME IInv, [Next]_vars PROVE Types' /\ OwnerInv' /\ KindInv'
  OBVIOUS
<1> USE EventAssumption
<1> USE DEF IInv, Types, PCs, Inside, OwnerInv, KindInv, Waiters, Goto, Unlock, fixed
<1>1. CASE UNCHANGED vars
  BY <1>1 DEF vars
<1>2. ASSUME NEW t \in Threads, NEW k \in kinds, Wait(t, k)
      PROVE  Types' /\ OwnerInv' /\ KindInv'
  BY <1>2 DEF Wait
<1>3. ASSUME NEW t \in Threads, CallFire(t) \/ CallReset(t)
      PROVE  Types' /\ OwnerInv' /\ KindInv'
  BY <1>3 DEF CallFire, CallReset
<1>4. ASSUME NEW t \in Threads, EnterMutex(t) \/ TryLockFails(t)
      PROVE  Types' /\ OwnerInv' /\ KindInv'
  BY <1>4 DEF EnterMutex, TryLockFails
<1>5. ASSUME NEW t \in Threads, Pass(t) \/ WaiterPasses(t)
      PROVE  Types' /\ OwnerInv' /\ KindInv'
  BY <1>5 DEF Pass, WaiterPasses, Counted
<1>6. ASSUME NEW t \in Threads, GiveUp(t) \/ FirstSleep(t)
      PROVE  Types' /\ OwnerInv' /\ KindInv'
  BY <1>6 DEF GiveUp, FirstSleep
<1>7. ASSUME NEW t \in Threads, Reacquire(t)
      PROVE  Types' /\ OwnerInv' /\ KindInv'
  BY <1>7 DEF Reacquire
<1>8. ASSUME NEW t \in Threads, SleepAgain(t) \/ Expired(t) \/ Reset(t)
      PROVE  Types' /\ OwnerInv' /\ KindInv'
  <2>1. CASE SleepAgain(t)
    BY <2>1 DEF SleepAgain
  <2>2. CASE Expired(t)
    BY <2>2 DEF Expired
  <2>3. CASE Reset(t)
    BY <2>3 DEF Reset
  <2> QED
    BY <1>8, <2>1, <2>2, <2>3
<1>9. ASSUME NEW t \in Threads, LockFlag(t)
      PROVE  Types' /\ OwnerInv' /\ KindInv'
  BY <1>9 DEF LockFlag
<1>10. ASSUME NEW t \in Threads, Fire(t)
       PROVE  Types' /\ OwnerInv' /\ KindInv'
  <2>1. PICK W \in Signals :
          pc' = [u \in Threads |-> IF u = t THEN "idle" ELSE IF u \in W THEN "woken" ELSE pc[u]]
    BY <1>10 DEF Fire
  <2>2. W \subseteq Asleep
    BY DEF Signals
  <2> QED
    BY <1>10, <2>1, <2>2 DEF Fire, Asleep
<1>11. ASSUME NEW t \in Threads, SpuriousWake(t) \/ TimeOut(t)
       PROVE  Types' /\ OwnerInv' /\ KindInv'
  BY <1>11 DEF SpuriousWake, TimeOut
<1> QED
  BY <1>1, <1>2, <1>3, <1>4, <1>5, <1>6, <1>7, <1>8, <1>9, <1>10, <1>11
  DEF Next, Call, Step
(* MxWaiting follows the set of threads in the wait loop: a first sleep    *)
(* enters it, a pass or an expired deadline leaves it, and no other step   *)
(* moves a thread across its border.                                       *)
LEMMA NextWaiting == IInv /\ [Next]_vars => WaitingCounts'
<1> SUFFICES ASSUME IInv, [Next]_vars PROVE WaitingCounts'
  OBVIOUS
<1> USE DEF WaitingCounts, Goto
<1>w. /\ waiting = Cardinality(Waiters) /\ IsFiniteSet(Waiters)
      /\ pc \in [Threads -> PCs]
  BY SetsFinite DEF IInv, Types
<1>s. ASSUME waiting' = waiting, Waiters' = Waiters PROVE WaitingCounts'
  BY <1>w, <1>s
<1>1. CASE UNCHANGED vars
  BY <1>1, <1>s DEF vars, Waiters
<1>2. ASSUME NEW t \in Threads, Call(t) PROVE WaitingCounts'
  <2>1. waiting' = waiting /\ Waiters' = Waiters
    BY <1>2, <1>w DEF Call, Wait, CallFire, CallReset, Waiters
  <2> QED
    BY <2>1, <1>s
<1>3. ASSUME NEW t \in Threads,
             EnterMutex(t) \/ TryLockFails(t) \/ Pass(t) \/ GiveUp(t) \/ Reset(t)
      PROVE  WaitingCounts'
  <2>1. waiting' = waiting /\ Waiters' = Waiters
    BY <1>3, <1>w DEF EnterMutex, TryLockFails, Pass, GiveUp, Reset, Waiters
  <2> QED
    BY <2>1, <1>s
<1>4. ASSUME NEW t \in Threads, SleepAgain(t) \/ SpuriousWake(t) \/ TimeOut(t)
      PROVE  WaitingCounts'
  <2>1. waiting' = waiting /\ Waiters' = Waiters
    BY <1>4, <1>w DEF SleepAgain, SpuriousWake, TimeOut, Waiters
  <2> QED
    BY <2>1, <1>s
<1>5. ASSUME NEW t \in Threads, Reacquire(t) \/ LockFlag(t) PROVE WaitingCounts'
  <2>1. waiting' = waiting /\ Waiters' = Waiters
    <3>1. CASE Reacquire(t)
      BY <3>1, <1>w DEF Reacquire, Waiters
    <3>2. CASE LockFlag(t)
      BY <3>2, <1>w DEF LockFlag, Waiters
    <3> QED
      BY <1>5, <3>1, <3>2
  <2> QED
    BY <2>1, <1>s
<1>6. ASSUME NEW t \in Threads, FirstSleep(t) PROVE WaitingCounts'
  <2>1. t \notin Waiters /\ Waiters' = Waiters \cup {t} /\ waiting' = waiting + 1
    BY <1>6, <1>w DEF FirstSleep, Waiters
  <2> QED
    BY <2>1, <1>w, CardOne
<1>7. ASSUME NEW t \in Threads, WaiterPasses(t) \/ Expired(t) PROVE WaitingCounts'
  <2>1. t \in Waiters /\ Waiters' = Waiters \ {t} /\ waiting' = waiting - 1
    BY <1>7, <1>w DEF WaiterPasses, Expired, Waiters
  <2> QED
    BY <2>1, <1>w, CardOne
<1>8. ASSUME NEW t \in Threads, Fire(t) PROVE WaitingCounts'
  <2>1. PICK W \in Signals :
          pc' = [u \in Threads |-> IF u = t THEN "idle" ELSE IF u \in W THEN "woken" ELSE pc[u]]
    BY <1>8 DEF Fire
  <2>2. W \subseteq Asleep
    BY DEF Signals
  <2>3. waiting' = waiting /\ Waiters' = Waiters
    BY <1>8, <1>w, <2>1, <2>2 DEF Fire, Waiters, Asleep
  <2> QED
    BY <2>3, <1>s
<1> QED
  BY <1>1, <1>2, <1>3, <1>4, <1>5, <1>6, <1>7, <1>8 DEF Next, Step

(* The signals made and the calls of fire() under way stay under the bound.*)
LEMMA NextFires == IInv /\ [Next]_vars => FireInv'
<1> SUFFICES ASSUME IInv, [Next]_vars PROVE FireInv'
  OBVIOUS
<1> USE DEF FireInv, Goto
<1>w. /\ fires + Cardinality(Firers) <= MaxFires /\ fires \in Nat
      /\ IsFiniteSet(Firers) /\ Cardinality(Firers) \in Nat
      /\ MaxFires \in Nat
      /\ pc \in [Threads -> PCs]
  BY SetsFinite, EventAssumption DEF IInv, Types
<1>s. ASSUME fires' = fires, Firers' = Firers PROVE FireInv'
  BY <1>w, <1>s
<1>1. CASE UNCHANGED vars
  BY <1>1, <1>s DEF vars, Firers
<1>2. ASSUME NEW t \in Threads, (\E k \in kinds : Wait(t, k)) \/ CallReset(t)
      PROVE  FireInv'
  <2>1. fires' = fires /\ Firers' = Firers
    BY <1>2, <1>w DEF Wait, CallReset, Firers
  <2> QED
    BY <2>1, <1>s
<1>3. ASSUME NEW t \in Threads, CallFire(t) PROVE FireInv'
  <2>1. /\ t \notin Firers /\ Firers' = Firers \cup {t} /\ fires' = fires
        /\ fires + Cardinality(Firers) < MaxFires
    BY <1>3, <1>w DEF CallFire, Firers
  <2>2. Cardinality(Firers') = Cardinality(Firers) + 1
    BY <2>1, <1>w, CardOne
  <2> QED
    BY <2>1, <2>2, <1>w
<1>4. ASSUME NEW t \in Threads,
             \/ EnterMutex(t) \/ TryLockFails(t) \/ Pass(t) \/ GiveUp(t) \/ Reset(t)
             \/ FirstSleep(t)
      PROVE  FireInv'
  <2>1. fires' = fires /\ Firers' = Firers
    BY <1>4, <1>w DEF EnterMutex, TryLockFails, Pass, GiveUp, Reset, FirstSleep, Firers
  <2> QED
    BY <2>1, <1>s
<1>5. ASSUME NEW t \in Threads,
             \/ SleepAgain(t) \/ SpuriousWake(t) \/ TimeOut(t) \/ WaiterPasses(t)
             \/ Expired(t)
      PROVE  FireInv'
  <2>1. fires' = fires /\ Firers' = Firers
    BY <1>5, <1>w DEF SleepAgain, SpuriousWake, TimeOut, WaiterPasses, Expired, Firers
  <2> QED
    BY <2>1, <1>s
<1>6. ASSUME NEW t \in Threads, Reacquire(t) \/ LockFlag(t) PROVE FireInv'
  <2>1. fires' = fires /\ Firers' = Firers
    <3>1. CASE Reacquire(t)
      BY <3>1, <1>w DEF Reacquire, Firers
    <3>2. CASE LockFlag(t)
      BY <3>2, <1>w DEF LockFlag, Firers
    <3> QED
      BY <1>6, <3>1, <3>2
  <2> QED
    BY <2>1, <1>s
<1>7. ASSUME NEW t \in Threads, Fire(t) PROVE FireInv'
  <2>1. PICK W \in Signals :
          pc' = [u \in Threads |-> IF u = t THEN "idle" ELSE IF u \in W THEN "woken" ELSE pc[u]]
    BY <1>7 DEF Fire
  <2>2. W \subseteq Asleep
    BY DEF Signals
  <2>3. t \in Firers /\ Firers' = Firers \ {t} /\ fires' = fires + 1
    BY <1>7, <1>w, <2>1, <2>2 DEF Fire, Firers, Asleep
  <2>4. Cardinality(Firers') = Cardinality(Firers) - 1
    BY <2>3, <1>w, CardOne
  <2> QED
    BY <2>3, <2>4, <1>w
<1> QED
  BY <1>1, <1>2, <1>3, <1>4, <1>5, <1>6, <1>7 DEF Next, Call, Step
(* Nobody sleeps on a signaled manual event: threads fall asleep only on a *)
(* flag they have seen down under the mutex, and fire() wakes them all.    *)
LEMMA NextManual == IInv /\ [Next]_vars => ManualWakesAll'
<1> SUFFICES ASSUME IInv, [Next]_vars PROVE ManualWakesAll'
  OBVIOUS
<1> USE DEF IInv, Types, ManualWakesAll, Asleep, Goto, fixed
<1>1. CASE UNCHANGED vars
  BY <1>1 DEF vars
<1>2. ASSUME NEW t \in Threads, Call(t) PROVE ManualWakesAll'
  BY <1>2 DEF Call, Wait, CallFire, CallReset
<1>3. ASSUME NEW t \in Threads,
             \/ EnterMutex(t) \/ TryLockFails(t) \/ Pass(t) \/ GiveUp(t) \/ Reset(t)
             \/ WaiterPasses(t) \/ Expired(t)
      PROVE  ManualWakesAll'
  BY <1>3 DEF EnterMutex, TryLockFails, Pass, GiveUp, Reset, WaiterPasses, Expired, MayPass
<1>4. ASSUME NEW t \in Threads,
             \/ FirstSleep(t) \/ SleepAgain(t) \/ SpuriousWake(t) \/ TimeOut(t)
      PROVE  ManualWakesAll'
  BY <1>4 DEF FirstSleep, SleepAgain, SpuriousWake, TimeOut, MayPass
<1>5. ASSUME NEW t \in Threads, Reacquire(t) \/ LockFlag(t) PROVE ManualWakesAll'
  BY <1>5 DEF Reacquire, LockFlag
<1>6. ASSUME NEW t \in Threads, Fire(t) PROVE ManualWakesAll'
  BY <1>6 DEF Fire, Signals
<1> QED
  BY <1>1, <1>2, <1>3, <1>4, <1>5, <1>6 DEF Next, Step

(* A pass takes the signal down, and only fire() puts it up again.         *)
LEMMA NextPasses == IInv /\ [Next]_vars => OnePassPerFire'
<1> SUFFICES ASSUME IInv, [Next]_vars PROVE OnePassPerFire'
  OBVIOUS
<1> USE DEF IInv, Types, OnePassPerFire, fixed
<1>1. CASE UNCHANGED vars
  BY <1>1 DEF vars
<1>2. ASSUME NEW t \in Threads, Call(t) PROVE OnePassPerFire'
  BY <1>2 DEF Call, Wait, CallFire, CallReset
<1>3. ASSUME NEW t \in Threads,
             \/ EnterMutex(t) \/ TryLockFails(t) \/ GiveUp(t) \/ FirstSleep(t)
             \/ Expired(t) \/ SleepAgain(t) \/ SpuriousWake(t) \/ TimeOut(t)
             \/ Reacquire(t) \/ LockFlag(t)
      PROVE  OnePassPerFire'
  <2>1. UNCHANGED <<manual, signaled, passes, fires>>
    BY <1>3 DEF EnterMutex, TryLockFails, GiveUp, FirstSleep, Expired, SleepAgain,
                SpuriousWake, TimeOut, Reacquire, LockFlag
  <2> QED
    BY <2>1
<1>4. ASSUME NEW t \in Threads, Pass(t) \/ WaiterPasses(t) PROVE OnePassPerFire'
  BY <1>4 DEF Pass, WaiterPasses, Counted, MayPass
<1>5. ASSUME NEW t \in Threads, Fire(t) PROVE OnePassPerFire'
  BY <1>5 DEF Fire
<1>6. ASSUME NEW t \in Threads, Reset(t) PROVE OnePassPerFire'
  BY <1>6 DEF Reset
<1> QED
  BY <1>1, <1>2, <1>3, <1>4, <1>5, <1>6 DEF Next, Step

(* Without deadlines the threads in the wait loop are asleep or rising.    *)
LEMMA SleepersAndRisers ==
  ASSUME IInv, "timed" \notin kinds PROVE Waiters = Asleep \cup Rising
<1>1. \A t \in Threads : pc[t] \notin {"timedout", "expired"}
  BY DEF IInv, KindInv, Waiters
<1> QED
  BY <1>1 DEF Waiters, Asleep, Rising

(* The signal of an auto event is not stranded: whoever falls asleep while *)
(* it is up found MxWaiting above zero, so another thread is on its way.   *)
LEMMA NextStranded == IInv /\ [Next]_vars => SignalNotStranded'
<1> SUFFICES ASSUME IInv, [Next]_vars,
                    "timed" \notin kinds', manual' = FALSE, signaled', Asleep' # {}
             PROVE  Rising' # {}
  <2>1. IInv /\ [Next]_vars => manual' \in BOOLEAN
    BY NextTypes DEF Types
  <2> QED
    BY <2>1 DEF SignalNotStranded
<1>k. kinds' = kinds /\ manual' = manual
  <2>1. CASE UNCHANGED vars
    BY <2>1 DEF vars
  <2>2. ASSUME NEW t \in Threads, Call(t) \/ SpuriousWake(t) \/ TimeOut(t)
        PROVE  kinds' = kinds /\ manual' = manual
    BY <2>2 DEF Call, Wait, CallFire, CallReset, SpuriousWake, TimeOut, fixed
  <2>3. ASSUME NEW t \in Threads, Step(t) PROVE kinds' = kinds /\ manual' = manual
    BY <2>3 DEF Step, EnterMutex, TryLockFails, Pass, GiveUp, FirstSleep, Reacquire,
                SleepAgain, WaiterPasses, Expired, LockFlag, Fire, Reset, fixed
  <2> QED
    BY <2>1, <2>2, <2>3 DEF Next
<1>h. signaled /\ Asleep # {} => Rising # {}
  BY <1>k DEF IInv, SignalNotStranded
<1>t. pc \in [Threads -> PCs]
  BY DEF IInv, Types
<1>a. ASSUME signaled' = signaled, Asleep' \subseteq Asleep, Rising \subseteq Rising'
      PROVE  Rising' # {}
  BY <1>a, <1>h
<1>1. CASE UNCHANGED vars
  BY <1>1, <1>a DEF vars, Asleep, Rising
<1>2. ASSUME NEW t \in Threads, Call(t) PROVE Rising' # {}
  <2>1. signaled' = signaled /\ Asleep' = Asleep /\ Rising' = Rising
    BY <1>2, <1>t DEF Call, Wait, CallFire, CallReset, Asleep, Rising, Goto
  <2> QED
    BY <2>1, <1>a
<1>3. ASSUME NEW t \in Threads,
             EnterMutex(t) \/ TryLockFails(t) \/ GiveUp(t) \/ Expired(t) \/ TimeOut(t)
      PROVE  Rising' # {}
  <2>1. signaled' = signaled /\ Asleep' \subseteq Asleep /\ Rising' = Rising
    BY <1>3, <1>t DEF EnterMutex, TryLockFails, GiveUp, Expired, TimeOut, Asleep, Rising, Goto
  <2> QED
    BY <2>1, <1>a
<1>4. ASSUME NEW t \in Threads, SpuriousWake(t) PROVE Rising' # {}
  <2>1. signaled' = signaled /\ Asleep' \subseteq Asleep /\ Rising \subseteq Rising'
    BY <1>4, <1>t DEF SpuriousWake, Asleep, Rising, Goto
  <2> QED
    BY <2>1, <1>a
<1>5. ASSUME NEW t \in Threads, Reacquire(t) \/ LockFlag(t) PROVE Rising' # {}
  <2>1. CASE Reacquire(t)
    <3>1. signaled' = signaled /\ Asleep' = Asleep /\ Rising \subseteq Rising'
      BY <2>1, <1>t DEF Reacquire, Asleep, Rising, Goto
    <3> QED
      BY <3>1, <1>a
  <2>2. CASE LockFlag(t)
    <3>1. signaled' = signaled /\ Asleep' = Asleep /\ Rising = Rising'
      BY <2>2, <1>t DEF LockFlag, Asleep, Rising, Goto
    <3> QED
      BY <3>1, <1>a
  <2> QED
    BY <1>5, <2>1, <2>2
<1>6. ASSUME NEW t \in Threads, FirstSleep(t) PROVE Rising' # {}
  <2>1. signaled' = signaled /\ waiting # 0
    BY <1>6, <1>k DEF FirstSleep, MayPass
  <2>2. Waiters # {}
    BY <2>1, FS_EmptySet DEF IInv, WaitingCounts
  <2>3. Rising # {}
    BY <2>1, <2>2, <1>h, <1>k, SleepersAndRisers
  <2>4. Rising' = Rising
    BY <1>6, <1>t DEF FirstSleep, Rising, Goto
  <2> QED
    BY <2>3, <2>4
<1>7. ASSUME NEW t \in Threads, SleepAgain(t) \/ Pass(t) \/ WaiterPasses(t) \/ Reset(t)
      PROVE  FALSE
  <2>1. CASE SleepAgain(t)
    BY <2>1 DEF SleepAgain
  <2>2. CASE Pass(t) \/ WaiterPasses(t)
    <3>1. signaled' = manual
      BY <2>2 DEF Pass, WaiterPasses
    <3>2. signaled' = FALSE
      BY <3>1, <1>k
    <3> QED
      BY <3>2
  <2>3. CASE Reset(t)
    <3>1. signaled' = FALSE
      BY <2>3 DEF Reset
    <3> QED
      BY <3>1
  <2> QED
    BY <1>7, <2>1, <2>2, <2>3
<1>8. ASSUME NEW t \in Threads, Fire(t) PROVE Rising' # {}
  <2>1. PICK W \in Signals :
          pc' = [u \in Threads |-> IF u = t THEN "idle" ELSE IF u \in W THEN "woken" ELSE pc[u]]
    BY <1>8 DEF Fire
  <2>2. Asleep # {} /\ t \notin Asleep
    BY <1>8, <2>1 DEF Fire, Asleep
  <2>3. PICK u \in Asleep : W = {u}
    BY <2>2, <1>k DEF Signals
  <2>4. u \in Threads /\ pc'[u] = "woken"
    BY <2>1, <2>2, <2>3 DEF Asleep
  <2> QED
    BY <2>4 DEF Rising
<1> QED
  BY <1>1, <1>2, <1>3, <1>4, <1>5, <1>6, <1>7, <1>8 DEF Next, Step

(* The inductive invariant holds in every reachable state.                 *)
LEMMA AlwaysIInv == Spec => []IInv
<1>1. IInv /\ [Next]_vars => IInv'
  BY NextTypes, NextWaiting, NextFires, NextManual, NextPasses, NextStranded DEF IInv
<1> QED
  BY <1>1, InitIInv, PTL DEF Spec

(* The event's variables keep their types and bounds: MxWaiting stays      *)
(* between zero and the number of threads, so the unsigned counter never   *)
(* wraps.                                                                  *)
THEOREM EventTypeOK == Spec => []TypeOK
<1>1. IInv => TypeOK
  <2> SUFFICES ASSUME IInv PROVE TypeOK
    OBVIOUS
  <2>1. waiting \in 0 .. Cardinality(Threads)
    BY SetsFinite DEF IInv, WaitingCounts
  <2>2. fires \in 0 .. MaxFires
    BY SetsFinite, EventAssumption DEF IInv, Types, FireInv
  <2> QED
    BY <2>1, <2>2 DEF IInv, Types, TypeOK
<1> QED
  BY <1>1, AlwaysIInv, PTL

(* MxWaiting is exactly the number of threads in the wait loop, whatever   *)
(* signals, spurious wakeups and deadlines cross (common.h:494-552).       *)
THEOREM WaitersCounted == Spec => []WaitingCounts
  BY AlwaysIInv, PTL DEF IInv

(* Nobody is asleep on a manual event that is signaled.                    *)
THEOREM ManualNobodySleeps == Spec => []ManualWakesAll
  BY AlwaysIInv, PTL DEF IInv

(* An auto event lets through at most as many threads as it was fired.     *)
THEOREM OnePass == Spec => []OnePassPerFire
  BY AlwaysIInv, PTL DEF IInv

(* Where no wait has a deadline, a signaled auto event with a sleeper has  *)
(* a thread on its way to take the signal.                                 *)
THEOREM NotStranded == Spec => []SignalNotStranded
  BY AlwaysIInv, PTL DEF IInv
=============================================================================
