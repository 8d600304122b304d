------------------------------ MODULE SyncEvent ------------------------------
(***************************************************************************)
(* Phalcon\Sync\Event (ext/sync/event.c) over the event of                 *)
(* ext/sync/common.h: a flag in shared memory, manual (stays signaled      *)
(* until reset) or auto (each signal lets one waiter through), protected   *)
(* by a pthread mutex, with a condition variable and a count of waiters.   *)
(*                                                                         *)
(* Acquiring the mutex is a step; what a thread does with it, up to the    *)
(* unlock, is one step.                                                    *)
(***************************************************************************)
EXTENDS Integers, FiniteSets

CONSTANTS
  Threads,
  NoThread,      \* value of the mutex when nobody owns it
  Manuals,       \* values of $manual to start with
  KindSets,      \* sets of the kinds of wait() a script makes
  MaxFires       \* bound on the signals

ASSUME EventAssumption ==
  /\ IsFiniteSet(Threads) /\ NoThread \notin Threads
  /\ Manuals \subseteq BOOLEAN
  /\ \A K \in KindSets : K \subseteq {"zero", "timed", "infinite"}
  /\ MaxFires \in Nat \ {0}

VARIABLES
  manual,     \* MxManual
  kinds,      \* the kinds of wait() the threads make
  signaled,   \* MxSignaled
  waiting,    \* MxWaiting
  mutex,      \* owner of MxMutex
  pc,
  wait,       \* the Wait argument of the call under way
  fires,      \* signals so far: $prefire and the calls of fire()
  passes      \* calls of wait() on an auto event that returned 1 so far

fixed == <<manual, kinds>>
vars == <<manual, kinds, signaled, waiting, mutex, pc, wait, fires, passes>>

Inside == {"test", "retest", "expired", "firing", "resetting"}
PCs == {"idle", "enter", "asleep", "woken", "timedout", "fire", "reset"} \cup Inside

TypeOK ==
  /\ manual \in Manuals /\ kinds \in KindSets
  /\ signaled \in BOOLEAN
  /\ waiting \in 0 .. Cardinality(Threads)
  /\ mutex \in Threads \cup {NoThread}
  /\ pc \in [Threads -> PCs]
  /\ wait \in [Threads -> {"zero", "timed", "infinite"}]
  /\ fires \in 0 .. MaxFires
  /\ passes \in Nat

(* phalcon_event_init; the prefired event counts as one signal. *)
Init ==
  /\ manual \in Manuals /\ kinds \in KindSets
  /\ "zero" \in kinds => manual
  /\ signaled \in BOOLEAN
  /\ fires = (IF signaled THEN 1 ELSE 0)
  /\ waiting = 0
  /\ mutex = NoThread
  /\ pc = [t \in Threads |-> "idle"]
  /\ wait = [t \in Threads |-> "zero"]
  /\ passes = 0

Asleep == {t \in Threads : pc[t] = "asleep"}
Rising == {t \in Threads : pc[t] \in {"woken", "retest"}}
Waiters == {t \in Threads : pc[t] \in {"asleep", "woken", "retest", "timedout", "expired"}}

Goto(t, l) == pc' = [pc EXCEPT ![t] = l]
Unlock == mutex' = NoThread
Counted == passes' = IF manual THEN passes ELSE passes + 1

-----------------------------------------------------------------------------
(* wait(): phalcon_event_wait.  Any integer argument of the method reaches *)
(* it as a short finite wait, because event.c:161 passes the type tag of   *)
(* the argument; "zero" comes from writelock(0) of a Readerwriter, which   *)
(* waits on a manual event.                                                *)

Wait(t, k) ==
  /\ pc[t] = "idle"
  /\ wait' = [wait EXCEPT ![t] = k]
  /\ Goto(t, "enter")
  /\ UNCHANGED <<fixed, signaled, waiting, mutex, fires, passes>>

EnterMutex(t) ==
  /\ pc[t] = "enter"
  /\ mutex = NoThread /\ mutex' = t
  /\ Goto(t, "test")
  /\ UNCHANGED <<fixed, signaled, waiting, wait, fires, passes>>

TryLockFails(t) ==
  /\ pc[t] = "enter"
  /\ wait[t] = "zero" /\ mutex # NoThread
  /\ Goto(t, "idle")
  /\ UNCHANGED <<fixed, signaled, waiting, mutex, wait, fires, passes>>

(* MxSignaled && (MxManual || !MxWaiting) *)
MayPass == signaled /\ (manual \/ waiting = 0)

(* Return 1 at once, resetting an auto event. *)
Pass(t) ==
  /\ pc[t] = "test" /\ MayPass
  /\ signaled' = manual
  /\ Counted
  /\ Unlock /\ Goto(t, "idle")
  /\ UNCHANGED <<fixed, waiting, wait, fires>>

(* Wait == 0, or a finite wait whose clock_gettime fails. *)
GiveUp(t) ==
  /\ pc[t] = "test" /\ ~MayPass
  /\ wait[t] \in {"zero", "timed"}
  /\ Unlock /\ Goto(t, "idle")
  /\ UNCHANGED <<fixed, signaled, waiting, wait, fires, passes>>

(* MxWaiting++ and the first pthread_cond_wait or _timedwait *)
FirstSleep(t) ==
  /\ pc[t] = "test" /\ ~MayPass
  /\ wait[t] # "zero"
  /\ waiting' = waiting + 1
  /\ Unlock /\ Goto(t, "asleep")
  /\ UNCHANGED <<fixed, signaled, wait, fires, passes>>

SpuriousWake(t) ==
  /\ pc[t] = "asleep"
  /\ Goto(t, "woken")
  /\ UNCHANGED <<fixed, signaled, waiting, mutex, wait, fires, passes>>

TimeOut(t) ==
  /\ pc[t] = "asleep" /\ wait[t] = "timed"
  /\ Goto(t, "timedout")
  /\ UNCHANGED <<fixed, signaled, waiting, mutex, wait, fires, passes>>

Reacquire(t) ==
  /\ pc[t] \in {"woken", "timedout"}
  /\ mutex = NoThread /\ mutex' = t
  /\ Goto(t, IF pc[t] = "woken" THEN "retest" ELSE "expired")
  /\ UNCHANGED <<fixed, signaled, waiting, wait, fires, passes>>

(* while (MxSignaled[0] == 0): the waiter goes back to sleep ... *)
SleepAgain(t) ==
  /\ pc[t] = "retest" /\ ~signaled
  /\ Unlock /\ Goto(t, "asleep")
  /\ UNCHANGED <<fixed, signaled, waiting, wait, fires, passes>>

(* Mutant: a waiter does not take the signal of an auto event. *)
WaiterPassesKeepsSignal(t) ==
  /\ pc[t] = "retest" /\ signaled
  /\ waiting' = waiting - 1
  /\ Counted
  /\ Unlock /\ Goto(t, "idle")
  /\ UNCHANGED <<fixed, signaled, wait, fires>>

(* ... or leaves the loop, takes the signal of an auto event, returns 1. *)
WaiterPasses(t) ==
  /\ pc[t] = "retest" /\ signaled
  /\ waiting' = waiting - 1
  /\ signaled' = manual
  /\ Counted
  /\ Unlock /\ Goto(t, "idle")
  /\ UNCHANGED <<fixed, wait, fires>>

(* Mutant: a waiter that times out stays counted. *)
ExpiredStaysCounted(t) ==
  /\ pc[t] = "expired"
  /\ Unlock /\ Goto(t, "idle")
  /\ UNCHANGED <<fixed, signaled, waiting, wait, fires, passes>>

(* Mutant: the timeout and the common exit both take the waiter off. *)
ExpiredTakenOffTwice(t) ==
  /\ pc[t] = "expired"
  /\ waiting' = waiting - 2
  /\ Unlock /\ Goto(t, "idle")
  /\ UNCHANGED <<fixed, signaled, wait, fires, passes>>

(* Result2 != 0: MxWaiting-- and return 0, signaled or not. *)
Expired(t) ==
  /\ pc[t] = "expired"
  /\ waiting' = waiting - 1
  /\ Unlock /\ Goto(t, "idle")
  /\ UNCHANGED <<fixed, signaled, wait, fires, passes>>

-----------------------------------------------------------------------------
(* fire(): phalcon_event_fire; reset(): phalcon_event_reset.               *)

CallFire(t) ==
  /\ pc[t] = "idle"
  /\ fires + Cardinality({u \in Threads : pc[u] \in {"fire", "firing"}}) < MaxFires
  /\ Goto(t, "fire")
  /\ UNCHANGED <<fixed, signaled, waiting, mutex, wait, fires, passes>>

CallReset(t) ==
  /\ pc[t] = "idle" /\ manual      \* returns 0 for an auto event
  /\ Goto(t, "reset")
  /\ UNCHANGED <<fixed, signaled, waiting, mutex, wait, fires, passes>>

LockFlag(t) ==
  /\ pc[t] \in {"fire", "reset"}
  /\ mutex = NoThread /\ mutex' = t
  /\ Goto(t, IF pc[t] = "fire" THEN "firing" ELSE "resetting")
  /\ UNCHANGED <<fixed, signaled, waiting, wait, fires, passes>>

(* Mutant: pthread_cond_signal also for a manual event. *)
SignalsOne == IF Asleep = {} THEN {{}} ELSE {{u} : u \in Asleep}

(* Mutant: fire() sets the flag and wakes nobody. *)
SignalsNobody == {{}}

(* The sleepers pthread_cond_broadcast or pthread_cond_signal wakes. *)
Signals == IF manual THEN {Asleep}
           ELSE IF Asleep = {} THEN {{}} ELSE {{u} : u \in Asleep}

(* Set the flag, wake all sleepers of a manual event or one of an auto     *)
(* event, unlock.                                                          *)
Fire(t) ==
  /\ pc[t] = "firing"
  /\ signaled' = TRUE
  /\ fires' = fires + 1
  /\ \E W \in Signals :
       pc' = [u \in Threads |-> IF u = t THEN "idle" ELSE IF u \in W THEN "woken" ELSE pc[u]]
  /\ Unlock
  /\ UNCHANGED <<fixed, waiting, wait, passes>>

Reset(t) ==
  /\ pc[t] = "resetting"
  /\ signaled' = FALSE
  /\ Unlock /\ Goto(t, "idle")
  /\ UNCHANGED <<fixed, waiting, wait, fires, passes>>

-----------------------------------------------------------------------------
Call(t) == (\E k \in kinds : Wait(t, k)) \/ CallFire(t) \/ CallReset(t)

Step(t) ==
  \/ EnterMutex(t) \/ TryLockFails(t) \/ Pass(t) \/ GiveUp(t) \/ FirstSleep(t)
  \/ Reacquire(t) \/ SleepAgain(t) \/ WaiterPasses(t) \/ Expired(t)
  \/ LockFlag(t) \/ Fire(t) \/ Reset(t)

Next == \E t \in Threads : Call(t) \/ Step(t) \/ SpuriousWake(t) \/ TimeOut(t)

Spec == Init /\ [][Next]_vars

TakesMutex(t) == EnterMutex(t) \/ Reacquire(t) \/ LockFlag(t)

(* Runnable threads run, deadlines pass, and a thread that waits for the   *)
(* mutex is not kept from it for ever by threads that keep polling.        *)
FairSpec ==
  Spec /\ \A t \in Threads :
            WF_vars(Step(t)) /\ WF_vars(TimeOut(t)) /\ SF_vars(TakesMutex(t))

-----------------------------------------------------------------------------
(* MxWaiting counts the threads inside the wait loop: it decides whether a *)
(* newcomer may take the signal of an auto event, so a leak in it would    *)
(* shut every newcomer out.                                                *)
WaitingCounts == waiting = Cardinality(Waiters)

(* Each signal of an auto event lets at most one thread through: passes    *)
(* never outrun the fires (event.c:177, "Lets a thread through that is     *)
(* waiting").                                                              *)
OnePassPerFire ==
  ~manual => passes + (IF signaled THEN 1 ELSE 0) <= fires

(* While a manual event is signaled nobody is asleep on it: fire() woke    *)
(* every sleeper and later callers pass at once.                           *)
ManualWakesAll == manual /\ signaled => Asleep = {}

(* As long as no script uses a deadline, a signaled auto event with a      *)
(* sleeper has a thread on its way to take the signal.                     *)
SignalNotStranded ==
  "timed" \notin kinds /\ ~manual /\ signaled /\ Asleep # {} => Rising # {}

(* A signaled event does not leave a thread in an infinite wait asleep for *)
(* ever (comment at common.h:496, "Avoid a potential starvation issue").   *)
SleeperNotStarved ==
  \A t \in Threads : ~<>[](signaled /\ pc[t] = "asleep" /\ wait[t] = "infinite")
=============================================================================
