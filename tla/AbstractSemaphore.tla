-------------------------- MODULE AbstractSemaphore --------------------------
(***************************************************************************)
(* What a Phalcon\Sync\Semaphore promises: a fixed number of permits, each *)
(* either in the semaphore or with one holder, taken and returned in one   *)
(* atomic step.  Mutex and Readerwriter are written against this view.     *)
(***************************************************************************)
EXTENDS Integers

CONSTANTS Threads, MaxCount

VARIABLES permits, holds

vars == <<permits, holds>>

Init ==
  /\ permits = MaxCount
  /\ holds = [t \in Threads |-> 0]

Acquire(t) ==
  /\ permits > 0
  /\ permits' = permits - 1
  /\ holds' = [holds EXCEPT ![t] = @ + 1]

Release(t) ==
  /\ holds[t] > 0
  /\ permits' = permits + 1
  /\ holds' = [holds EXCEPT ![t] = @ - 1]

Next == \E t \in Threads : Acquire(t) \/ Release(t)

Spec == Init /\ [][Next]_vars
=============================================================================
