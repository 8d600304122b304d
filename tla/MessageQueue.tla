---------------------------- MODULE MessageQueue ----------------------------
(***************************************************************************)
(* The bounded message queue of ext/kernel/message/queue.c.                *)
(*                                                                         *)
(* A queue is two rings of max_depth pointers.  The allocator ring         *)
(* (freelist) starts full and holds the blocks nobody uses;                *)
(* message_alloc takes from it, message_free puts back.  The data ring     *)
(* (queue_data) starts empty; write puts into it and tryread takes from    *)
(* it.  The four functions come in two identical pairs, so a step here is  *)
(* parameterised by the ring it works on.                                  *)
(*                                                                         *)
(* Every atomic instruction of the source (__sync_fetch_and_add, a load,   *)
(* a store, sem_wait, sem_post) is one action.  The memory model is        *)
(* sequential consistency: the stores are separated by locked adds, which  *)
(* order them on the platforms the extension builds for.                   *)
(***************************************************************************)
EXTENDS Integers, FiniteSets

CONSTANTS
  Threads,   \* every thread that calls a function of the queue
  Depth      \* queue->max_depth, after round_to_pow2

ASSUME ThreadsAssumption == IsFiniteSet(Threads)
ASSUME DepthAssumption == Depth \in Nat \ {0}

Rings == {"free", "data"}
NULL == 0
Blocks == 1 .. Depth          \* block i is memory + message_size * (i - 1)
Positions == 0 .. Depth - 1

VARIABLES
  slots,      \* slots[r][p]: freelist[p] or queue_data[p]
  count,      \* allocator.free_blocks / queue.entries
  blocked,    \* blocked_readers of each ring (see TypeOK)
  sem,        \* value of the POSIX semaphore of each ring
  takepos,    \* allocpos / readpos, modulo Depth
  putpos,     \* freepos / writepos, modulo Depth
  pc,         \* the next instruction of each thread
  ring,       \* the ring the thread's call works on
  mode,       \* "first"/"second": which attempt of a blocking call; else "try"
  pos,        \* the local variable pos
  msg         \* the block the thread holds (rv, or the message argument)

ringVars == <<slots, count, blocked, sem, takepos, putpos>>
threadVars == <<pc, ring, mode, pos, msg>>
vars == <<slots, count, blocked, sem, takepos, putpos, pc, ring, mode, pos, msg>>

TakeSteps == {"dec", "claim", "load", "clear", "undo"}
PutSteps == {"pclaim", "pwait", "pstore", "pcount", "pcheck", "pdec", "post"}
Steps == {"idle", "reg", "unreg", "sleep"} \cup TakeSteps \cup PutSteps
Modes == {"try", "first", "second"}

(* blocked_readers is an unsigned int.  It is only tested against zero, so *)
(* an integer below zero stands for the wrapped value; the two differ only *)
(* when it has drifted 2^32 below zero.                                    *)
TypeOK ==
  /\ slots \in [Rings -> [Positions -> Blocks \cup {NULL}]]
  /\ count \in [Rings -> Int]
  /\ blocked \in [Rings -> Int]
  /\ sem \in [Rings -> Nat]
  /\ takepos \in [Rings -> Positions]
  /\ putpos \in [Rings -> Positions]
  /\ pc \in [Threads -> Steps]
  /\ ring \in [Threads -> Rings]
  /\ mode \in [Threads -> Modes]
  /\ pos \in [Threads -> Positions]
  /\ msg \in [Threads -> Blocks \cup {NULL}]

(* phalcon_message_queue_init. *)
QueueInit ==
  /\ slots = [r \in Rings |->
                [p \in Positions |-> IF r = "free" THEN p + 1 ELSE NULL]]
  /\ count = [r \in Rings |-> IF r = "free" THEN Depth ELSE 0]
  /\ blocked = [r \in Rings |-> 0]
  /\ sem = [r \in Rings |-> 0]
  /\ takepos = [r \in Rings |-> 0]
  /\ putpos = [r \in Rings |-> 0]
  /\ pc = [t \in Threads |-> "idle"]
  /\ ring = [t \in Threads |-> "data"]
  /\ mode = [t \in Threads |-> "try"]
  /\ pos = [t \in Threads |-> 0]
  /\ msg = [t \in Threads |-> NULL]

Goto(t, l) == pc' = [pc EXCEPT ![t] = l]

Next1(p) == (p + 1) % Depth

-----------------------------------------------------------------------------
(* Taking: message_alloc on "free", tryread on "data".                     *)

(* Entering message_alloc/tryread (m = "try") or alloc_blocking/read       *)
(* (m = "first").                                                          *)
CallTake(t, r, m) ==
  /\ pc[t] = "idle" /\ msg[t] = NULL
  /\ ring' = [ring EXCEPT ![t] = r]
  /\ mode' = [mode EXCEPT ![t] = m]
  /\ Goto(t, "dec")
  /\ UNCHANGED <<ringVars, pos, msg>>

(* if (__sync_fetch_and_add(&count, -1) > 0) *)
DecCount(t) ==
  /\ pc[t] = "dec"
  /\ count' = [count EXCEPT ![ring[t]] = @ - 1]
  /\ Goto(t, IF count[ring[t]] > 0 THEN "claim" ELSE "undo")
  /\ UNCHANGED <<slots, blocked, sem, takepos, putpos, ring, mode, pos, msg>>

(* Mutant: __sync_add_and_fetch in place of __sync_fetch_and_add. *)
ClaimTakeAddFirst(t) ==
  /\ pc[t] = "claim"
  /\ pos' = [pos EXCEPT ![t] = Next1(takepos[ring[t]])]
  /\ takepos' = [takepos EXCEPT ![ring[t]] = Next1(@)]
  /\ Goto(t, "load")
  /\ UNCHANGED <<slots, count, blocked, sem, putpos, ring, mode, msg>>

(* pos = __sync_fetch_and_add(&allocpos or &readpos, 1) % max_depth *)
ClaimTake(t) ==
  /\ pc[t] = "claim"
  /\ pos' = [pos EXCEPT ![t] = takepos[ring[t]]]
  /\ takepos' = [takepos EXCEPT ![ring[t]] = Next1(@)]
  /\ Goto(t, "load")
  /\ UNCHANGED <<slots, count, blocked, sem, putpos, ring, mode, msg>>

(* rv = slot[pos], and the spin loop around it: the step waits until the   *)
(* slot is filled.                                                         *)
LoadSlot(t) ==
  /\ pc[t] = "load"
  /\ slots[ring[t]][pos[t]] # NULL
  /\ msg' = [msg EXCEPT ![t] = slots[ring[t]][pos[t]]]
  /\ Goto(t, "clear")
  /\ UNCHANGED <<ringVars, ring, mode, pos>>

(* Mutant: the slot keeps the pointer. *)
ClearSlotKeepsPointer(t) ==
  /\ pc[t] = "clear"
  /\ pos' = [pos EXCEPT ![t] = 0]
  /\ Goto(t, IF mode[t] = "second" THEN "unreg" ELSE "idle")
  /\ UNCHANGED <<ringVars, ring, mode, msg>>

(* slot[pos] = NULL; return rv.  The local pos goes out of scope. *)
ClearSlot(t) ==
  /\ pc[t] = "clear"
  /\ slots' = [slots EXCEPT ![ring[t]][pos[t]] = NULL]
  /\ pos' = [pos EXCEPT ![t] = 0]
  /\ Goto(t, IF mode[t] = "second" THEN "unreg" ELSE "idle")
  /\ UNCHANGED <<count, blocked, sem, takepos, putpos, ring, mode, msg>>

(* Mutant: the failed attempt is not undone. *)
UndoCountForgotten(t) ==
  /\ pc[t] = "undo"
  /\ Goto(t, CASE mode[t] = "try" -> "idle"
               [] mode[t] = "first" -> "reg"
               [] mode[t] = "second" -> "sleep")
  /\ UNCHANGED <<ringVars, ring, mode, pos, msg>>

(* __sync_fetch_and_add(&count, 1); return NULL *)
UndoCount(t) ==
  /\ pc[t] = "undo"
  /\ count' = [count EXCEPT ![ring[t]] = @ + 1]
  /\ Goto(t, CASE mode[t] = "try" -> "idle"
               [] mode[t] = "first" -> "reg"
               [] mode[t] = "second" -> "sleep")
  /\ UNCHANGED <<slots, blocked, sem, takepos, putpos, ring, mode, pos, msg>>

-----------------------------------------------------------------------------
(* The loop of the blocking forms, alloc_blocking and read.                *)

(* Mutant: the thread goes to sleep without the second attempt. *)
RegisterSkipsAttempt(t) ==
  /\ pc[t] = "reg"
  /\ blocked' = [blocked EXCEPT ![ring[t]] = @ + 1]
  /\ mode' = [mode EXCEPT ![t] = "second"]
  /\ Goto(t, "sleep")
  /\ UNCHANGED <<slots, count, sem, takepos, putpos, ring, pos, msg>>

(* __sync_fetch_and_add(&blocked_readers, 1), then the second attempt *)
Register(t) ==
  /\ pc[t] = "reg"
  /\ blocked' = [blocked EXCEPT ![ring[t]] = @ + 1]
  /\ mode' = [mode EXCEPT ![t] = "second"]
  /\ Goto(t, "dec")
  /\ UNCHANGED <<slots, count, sem, takepos, putpos, ring, pos, msg>>

(* Mutant: a successful second attempt leaves blocked_readers raised. *)
UnregisterForgotten(t) ==
  /\ pc[t] = "unreg"
  /\ Goto(t, "idle")
  /\ UNCHANGED <<ringVars, ring, mode, pos, msg>>

(* The second attempt succeeded: __sync_fetch_and_add(&blocked_readers, -1) *)
Unregister(t) ==
  /\ pc[t] = "unreg"
  /\ blocked' = [blocked EXCEPT ![ring[t]] = @ - 1]
  /\ Goto(t, "idle")
  /\ UNCHANGED <<slots, count, sem, takepos, putpos, ring, mode, pos, msg>>

(* sem_wait, retried on EINTR; then the loop starts over. *)
SemWait(t) ==
  /\ pc[t] = "sleep"
  /\ sem[ring[t]] > 0
  /\ sem' = [sem EXCEPT ![ring[t]] = @ - 1]
  /\ mode' = [mode EXCEPT ![t] = "first"]
  /\ Goto(t, "dec")
  /\ UNCHANGED <<slots, count, blocked, takepos, putpos, ring, pos, msg>>

-----------------------------------------------------------------------------
(* Putting: message_free on "free", write on "data".                       *)

CallPut(t, r) ==
  /\ pc[t] = "idle" /\ msg[t] # NULL
  /\ ring' = [ring EXCEPT ![t] = r]
  /\ mode' = [mode EXCEPT ![t] = "try"]
  /\ Goto(t, "pclaim")
  /\ UNCHANGED <<ringVars, pos, msg>>

ClaimPut(t) ==
  /\ pc[t] = "pclaim"
  /\ pos' = [pos EXCEPT ![t] = putpos[ring[t]]]
  /\ putpos' = [putpos EXCEPT ![ring[t]] = Next1(@)]
  /\ Goto(t, "pwait")
  /\ UNCHANGED <<slots, count, blocked, sem, takepos, ring, mode, msg>>

(* Mutant: the putter does not wait for the slot to be emptied. *)
SeeEmptyNoWait(t) ==
  /\ pc[t] = "pwait"
  /\ Goto(t, "pstore")
  /\ UNCHANGED <<ringVars, ring, mode, pos, msg>>

(* cur = slot[pos]; while (cur) ...: the step waits for an empty slot. *)
SeeEmpty(t) ==
  /\ pc[t] = "pwait"
  /\ slots[ring[t]][pos[t]] = NULL
  /\ Goto(t, "pstore")
  /\ UNCHANGED <<ringVars, ring, mode, pos, msg>>

StoreSlot(t) ==
  /\ pc[t] = "pstore"
  /\ slots' = [slots EXCEPT ![ring[t]][pos[t]] = msg[t]]
  /\ msg' = [msg EXCEPT ![t] = NULL]
  /\ pos' = [pos EXCEPT ![t] = 0]
  /\ Goto(t, "pcount")
  /\ UNCHANGED <<count, blocked, sem, takepos, putpos, ring, mode>>

IncCount(t) ==
  /\ pc[t] = "pcount"
  /\ count' = [count EXCEPT ![ring[t]] = @ + 1]
  /\ Goto(t, "pcheck")
  /\ UNCHANGED <<slots, blocked, sem, takepos, putpos, ring, mode, pos, msg>>

(* Mutant: the putter never wakes a reader. *)
CheckBlockedNever(t) ==
  /\ pc[t] = "pcheck"
  /\ Goto(t, "idle")
  /\ UNCHANGED <<ringVars, ring, mode, pos, msg>>

(* if (blocked_readers) *)
CheckBlocked(t) ==
  /\ pc[t] = "pcheck"
  /\ Goto(t, IF blocked[ring[t]] # 0 THEN "pdec" ELSE "idle")
  /\ UNCHANGED <<ringVars, ring, mode, pos, msg>>

DecBlocked(t) ==
  /\ pc[t] = "pdec"
  /\ blocked' = [blocked EXCEPT ![ring[t]] = @ - 1]
  /\ Goto(t, "post")
  /\ UNCHANGED <<slots, count, sem, takepos, putpos, ring, mode, pos, msg>>

SemPost(t) ==
  /\ pc[t] = "post"
  /\ sem' = [sem EXCEPT ![ring[t]] = @ + 1]
  /\ Goto(t, "idle")
  /\ UNCHANGED <<slots, count, blocked, takepos, putpos, ring, mode, pos, msg>>

-----------------------------------------------------------------------------
(* One instruction inside a call. *)
QueueStep(t) ==
  \/ DecCount(t) \/ ClaimTake(t) \/ LoadSlot(t) \/ ClearSlot(t) \/ UndoCount(t)
  \/ Register(t) \/ Unregister(t) \/ SemWait(t)
  \/ ClaimPut(t) \/ SeeEmpty(t) \/ StoreSlot(t) \/ IncCount(t)
  \/ CheckBlocked(t) \/ DecBlocked(t) \/ SemPost(t)

(* The most general client: any thread, any call, as long as it only puts  *)
(* a block it holds.                                                       *)
QueueNext ==
  \E t \in Threads :
    \/ \E r \in Rings :
         \/ \E m \in {"try", "first"} : CallTake(t, r, m)
         \/ CallPut(t, r)
    \/ QueueStep(t)

QueueSpec == QueueInit /\ [][QueueNext]_vars

-----------------------------------------------------------------------------
(* A thread owes a wakeup token on r from the moment it registers until it *)
(* unregisters or consumes a token of the semaphore.                       *)
Registered(r) ==
  {t \in Threads : ring[t] = r /\ \/ pc[t] \in {"unreg", "sleep"}
                                  \/ pc[t] \in TakeSteps /\ mode[t] = "second"}

(* A writer that has taken a token off blocked_readers and not posted it.  *)
Posting(r) == {t \in Threads : ring[t] = r /\ pc[t] = "post"}

(* The wakeup tokens of a ring are conserved: the waiters counted in       *)
(* blocked_readers, the posts in the semaphore and the posts under way add *)
(* up to the registered readers, however the unsynchronised test and       *)
(* decrement of lines 174-176 and 189-191 race with lines 156 and 216.     *)
TokensConserved ==
  \A r \in Rings :
    blocked[r] + sem[r] + Cardinality(Posting(r)) = Cardinality(Registered(r))
=============================================================================
