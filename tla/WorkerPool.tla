----------------------------- MODULE WorkerPool -----------------------------
(***************************************************************************)
(* One worker process of the socket server (ext/server/core.c): the main   *)
(* thread polls for events and hands each readable connection to a pool of *)
(* threads over a MessageQueue; on shutdown it sends one OP_EXIT per       *)
(* thread and the process exits without joining them.                      *)
(*                                                                         *)
(* The code of a thread between two calls of the queue touches only its    *)
(* own locals and the block it holds, so it is folded into the action that *)
(* enters the next call.                                                   *)
(***************************************************************************)
EXTENDS MessageQueue

CONSTANTS
  Main,       \* the thread running phalcon_server_process_clients
  Workers,    \* the threads of phalcon_server_worker_threadpool_init
  MaxOps,     \* bound on the events that arrive
  MaxBatch,   \* PHALCON_SERVER_EVENTS_PER_BATCH: events per epoll_wait
  CanStop     \* whether phalcon_server_stop_workers may run

ASSUME PoolAssumption ==
  /\ Threads = Workers \cup {Main}
  /\ Workers # {}        \* PHALCON_SERVER_MAX_WORKER_THREADS is 4
  /\ Main \notin Workers
  /\ MaxOps \in Nat /\ MaxBatch \in Nat
  /\ CanStop \in BOOLEAN

OP_EXIT == 0
Ops == 1 .. MaxOps

VARIABLES
  shutdown,   \* wdata->shutdown, in memory shared with the parent process
  loc,        \* where each thread is between its calls of the queue
  batch,      \* events of the current epoll_wait still to hand over
  made,       \* OP_READs written so far
  exits,      \* OP_EXITs threadpool_destroy still has to send
  op,         \* contents of each block: an OP_READ's number, or OP_EXIT
  handled     \* how often op->handler ran for each OP_READ

poolVars == <<shutdown, loc, batch, made, exits, op, handled>>
allVars == <<vars, poolVars>>

Locs == {"test", "poll", "batch", "fill", "destroy", "fillexit", "end",
         "got", "leave", "gone"}

PoolTypeOK ==
  /\ TypeOK
  /\ shutdown \in BOOLEAN
  /\ loc \in [Threads -> Locs]
  /\ batch \in 0 .. MaxBatch
  /\ made \in 0 .. MaxOps
  /\ exits \in 0 .. Cardinality(Workers)
  /\ op \in [Blocks -> Ops \cup {OP_EXIT}]
  /\ handled \in [Ops -> Nat]

PoolInit ==
  /\ QueueInit
  /\ shutdown = FALSE
  /\ loc = [t \in Threads |-> "test"]
  /\ batch = 0 /\ made = 0
  /\ exits = Cardinality(Workers)
  /\ op \in [Blocks -> {OP_EXIT}]      \* malloc'ed, not read before a write
  /\ handled = [i \in Ops |-> 0]

Alive == loc[Main] # "gone"
Move(t, l) == loc' = [loc EXCEPT ![t] = l]
Returned(t) == pc[t] = "idle"

-----------------------------------------------------------------------------
(* The main thread.                                                        *)

(* while (likely(!mydata->shutdown)) *)
MainTest ==
  /\ loc[Main] = "test" /\ Returned(Main)
  /\ Move(Main, IF shutdown THEN "destroy" ELSE "poll")
  /\ UNCHANGED <<vars, shutdown, batch, made, exits, op, handled>>

(* epoll_wait returns n events for the pool (the writable ones and the     *)
(* listening sockets are served by the main thread itself), or EINTR.      *)
MainPoll ==
  /\ loc[Main] = "poll"
  /\ \E n \in 0 .. MaxBatch :
       /\ made + n <= MaxOps
       /\ batch' = n
       /\ Move(Main, IF n = 0 THEN "test" ELSE "batch")
  /\ UNCHANGED <<vars, shutdown, made, exits, op, handled>>

(* op = phalcon_message_queue_message_alloc_blocking(...) in the batch *)
MainAlloc ==
  /\ loc[Main] = "batch"
  /\ CallTake(Main, "free", "first")
  /\ Move(Main, "fill")
  /\ UNCHANGED <<shutdown, batch, made, exits, op, handled>>

(* op->type = OP_READ; ...; phalcon_message_queue_write(...).  The rest of *)
(* the batch is handed over without looking at shutdown again.             *)
MainWrite ==
  /\ loc[Main] = "fill"
  /\ CallPut(Main, "data")
  /\ op' = [op EXCEPT ![msg[Main]] = made + 1]
  /\ made' = made + 1
  /\ batch' = batch - 1
  /\ Move(Main, IF batch = 1 THEN "test" ELSE "batch")
  /\ UNCHANGED <<shutdown, exits, handled>>

(* phalcon_server_worker_threadpool_destroy: one iteration's alloc ... *)
DestroyAlloc ==
  /\ loc[Main] = "destroy"
  /\ CallTake(Main, "free", "first")
  /\ Move(Main, "fillexit")
  /\ UNCHANGED <<shutdown, batch, made, exits, op, handled>>

(* ... and its write of OP_EXIT. *)
DestroyWrite ==
  /\ loc[Main] = "fillexit"
  /\ CallPut(Main, "data")
  /\ op' = [op EXCEPT ![msg[Main]] = OP_EXIT]
  /\ exits' = exits - 1
  /\ Move(Main, IF exits = 1 THEN "end" ELSE "destroy")
  /\ UNCHANGED <<shutdown, batch, made, handled>>

(* process_clients returns and init_workers calls exit(0): every thread of *)
(* the process stops where it is.                                          *)
ProcessExit ==
  /\ loc[Main] = "end" /\ Returned(Main)
  /\ Move(Main, "gone")
  /\ UNCHANGED <<vars, shutdown, batch, made, exits, op, handled>>

(* phalcon_server_stop_workers in the parent raises the flag.  The SIGTERM *)
(* it also sends is not handled: it ends the process between any two       *)
(* steps, which is the behaviour of PoolSpec in which no step follows.     *)
StopWorkers ==
  /\ CanStop /\ ~shutdown
  /\ shutdown' = TRUE
  /\ UNCHANGED <<vars, loc, batch, made, exits, op, handled>>

-----------------------------------------------------------------------------
(* A pool thread, phalcon_server_worker_thread_process.                    *)

(* while (likely(!data->shutdown)) op = phalcon_message_queue_read(...) *)
WorkerRead(t) ==
  /\ loc[t] = "test"
  /\ ~shutdown
  /\ CallTake(t, "data", "first")
  /\ Move(t, "got")
  /\ UNCHANGED <<shutdown, batch, made, exits, op, handled>>

WorkerStops(t) ==
  /\ loc[t] = "test" /\ Returned(t)
  /\ shutdown
  /\ Move(t, "gone")
  /\ UNCHANGED <<vars, shutdown, batch, made, exits, op, handled>>

(* Mutant: phalcon_message_queue_write in place of _message_free. *)
WorkerHandleRequeues(t) ==
  /\ loc[t] = "got"
  /\ CallPut(t, "data")
  /\ op[msg[t]] # OP_EXIT
  /\ handled' = [handled EXCEPT ![op[msg[t]]] = @ + 1]
  /\ Move(t, "test")
  /\ UNCHANGED <<shutdown, batch, made, exits, op>>

(* default: op->handler(...); phalcon_message_queue_message_free(...) *)
WorkerHandle(t) ==
  /\ loc[t] = "got"
  /\ CallPut(t, "free")
  /\ op[msg[t]] # OP_EXIT
  /\ handled' = [handled EXCEPT ![op[msg[t]]] = @ + 1]
  /\ Move(t, "test")
  /\ UNCHANGED <<shutdown, batch, made, exits, op>>

(* case OP_EXIT: phalcon_message_queue_message_free(...); return *)
WorkerExitOp(t) ==
  /\ loc[t] = "got"
  /\ CallPut(t, "free")
  /\ op[msg[t]] = OP_EXIT
  /\ Move(t, "leave")
  /\ UNCHANGED <<shutdown, batch, made, exits, op, handled>>

WorkerReturn(t) ==
  /\ loc[t] = "leave" /\ Returned(t)
  /\ Move(t, "gone")
  /\ UNCHANGED <<vars, shutdown, batch, made, exits, op, handled>>

-----------------------------------------------------------------------------
InsideCall(t) == QueueStep(t) /\ UNCHANGED poolVars

MainStep ==
  \/ MainTest \/ MainPoll \/ MainAlloc \/ MainWrite
  \/ DestroyAlloc \/ DestroyWrite \/ ProcessExit
  \/ InsideCall(Main)

WorkerStep(t) ==
  \/ WorkerRead(t) \/ WorkerStops(t) \/ WorkerHandle(t)
  \/ WorkerExitOp(t) \/ WorkerReturn(t)
  \/ InsideCall(t)

PoolNext ==
  /\ Alive
  /\ MainStep \/ (\E t \in Workers : WorkerStep(t)) \/ StopWorkers

PoolSpec == PoolInit /\ [][PoolNext]_allVars

(* Every thread is scheduled by the kernel.  Nothing obliges an event to   *)
(* arrive (MainPoll may return no event for ever) or the parent to stop.   *)
PoolFairSpec ==
  /\ PoolSpec
  /\ WF_allVars(Alive /\ MainStep)
  /\ \A t \in Workers : WF_allVars(Alive /\ WorkerStep(t))

-----------------------------------------------------------------------------
(* Slot p of ring r still holds a pointer its taker has already loaded.    *)
Emptying(r, p) ==
  \E t \in Threads : pc[t] = "clear" /\ ring[t] = r /\ pos[t] = p

(* Every block is in exactly one place: one slot of one ring or the hands  *)
(* of one thread.  No block is leaked, freed twice or handed to two        *)
(* threads, whatever the interleaving of the spinning takers and putters.  *)
BlocksOwnedOnce ==
  \A b \in Blocks :
    Cardinality({t \in Threads : msg[t] = b}) +
    Cardinality({s \in Rings \X Positions :
                   slots[s[1]][s[2]] = b /\ ~Emptying(s[1], s[2])}) = 1

(* The test of lines 168 and 183 and the store of lines 172 and 187 are    *)
(* two steps; the slot is still empty when the store happens, so no stored *)
(* pointer is overwritten.                                                 *)
NothingOverwritten ==
  \A t \in Threads : pc[t] = "pstore" => slots[ring[t]][pos[t]] = NULL

(* free_blocks and entries differ from the filled slots exactly by the     *)
(* stores not yet counted, the takers under way and the failed attempts    *)
(* not yet undone.                                                         *)
CountTracksSlots ==
  \A r \in Rings :
    LET On(S) == Cardinality({t \in Threads : ring[t] = r /\ pc[t] \in S})
    IN  count[r] = Cardinality({p \in Positions : slots[r][p] # NULL})
                   - On({"pcount"}) - On({"claim", "load", "clear"}) - On({"undo"})

(* No OP_READ is handled twice, and none that was not written.             *)
HandledAtMostOnce ==
  \A i \in Ops : handled[i] <= (IF i <= made THEN 1 ELSE 0)

(* First written, first claimed: when an OP_READ has been handled, every   *)
(* older one that is still in the data ring has been claimed by a reader.  *)
OldestFirst ==
  \A i, j \in Ops : i < j /\ handled[j] > 0 =>
    \A p \in Positions :
      slots["data"][p] # NULL /\ op[slots["data"][p]] = i =>
        \E t \in Workers : /\ pc[t] \in {"load", "clear"}
                           /\ ring[t] = "data" /\ pos[t] = p

(* When every pool thread sleeps in sem_wait with no token left and the    *)
(* main thread is not inside a write, fewer operations are left behind     *)
(* than there are threads: a reader that finds entries at or below zero    *)
(* only because another reader has not undone its decrement (line 206) can *)
(* consume the wakeup without taking the message, and at most Workers - 1  *)
(* readers can be in that window.                                          *)
FewLeftBehind ==
  (/\ \A t \in Workers : pc[t] = "sleep" /\ ring[t] = "data"
   /\ sem["data"] = 0
   /\ ~(ring[Main] = "data" /\ pc[Main] \in PutSteps))
  => count["data"] < Cardinality(Workers)

(* The main thread and the pool threads never all wait for each other: one *)
(* asleep in alloc_blocking for a free block, the others in read, and no   *)
(* wakeup for any of them (queue.c:150-163 and 210-223).  The messages a   *)
(* lost wakeup strands (FewLeftBehind) are fewer than the blocks as long   *)
(* as the ring is at least as deep as there are pool threads.              *)
NoMutualWait ==
  (\A t \in Threads : pc[t] = "sleep") => \E t \in Threads : sem[ring[t]] > 0

(* An OP_READ that was written is handled while the process lives          *)
(* (server.c:557, onReceive is "Emitted when the socket has received").    *)
EveryOpHandled ==
  \A i \in Ops : (made >= i) ~> (handled[i] > 0 \/ shutdown)
=============================================================================
