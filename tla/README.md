# Phalcon7: shared state, fibers and transactions in TLA+

Phalcon7 (`src/ext`) is a web framework written as a PHP extension in C. Most of
it is request-local: PHP values in and out. This project is about the parts
where the order of things matters and a test sees one order in millions: the
message queue of the socket server and the thread pool it feeds, the
`Phalcon\Sync` primitives in shared memory, the channels of `Phalcon\Async` on
cooperative fibers, and the implicit transactions of the ORM over the nested
transactions of the database adapter.

## 1. The system

### What is modelled

| part | code | state it keeps | operations |
|---|---|---|---|
| message queue | `kernel/message/queue.c` | two rings of pointers, a count, a counter of blocked readers and a semaphore each | `message_alloc`, `message_alloc_blocking`, `message_free`, `write`, `tryread`, `read` |
| worker pool | `server/core.c` | the shutdown flag, blocks holding operations, the threads | event loop, hand-over, `threadpool_destroy`, exit, `worker_thread_process`, `stop_workers` |
| named memory | `sync/common.h` 129-315 | a shared segment: status byte, mutex, reference count, object | `namedmem_init`, `_ready`, `_unmap` |
| semaphore | `sync/common.h` 323-439, `sync/semaphore.c` | mutex, condition variable, count, maximum; per object the permits to give back | `lock`, `unlock`, destructor |
| event | `sync/common.h` 447-590, `sync/event.c` | mutex, condition variable, manual flag, signaled flag, waiter count | `wait`, `fire`, `reset` |
| mutex | `sync/mutex.c`, `.h` | a shared binary semaphore; per object a critical section, an owner, a recursion count | `lock`, `unlock`, destructor |
| reader-writer lock | `sync/readerwriter.c`, `.h` | two binary semaphores, an event, a reader count; per object its locks | `readlock`, `readunlock`, `writelock`, `writeunlock`, destructor |
| async channel | `async/channel.c`, with `async/task.c`, `async/core.h`, `async/fiber/asm.c` | per channel a ring buffer, a list of pending senders, one of receivers, closed flag and error; per group its entries; the running fiber and the interrupted ones | `send`, iteration, `close`, `ChannelGroup::send`, `select`, timers, cancellation |
| database adapter | `db/adapter/pdo.c`, `db/adapter.c` | the PDO object, the transaction level, the savepoint setting | `begin`, `commit`, `rollback`, `execute`, `close`, `connect` |
| ORM saves | `mvc/model.c`, `mvc/model/resultset.c` | the calls in progress on one connection | `save`, `delete` with related records and cascades, `update` and `delete` of a resultset |

How they interact. The server's main thread allocates a block from the queue's
free ring, fills it and writes it to the data ring; a pool thread reads it, runs
its handler and returns the block to the free ring. On shutdown the main thread
sends one `OP_EXIT` per thread and exits without joining. Every named `Sync`
object lives in a named segment; the mutex is built on the semaphore, the
reader-writer lock on two semaphores and a manual event. A channel completes the
operation of a fiber by switching to it in the middle of its own call. A save
with related records begins an implicit transaction on the connection, saves the
records it belongs to, itself and the records that belong to it, each of which
may begin another; a script may have transactions of its own around all this.

What makes them correct, and what is hard about it:

- the queue must neither lose, duplicate nor reorder a message although every
  instruction of a call may interleave with every other thread's, and must not
  put a reader to sleep beside a message; its two sides share the blocks, so
  threads on both could wait for each other;
- a semaphore must not lose a wakeup when a release, a deadline and a spurious
  wakeup meet; an auto event must let one thread through per signal;
- the locks must exclude while a call can fail half way through (it owns one of
  two resources when its deadline passes) and while destructors give locks back;
- a channel must deliver each message once and in order and must not leave two
  fibers waiting for each other, while an operation sits in the lists of several
  channels and a timer, a close or a cancellation may end it;
- a save must be all or nothing although only the outermost of its transactions
  is known to the database, and although any related record, statement or
  handler may fail, by returning false or by throwing;
- a segment must be initialised once, before anyone uses it, whatever dies.

### What is not modelled

`PROJECT.json` lists every component. In short: deferreds, contexts and
conditions of the async runtime, the second thread pool
(`kernel/thread/pool.c`), the server's connection pool, yac's shared hash table,
snowflake identifiers, the ORM's transaction manager, the dispatcher, the events
manager, the service container and the access control list are planned
(section 7). The query language, routers, views, forms, filters and HTML helpers
transform strings; sockets, TLS, images, crypt and the storage engines wrap
libraries; parsers are generated. They have no state worth a model.

Inside the modelled parts these are left out: `phalcon_message_queue_destroy`
(the server never calls it), failures of `malloc`, `mmap`, `pthread_mutex_lock`
and `epoll_ctl`, the construction of a segment's name, memory layout, log and
statistics; of the channels, the shuffle flag of a group, one iterator shared by
two fibers ("Cannot advance iterator") and the scheduler's busy counters; of the
adapter, handlers of its own events that throw, and a commit the database
refuses; of the ORM, models on different connections, the condition callback of a
resultset, and everything about SQL, validation and hydration that does not
decide between success, failure and exception.

## 2. The modules

| module | models | actions and state |
|---|---|---|
| `MessageQueue` | `queue.c` | One action per atomic instruction: `DecCount`, `ClaimTake`, `LoadSlot`, `ClearSlot`, `UndoCount` (a take), `Register`, `Unregister`, `SemWait` (the blocking loop), `ClaimPut`, `SeeEmpty`, `StoreSlot`, `IncCount`, `CheckBlocked`, `DecBlocked`, `SemPost` (a put). The source has each function twice, once per ring; a step is parameterised by the ring. The spin loops are guards. `QueueSpec` is the most general client. |
| `WorkerPool` | `core.c` | EXTENDS `MessageQueue`. The main thread's loop, the destruction of the pool, the pool threads; `loc` is the place of a thread between two calls of the queue. What a thread does between calls touches only its own locals and its block, so it is part of the action that enters the next call. |
| `AbstractSemaphore` | the promise | permits taken and returned in one step each |
| `SyncSemaphore` | `common.h`, `semaphore.c` | Taking the pthread mutex is a step; what is done under it, unlock included, is a step; leaving the condition variable is three (woken or timed out, mutex taken, count tested). |
| `SyncEvent` | `common.h`, `event.c` | the same granularity |
| `SyncMutex` | `mutex.c`, `.h` | the semaphore is one step, the object's critical section is explicit |
| `ReaderWriter` | `readerwriter.c`, `.h` | every call on a semaphore or on the event is one step |
| `NamedMem` | `common.h` | creation, the opener's spin loop, the header's mutex, the count, re-initialisation, and `Crash` at any point |
| `AsyncChannel` | `channel.c` | A call is one step, up to the switch to another fiber; closing a channel is one step per waiter, since each is run in turn. `running` and `stack` are the scheduler: a completed operation's fiber runs at once, the interrupted one is put on top of the stack, the event loop runs when the stack is empty. Three kinds of scripts (`uses`): plain ones, ones with `select`, and ones with a timed send in a context that is cancelled, before the send waits or meanwhile. A context is cancelled by the event loop (its deadline) or by a running fiber that calls its cancellation handler; both have the same steps (`CancelsContext`). |
| `PdoAdapter` | `pdo.c`, `adapter.c` | operators from a connection to a connection, the database included, with a history of what nested transactions mean (`scopes`, `kept`, `sound`) |
| `ModelSave` | `model.c`, `resultset.c` | EXTENDS `PdoAdapter`. A stack of frames for the calls in progress; every place where a C function can leave with false, with null or with an exception is a disjunct: a record whose failure has no message (`Refusals`), an update without a statement, an insert that was executed and has no id (`SaveFailed`), one resultset for each relation of a cascade (`CascadeCall`), a `begin` or a savepoint that fails at any level (`BeginMayFail`). The script's own use of the connection is interleaved between calls. |
| `*Proofs` | | theorems (section 5): one module for each of the modules above that a run checks; those of `MessageQueue` are in `WorkerPoolProofs`, those of `PdoAdapter` in `ModelSaveProofs` |
| `MC*` | | model values and symmetry for TLC |

The layering is the one of the code: `ReaderWriter` and `SyncMutex` treat a
semaphore operation as atomic because `SyncSemaphore` is proved to implement
`AbstractSemaphore` (`SemaphoreImplementsAtomic`), and the pool is proved to be a
client of the queue (`PoolImplementsQueue`). `ModelSave` uses the operators of
`PdoAdapter` for every call on the connection.

Operators whose comment starts with "Mutant" are not part of any specification.
Each is a plausible bug of the definition that follows it; replacing the
definition by it makes TLC report the property `PROJECT.json` pairs it with.
They show that the properties depend on the code.

Choices worth knowing:

- Memory is sequentially consistent. The queue's plain loads and stores of slots
  are separated by locked adds, which are full barriers where the extension
  builds. Positions are kept modulo the depth; the source's 32-bit counters wrap
  at a multiple of it, since the depth is a power of two.
- `blocked_readers` is unsigned and is only compared with zero; the model lets
  it go below zero, which is the same until it has drifted by 2^32.
- The object's count of a `Semaphore` is unsigned; it is kept modulo
  `CountSize`, so that an unlock too many wraps as in the code.
- `phalcon_namedmem_ready` unlocks a mutex it may not own. POSIX leaves that
  undefined; the model takes what glibc's default mutex does (it becomes free).
- Condition variables may wake spuriously; a deadline may pass at any time.
  `Event::wait($n)` always uses a short deadline (`event.c:161` passes the type
  tag of its argument), so only the kinds "timed" and "infinite" reach an auto
  event; "zero" reaches a manual one through `writelock(0)`.
- The event loop may resume a fiber, fire a timer or pass a deadline whenever no
  fiber runs; whether a wait has a timer is settled when it fires. Messages are
  numbered in the order of the sends, so order and identity are one.
- The entries of a group keep their order and only leave it, so a group is a set
  of channels and `Rank` gives the order.
- Savepoints behave as in MySQL: a savepoint survives a rollback to it, and
  setting one of the same name replaces the old one. Replacing the PDO object
  rolls back what the old one had open.
- An exception leaves every C function above the `catch` of the script at the
  call that raised it, with none of the code behind that call; the model pops one
  frame per step.
- `raises` (`orm.exception_on_failed_save`) and `mute` (a record that fails may
  have no message) are chosen once. `save()` empties the array of messages only
  after the belongs-to records (`model.c:5185`); a save that leaves before that,
  because a handler of `beforeOperation` or a belongs-to record has said no, has
  no array at all unless some message was appended. Its caller cannot read its
  messages then and returns null, the result "silent" here, which `save()` does
  not take for a failure.
- A database that does not know `RELEASE SAVEPOINT` is not modelled: every
  dialect of the repository that supports savepoints supports their release
  (`dialect.c:1528`).

## 3. Runs

| run | instance | shows |
|---|---|---|
| `pool_safety` | main thread, 2 pool threads, depth 2, 3 operations, batches of 2, shutdown | Every block is in one place (`BlocksOwnedOnce`); no store overwrites a pointer (`NothingOverwritten`); counts track slots through all intermediate states (`CountTracksSlots`); wakeup tokens are conserved (`TokensConserved`); an operation is handled at most once and first in, first claimed (`HandledAtMostOnce`, `OldestFirst`); the damage of the lost wakeup is bounded (`FewLeftBehind`); the main thread and the pool threads never all wait for each other (`NoMutualWait`). 1.2 million states. |
| `pool_stranded` | 2 pool threads, depth 4 | **violated**: `EveryOpHandled` (finding 1) |
| `semaphore_disciplined` | 3 objects, 2 permits, deadlines, spurious wakeups, failing clock | permits are conserved, the protected code runs in one thread, no wakeup is lost, the atomic semaphore is implemented, no sleeper stays beside a permit |
| `event_safety` | 3 threads, manual and auto events, prefired or not, 3 signals, scripts with and without deadlines | no sleeper on a signaled manual event; at most one pass per signal of an auto event; the waiter count is exact; without deadlines a signal with sleepers has a thread on its way to it |
| `event_starved` | auto event, waits with deadlines | **violated**: `SleeperNotStarved` (finding 2) |
| `readerwriter_safety` | 3 objects; scripts with 2 nested read locks and lock upgrades, and scripts with one lock at a time | exclusion, the count, the event, no reader overtaking a writer that owns the write mutex; without nesting such a writer is admitted and the write mutex comes back |
| `mutex_safety` | 3 threads, 2 objects of one name, depth 2 | one owner, exact recursion count, semaphore accounted for, only the owner leaves |
| `namedmem_kept` | 4 processes, 2 crashes, somebody keeps the segment open | no constructor returns an uninitialised object, none rebuilds one in use, the count covers the users |
| `namedmem_reopened` | 3 processes, the last one may close | **violated**: `OpenMeansInitialised` (finding 3) |
| `channel_safety` | 3 fibers, one with a group, a channel without a buffer and one with room for a message, 3 messages | waiters and lists agree (`WaitersRegistered`); a message is delivered once, and only if its send did not fail (`DeliveredOnce`); nobody waits beside what he waits for (`Rendezvous`); order (`SentInOrder`). 3.6 million states. |
| `channel_close` | 3 fibers, one channel without a buffer | **violated**: `CloseReturns` (finding 4) |
| `model_save` | an order with a customer and a part that has a maker and a note, so that a related record has related records on both sides; a resultset of two; scripts up to level 3, 6 statements | level and database agree (`LevelAgrees`); a rollback undoes its own level only (`UndoesItsOwn`); all or nothing (`NoHalfSave`); what `save` and `delete` return is what happened, when a record that fails has a message (`ReturnTellsOutcome`). 3.5 million states. |

Bounds. Two pool threads on a ring of two blocks, with three operations, fill
and empty both rings, wrap both positions and make the allocator block; a third
thread adds no new pair of racing instructions. Depth 4 in `pool_stranded` only
avoids a full ring. The server has 512 blocks and 4 threads; the instance has as
many blocks as threads, the least for which `NoMutualWait` holds. Three objects are a holder, a waiter and a third party: the
role each counterexample and each mutant needs. `MaxFires`, `MaxReads`,
`MaxDepth`, `MaxOps`, `MaxBatch`, `MaxCrashes`, `MaxMsgs`, `MaxLevel` and
`MaxWrites` bound what the code leaves
unbounded or large. Symmetry is used for invariants and action properties only.

Three messages on a channel with one slot are one delivered, one buffered and one
waiting; two of the three fibers can wait on one side while the third acts. An
order with a parent and a child that has a parent and a child of its own has
records three levels deep: one implicit transaction in another, with writes
before, between and after, inside up to two levels of the script.

Deadlock is checked for the channels and the ORM, which always have a next step:
the event loop, the script. Elsewhere it is off: scripts may stop calling, a process may exit, and some
waits end only when another script acts. That nobody waits for ever is stated
as liveness where it is promised.

### Fairness

Weak fairness of a thread inside a call: the kernel schedules runnable threads.
Timeouts of timed waits are weakly fair (a deadline passes). Nothing obliges a
script to make a call, an event to arrive, or a spurious wakeup to happen. Two
stronger assumptions: in `readerwriter_safety` a script that holds a lock gives it
back some day, by unlocking or by ending; in `event_starved` a thread
waiting for the pthread mutex gets it although others keep taking it (strong
fairness), so that the counterexample is not mere starvation by the mutex. In
`channel_close` the runtime's steps are weakly fair and a fiber's own suspension
is strongly fair: a script that runs again and again awaits something some day,
although in between it may cancel other fibers, again and again.

## 4. Findings

1. **A message can be stranded** (`queue.c:206`). `tryread` takes `entries` down
   first and undoes that when there was nothing. In between another reader sees
   one message less than there is: its second attempt fails, it sleeps, and the
   writer's one post goes to the thread that caused it. Both threads sleep with
   `entries = 1` until the next event. With
   two pool threads at most one message is left behind (`FewLeftBehind`).
2. **An auto event can starve a waiter** (`common.h:497`, 543). A waiter whose
   deadline has passed still counts as waiting until it has the mutex back. A
   thread that calls `wait()` then goes to sleep although the event is signaled,
   and nobody wakes it: the expired waiter leaves without passing the signal on.
   The comment at 496 says the test is there to avoid starvation.
3. **A reopened segment is handed out uninitialised** (`common.h:281`). The
   creator of a segment keeps its mutex until the object is initialised; the
   process that finds the reference count at zero unlocks first and initialises
   afterwards, so the next process gets an object of zeros.
4. **`close()` of a channel may never return** (`channel.c:194`).
   `ASYNC_CHANNEL_READABLE_NONBLOCK` tests `receivers.first` where the senders
   are meant. `close()` takes the waiting iterators off the list one by one and
   runs them; an iterator that has delivered nothing yet asks `valid()`, finds the
   closed channel readable because another iterator is still in the list, and
   waits again at the end of it. Two of them keep the loop of `dispose_state`
   going for ever. For the same reason `select()` does not see the senders of a
   channel without a buffer; `Rendezvous` and `SentInOrder` therefore leave out
   scripts that use it.

Seen while modelling and excluded from the properties, each with its place under
hazards: a related record can fail without any array of messages, by a handler
of `beforeOperation` or because a belongs-to record of its own has failed without
a message (`model.c:5178`, before the reset at 5185), and the save that asked for
it takes this for success: after the master record it returns true with its
implicit transaction open, before it, it goes on and commits the master record
without the one it belongs to (`model.c:4794`); a save without related records
returns false and keeps its row when the insert gives no id (`model.c:4481`);
exceptions leave the level raised; a pending `send()` returns normally when its channel closes; a
group send whose message is taken after the close throws all the same;
`Resultset::update()` and `delete()` return true after a rollback; the
transaction manager drops the wrong transactions (`manager.c:428`).

## 5. Proofs

TLAPS proves these for every value of the constants satisfying the named
assumptions of the modules: any number of threads, objects or processes, any
depth of the queue, any records and relations, any bound.

| theorem | states | argument |
|---|---|---|
| `QueueTypeOK` | `QueueSpec => []TypeOK` | per instruction; positions stay in the ring (`Next1Type`) |
| `QueueTokens` | `QueueSpec => []TokensConserved` | each instruction moves at most one thread into or out of `Registered` and `Posting` and changes `blocked` or `sem` to match; cardinalities by `FS_AddElement` and `FS_RemoveElement` |
| `PoolImplementsQueue`, `PoolTokens` | the pool is a client of the queue and inherits its invariant | every pool step is a queue step or leaves the queue alone |
| `PoolNothingOverwritten`, `PoolCountTracksSlots`, `PoolBlocksOwnedOnce` | the three properties of the two rings in the server | `RingInv`, see below |
| `PoolHandledAtMostOnce`, `PoolOldestFirst` | the two properties of the operations | `PoolInv`, see below |
| `PoolFewLeftBehind` | the bound on what a lost wakeup can hide | `FewInv` over `RingInv` and `TokensConserved`, see below |
| `PoolNoMutualWait` | `NoMutualWait`, for a depth not below the number of pool threads | `MainInv` beside `FewInv`, see below |
| `SemaphoreTypeOK`, `MutexExcludes` | types, `OwnerInside` | the two together are inductive: a thread enters the protected code only when the mutex is free |
| `WakeupsKept` | `NoLostWakeup` | with `TypeOK` it is inductive: a release with sleepers adds one to the threads on their way, which leave only with a permit or when the count is zero |
| `PermitsKept`, `SemaphoreImplementsAtomic` | `PermitsConserved` and `ImplementsSemaphore`, for `Disciplined` scripts | every step adds or removes one pair of `HeldPermits`, or none; the refinement maps a step under the mutex that takes or returns a permit to that step of `AbstractSemaphore` and every other one to a stutter |
| `ReaderWriterTypeOK`, `WriterExcludes`, `ReadersCannotOvertake`, `EventAlwaysAgrees`, `CountAlwaysAgrees` | types, `Exclusion`, `NoReaderOvertakes`, `EventAgrees`, `CountAgrees` | see below |
| `EventTypeOK`, `WaitersCounted`, `ManualNobodySleeps`, `OnePass`, `NotStranded` | the five properties of `SyncEvent` | see below |
| `MutexOneOwner`, `MutexDepth`, `MutexSemaphore`, `MutexKeptByOwner` | the four properties of `SyncMutex` | see below |
| `LevelAlwaysAgrees`, `RollbackUndoesItsOwn` | `LevelAgrees` and `UndoesItsOwn` of `ModelSave` | see below |
| `NothingHalfSaved`, `ReturnsTell` | `NoHalfSave` and `ReturnTellsOutcome` of `ModelSave` | `CallInv` over the two above, see below |
| `ChannelTypes`, `WaitersAreRegistered` | `TypeOK` and `WaitersRegistered` of `AsyncChannel` | `ListInv`, see below |
| `SendersMeetReceivers`, `MessagesStayInOrder`, `MessagesArriveOnce` | `Rendezvous`, `SentInOrder` and `DeliveredOnce` of `AsyncChannel` | `MessageInv` over `ListInv`, see below |
| `OpensInitialised`, `BuildsAlone`, `RefsCover` | the three properties of `NamedMem`, for `~LastCloses` | see below |

The inductive invariants.

- `WorkerPool`. The queue alone does not promise that no slot is overwritten:
  with several takers and several putters on one ring, a taker that has claimed
  a position and not yet cleared it lets a later putter wait on the same slot,
  and two putters a whole turn apart can both see it empty. The server gives
  each ring one thread that is alone on its side (`RoleInv`): only the main
  thread writes data, only the main thread allocates. `DataWindow` says that
  the positions from the read position to the write position hold messages
  nobody has claimed, and that any other filled slot belongs to one reader;
  `FreeWindow` that the positions from the head of the free ring on are filled
  or claimed by one putter each and all others empty. `CoverInv` says that a
  taker the count let through has a filled slot to come, `OnceInv` and
  `SomewhereInv` that a block is in one place. That the window of the data ring
  never fills over itself is a pigeonhole argument: there are `Depth` blocks and
  the writer holds one of them.
- `WorkerPool`, the operations: `HandleInv` says that an operation a block
  carries (in the data ring, or in the hands of the writer or of a reader) has
  not been handled and that no two blocks carry the same one; `OrderInv` that the
  numbers rise along the data window, that everything handled or claimed is
  older, and that what the main thread is writing is the youngest.
- `WorkerPool`, the lost wakeup: in a `Settled` state every pool thread sleeps or
  is about to, and no wakeup is on its way. `FewInv` says that the count plus the
  readers about to undo a decrement is then less than the number of pool
  threads: the last one to give up found the count at zero or below, and only the
  decrements of the others can have hidden messages from it. That nothing but a
  wakeup leaves such a state is `TokensConserved`.
- `WorkerPool`, the mutual wait: `MainInv` says the same of the main thread, the
  only taker of the free ring: when it sleeps and no wakeup is on its way, the
  ring was empty at its last attempt and is still. When everyone sleeps the two
  counts add up to all blocks (`AsleepCounts`), so the data ring holds `Depth` of
  them, and `FewLeftBehind` says that it holds fewer than there are threads.
- `ReaderWriter`: exclusion says nothing of a process half way into a call.
  `WWaitInv` says who owns the write mutex (the points of a call between taking
  and releasing it, or an admitted writer) and that it is one process;
  `RCountInv` the same for the counter mutex; `EventInv` that a signaled event
  means no reader, that a reader about to count itself in has reset it, and that
  a writer keeps it signaled. Exclusion follows from `EventInv` and `WWaitInv`.
  The count is compared with the number of pairs of a process and a level of its
  nesting (`HeldReads`): a step adds or removes one pair.
- `SyncEvent`: `OwnerInv` (who is inside the pthread mutex), `FireInv` (signals
  sent and under way fit the bound), `KindInv` (deadlines occur only in scripts
  that have them) beside the properties themselves.
- `SyncMutex`: between taking the semaphore and recording the owner
  (`mutex.c:183-188`) no variable of the object says that it is taken.
  `PendingInv` says that such a thread is alone and that no object is owned;
  `CritInv` that the code under an object's critical section is in one thread.
- `NamedMem`: `HeaderInv` (one creator, nobody past a header that does not
  exist), `OwnerInv` (who holds the header's mutex), `RefsInv` (the count stays
  above zero while somebody keeps the segment), `ObjectInv` (a free mutex means
  an initialised object), `BuilderInv` (the builder is alone). `OpensInitialised`
  is false without `~LastCloses`: that is finding 3. `RefsCover` needs only
  `CountInv`: a crash leaves one reference behind that no process answers for.
- `ModelSave`, the count: `LevelAgrees` speaks of open levels only, and after a
  failed begin, a `close()` or `connect()` with an open level, or an end of
  another kind than its begin (`~sound`) only its first half, that a database in
  a transaction is counted, is claimed until the level is back at zero, and
  `UndoesItsOwn` claims nothing until then. `LevelInv` adds that the history is as deep as the count while it is kept, also at level
  zero, and empty once it is given up; one lemma per method of the adapter shows
  that it is preserved, and every step of the ORM is one of four uses of those
  methods.
- `ModelSave`, the writes: `UndoesItsOwn` compares sets of writes and says
  nothing of savepoints. `WorkInv` adds what a rollback relies on: savepoints
  have different names and a later one was set after more writes
  (`PointsInv`); every open level the database knows has a savepoint that marks
  exactly what the levels around it have written, and these savepoints are in
  the order of the levels, whatever stale ones an earlier rollback has left
  between them (`ScopesInv`). The lemmas before it say what deleting, setting,
  releasing and rolling back to a savepoint does to such a pair of sequences.
- `ModelSave`, the calls: the two properties speak of a call that has returned,
  and while it runs nothing in the connection says which of its levels belongs
  to which frame. `CallInv` does. `StackInv`: every frame but the innermost is in
  a phase in which it waits for another (so that what the innermost returns finds
  the frame that asked for it), and a save is called by a save. `EntryInv` keeps
  what was noted when the outermost call began. `DepthInv`: every frame that has
  begun a level still has it; `OnlineInv`: the database is in a transaction then,
  which is why a commit below the outermost call makes nothing durable.
  `MatchInv`: unless a failure has no message or something throws, these levels
  are the only ones, and the kind each was begun with is the kind it will be
  ended with, although `save()` ends a level without nesting and a resultset one
  with it. `KeptInv`: no write is lost of a call that may still report success;
  a cascading delete, and a call other than a save that has failed, are the
  exception, since no caller takes those for success (`Doomed`). `CountInv`: a
  call that owns no transaction makes one statement at most. `OfflineInv`:
  without a PDO object nothing is executed. `RestInv` is what is left when the
  level is back at zero. `ModelStep` shows for each
  action which of six kinds of steps it is (no level changes; a frame leaves with
  its level open; a begin, or one that fails; an end; a statement), and each kind
  keeps `CallInv`. The invariant was checked with TLC on the instance of
  `model_save` before it was
  proved. Nothing is assumed of the relations: they may be cyclic, in which case
  the stack grows without bound.
- `AsyncChannel`, the lists: `ListInv` says where a fiber waits, from what it is
  doing (`ReceiverInv`, with no fiber twice in a list), and that a pending send is
  in a list under a number no other fiber has (`SenderInv`). What a completed
  operation's fiber does, and what a close does to each waiter, must leave the
  same lists.
- `AsyncChannel`, the messages: of all a step can do to fibers, iterators and
  groups, only a few things happen to messages. `EveryStepOK` shows for every
  action which one (`MsgsStep`); the rest of the argument is about these kinds
  only. `Rendezvous` is inductive over `ListInv`; `PlaceInv` says that a message
  is in one place, `FateInv` that this agrees with what its sender was told;
  `InOrder` that what is taken, what is buffered and what waits rise in this
  order.

Assumptions the proofs use, all evaluated by TLC in the runs: the threads of
`SyncEvent` and of the queue are finitely many; the pool has at least one thread
(`PHALCON_SERVER_MAX_WORKER_THREADS` is 4); the depth is positive. That the depth
is not below the number of pool threads is a hypothesis of `PoolNoMutualWait`.
`Disciplined` (scripts unlock what they have locked) and `~LastCloses`
(somebody keeps the segment open) are hypotheses of the theorems named above.

`ChannelAssumption`: fibers and channels are finitely many and `Rank` orders the
channels; `ModelSaveAssumption`: records are finitely many and relations are
sequences of them, possibly cyclic.

Every safety and action property of the passing runs is stated by a theorem.
Only model-checked: liveness (`SleeperServed`, `WriterAdmitted`,
`WriteMutexComesBack`), which needs fairness and `ENABLED` and is out of the
prover's reach, and the four counterexamples (`EveryOpHandled`,
`SleeperNotStarved`, `OpenMeansInitialised` when the last process closes,
`CloseReturns`). The type invariants
`PoolTypeOK`, `SyncMutex!TypeOK`, `AsyncChannel!TypeOK` (proved all the same) and
`ModelTypeOK` document the state and are not among the runs' properties; the
inductive invariants hold what the proofs need of them.

## 6. Hazards

`PROJECT.json` lists what is hard to test in this code, each at its line, with
the properties that cover it, or why none does. The ones left open are a pool
whose threads leave on shutdown while the main thread waits for a block, the
unlocked list of connection contexts, connections registered edge-triggered
without one-shot, a mutex leaked by a failing clock, the count of a semaphore's
object after a stray unlock, stray unlocks of a reader-writer lock, an object
that nests a read lock under a waiting writer, a creator that dies before it
publishes its header, `select()` beside a sender, a related record that fails
without a message, the condition callback of a resultset and the list of the
transaction manager.

## 7. Plan

1. The server's connection pool (`alloc_context` and `free_context` from
   several threads) and the life of a connection, composed with `WorkerPool`.
2. `kernel/thread/pool.c`: growing and shrinking the pool, waiting for it to
   drain, destruction.
3. The async runtime: `Deferred` and `Context` (cancellation, one resolution),
   then tasks, under `AsyncChannel`.
4. Snowflake identifiers; yac's storage (locks over a shared hash table).
5. The ORM's transaction manager over `PdoAdapter`. The dispatcher's forward loop
   and the events manager.
6. `SharedMemory`'s clamping of offset and length as operators with a reference
   definition.
7. Proofs: `CloseReturns` for the channel with `senders.first` in its macro, as
   a measure that every turn of `dispose_state` decreases.
