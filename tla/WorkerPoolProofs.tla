-------------------------- MODULE WorkerPoolProofs --------------------------
(***************************************************************************)
(* Theorems about the worker process, for any number of pool threads and   *)
(* any depth of the queue:                                                 *)
(*   - wakeup tokens of the queue are conserved, whichever threads call it *)
(*     in whichever order (QueueTokens);                                   *)
(*   - the pool only uses the queue as its most general client does, so    *)
(*     what holds of the queue for every client holds of the server;       *)
(*   - in the server every ring has one writer or one taker, so that its   *)
(*     filled slots form one window between claim and put positions: no    *)
(*     slot is overwritten and the counts track the slots (RingInv);       *)
(*   - every block is at one place, every operation is handled at most     *)
(*     once and the pool takes the oldest (LocInv, HandleInv, OrderInv);   *)
(*   - what a lost wakeup can hide is bounded (Settled, FewInv);           *)
(*   - the main thread and the pool never all wait (MainInv).              *)
(***************************************************************************)
EXTENDS WorkerPool, FiniteSetTheorems, TLAPS

-----------------------------------------------------------------------------
(* The queue with any client: its types and its wakeup tokens.             *)

USE DEF Rings, Modes, Steps, TakeSteps, PutSteps

(* Next1 is the "+ 1 ... % max_depth" of the position counters: it stays   *)
(* within the ring.                                                        *)
LEMMA Next1Type == \A p \in Positions : Next1(p) \in Positions
BY DepthAssumption DEF Next1, Positions

(* The local pos is reset to a position of the ring when it goes out of    *)
(* scope.                                                                  *)
LEMMA ZeroPosition == 0 \in Positions
BY DepthAssumption DEF Positions

(* Type correctness of the queue: every instruction of queue.c keeps slots *)
(* pointing to blocks, positions inside the ring and the semaphore         *)
(* non-negative, for any client.                                           *)
LEMMA TypeInit == QueueInit => TypeOK
BY DepthAssumption DEF QueueInit, TypeOK, Positions, Blocks, NULL

(* One instruction of any of the queue's functions preserves the types.    *)
LEMMA TypeStep == TypeOK /\ [QueueNext]_vars => TypeOK'
<1> SUFFICES ASSUME TypeOK, [QueueNext]_vars PROVE TypeOK'
  OBVIOUS
<1> USE DEF TypeOK, ringVars, Goto
<1>1. ASSUME NEW t \in Threads, NEW r \in Rings, NEW m \in {"try", "first"},
             CallTake(t, r, m)
      PROVE  TypeOK'
  BY <1>1 DEF CallTake
<1>2. ASSUME NEW t \in Threads, NEW r \in Rings, CallPut(t, r)
      PROVE  TypeOK'
  BY <1>2 DEF CallPut
<1>3. ASSUME NEW t \in Threads, QueueStep(t)
      PROVE  TypeOK'
  <2>1. CASE DecCount(t)
    BY <2>1 DEF DecCount
  <2>2. CASE ClaimTake(t)
    BY <2>2, Next1Type DEF ClaimTake
  <2>3. CASE LoadSlot(t)
    BY <2>3 DEF LoadSlot
  <2>4. CASE ClearSlot(t)
    BY <2>4, ZeroPosition DEF ClearSlot
  <2>5. CASE UndoCount(t)
    BY <2>5 DEF UndoCount
  <2>6. CASE Register(t)
    BY <2>6 DEF Register
  <2>7. CASE Unregister(t)
    BY <2>7 DEF Unregister
  <2>8. CASE SemWait(t)
    BY <2>8 DEF SemWait
  <2>9. CASE ClaimPut(t)
    BY <2>9, Next1Type DEF ClaimPut
  <2>10. CASE SeeEmpty(t)
    BY <2>10 DEF SeeEmpty
  <2>11. CASE StoreSlot(t)
    BY <2>11, ZeroPosition DEF StoreSlot
  <2>12. CASE IncCount(t)
    BY <2>12 DEF IncCount
  <2>13. CASE CheckBlocked(t)
    BY <2>13 DEF CheckBlocked
  <2>14. CASE DecBlocked(t)
    BY <2>14 DEF DecBlocked
  <2>15. CASE SemPost(t)
    BY <2>15 DEF SemPost
  <2>q. QED
    BY <1>3, <2>1, <2>2, <2>3, <2>4, <2>5, <2>6, <2>7, <2>8, <2>9, <2>10,
       <2>11, <2>12, <2>13, <2>14, <2>15 DEF QueueStep
<1>4. CASE UNCHANGED vars
  BY <1>4 DEF vars
<1>q. QED
  BY <1>1, <1>2, <1>3, <1>4 DEF QueueNext

(* For any number of threads, any depth and any client of the queue, no    *)
(* position leaves the ring and no thread is at an unknown instruction.    *)
THEOREM QueueTypeOK == QueueSpec => []TypeOK
BY TypeInit, TypeStep, PTL DEF QueueSpec
-----------------------------------------------------------------------------
(* The two sets the token equation counts are finite.                      *)
LEMMA TokenSetsFinite ==
  \A r \in Rings : IsFiniteSet(Registered(r)) /\ IsFiniteSet(Posting(r))
<1> SUFFICES ASSUME NEW r \in Rings
             PROVE  IsFiniteSet(Registered(r)) /\ IsFiniteSet(Posting(r))
  OBVIOUS
<1>1. Registered(r) \subseteq Threads /\ Posting(r) \subseteq Threads
  BY DEF Registered, Posting
<1>q. QED
  BY <1>1, ThreadsAssumption, FS_Subset

(* Adding or removing one thread changes a finite set's size by one.       *)
LEMMA CardOne ==
  ASSUME NEW S, NEW x, IsFiniteSet(S)
  PROVE  /\ Cardinality(S) \in Nat
         /\ x \notin S => Cardinality(S \cup {x}) = Cardinality(S) + 1
         /\ x \in S => Cardinality(S \ {x}) = Cardinality(S) - 1
<1>1. Cardinality(S) \in Nat
  BY FS_CardinalityType
<1>2. x \notin S => Cardinality(S \cup {x}) = Cardinality(S) + 1
  BY FS_AddElement
<1>3. x \in S => Cardinality(S \ {x}) = Cardinality(S) - 1
  BY FS_RemoveElement
<1>q. QED
  BY <1>1, <1>2, <1>3

(* A step that moves no thread into or out of the two sets and leaves the  *)
(* counters alone keeps the tokens.                                        *)
LEMMA NeutralStep ==
  ASSUME TokensConserved,
         blocked' = blocked, sem' = sem,
         \A r \in Rings : Registered(r)' = Registered(r) /\ Posting(r)' = Posting(r)
  PROVE  TokensConserved'
BY DEF TokensConserved

(* Every step of the queue keeps the tokens.                               *)
LEMMA TokenStep == TypeOK /\ TokensConserved /\ [QueueNext]_vars => TokensConserved'
<1> SUFFICES ASSUME TypeOK, TokensConserved, [QueueNext]_vars
             PROVE  TokensConserved'
  OBVIOUS
<1> USE DEF Goto, ringVars
<1>1. ASSUME NEW t \in Threads, NEW r \in Rings, NEW m \in {"try", "first"},
             CallTake(t, r, m)
      PROVE  TokensConserved'
  <2>1. blocked' = blocked /\ sem' = sem
    BY <1>1 DEF CallTake
  <2>2. \A q \in Rings : Registered(q)' = Registered(q) /\ Posting(q)' = Posting(q)
    BY <1>1 DEF CallTake, TypeOK, Registered, Posting
  <2>q. QED
    BY <2>1, <2>2, NeutralStep
<1>2. ASSUME NEW t \in Threads, NEW r \in Rings, CallPut(t, r)
      PROVE  TokensConserved'
  <2>1. blocked' = blocked /\ sem' = sem
    BY <1>2 DEF CallPut
  <2>2. \A q \in Rings : Registered(q)' = Registered(q) /\ Posting(q)' = Posting(q)
    BY <1>2 DEF CallPut, TypeOK, Registered, Posting
  <2>q. QED
    BY <2>1, <2>2, NeutralStep
<1>3. ASSUME NEW t \in Threads, QueueStep(t)
      PROVE  TokensConserved'
  <2>m. PICK me \in Rings : me = ring[t]
    BY DEF TypeOK
  <2>f. /\ Cardinality(Registered(me)) \in Nat /\ Cardinality(Posting(me)) \in Nat
        /\ blocked[me] \in Int /\ sem[me] \in Int
    BY TokenSetsFinite, FS_CardinalityType DEF TypeOK
  <2>n. CASE \/ DecCount(t) \/ ClaimTake(t) \/ LoadSlot(t) \/ ClearSlot(t)
             \/ UndoCount(t) \/ ClaimPut(t) \/ SeeEmpty(t) \/ StoreSlot(t)
             \/ IncCount(t) \/ CheckBlocked(t)
    <3>1. blocked' = blocked /\ sem' = sem
      BY <2>n DEF DecCount, ClaimTake, LoadSlot, ClearSlot, UndoCount, ClaimPut,
                  SeeEmpty, StoreSlot, IncCount, CheckBlocked
    <3>2. ring' = ring /\ mode' = mode
      BY <2>n DEF DecCount, ClaimTake, LoadSlot, ClearSlot, UndoCount, ClaimPut,
                  SeeEmpty, StoreSlot, IncCount, CheckBlocked
    <3>3. /\ \A u \in Threads \ {t} : pc'[u] = pc[u]
          /\ pc'[t] # "post" /\ pc[t] # "post"
          /\ (pc[t] \in {"unreg", "sleep"} \/ (pc[t] \in TakeSteps /\ mode[t] = "second"))
             <=> (pc'[t] \in {"unreg", "sleep"} \/ (pc'[t] \in TakeSteps /\ mode[t] = "second"))
      <4>1. CASE DecCount(t)
        BY <4>1 DEF DecCount, TypeOK
      <4>2. CASE ClaimTake(t)
        BY <4>2 DEF ClaimTake, TypeOK
      <4>3. CASE LoadSlot(t)
        BY <4>3 DEF LoadSlot, TypeOK
      <4>4. CASE ClearSlot(t)
        BY <4>4 DEF ClearSlot, TypeOK
      <4>5. CASE UndoCount(t)
        BY <4>5 DEF UndoCount, TypeOK
      <4>6. CASE ClaimPut(t) \/ SeeEmpty(t) \/ StoreSlot(t)
        BY <4>6 DEF ClaimPut, SeeEmpty, StoreSlot, TypeOK
      <4>7. CASE IncCount(t) \/ CheckBlocked(t)
        BY <4>7 DEF IncCount, CheckBlocked, TypeOK
      <4>q. QED
        BY <2>n, <4>1, <4>2, <4>3, <4>4, <4>5, <4>6, <4>7
    <3>4. \A q \in Rings : Registered(q)' = Registered(q) /\ Posting(q)' = Posting(q)
      <4>1. \A u \in Threads : pc'[u] = "post" <=> pc[u] = "post"
        BY <3>3
      <4>2. \A u \in Threads :
              (pc'[u] \in {"unreg", "sleep"} \/ (pc'[u] \in TakeSteps /\ mode[u] = "second"))
              <=> (pc[u] \in {"unreg", "sleep"} \/ (pc[u] \in TakeSteps /\ mode[u] = "second"))
        BY <3>3
      <4>q. QED
        BY <3>2, <4>1, <4>2 DEF Registered, Posting
    <3>q. QED
      BY <3>1, <3>4, NeutralStep
  <2>1. CASE Register(t)
    <3>1. /\ Registered(me)' = Registered(me) \cup {t} /\ t \notin Registered(me)
          /\ Posting(me)' = Posting(me)
      BY <2>1, <2>m DEF Register, TypeOK, Registered, Posting
    <3>2. \A q \in Rings \ {me} :
            /\ Registered(q)' = Registered(q) /\ Posting(q)' = Posting(q)
            /\ blocked'[q] = blocked[q] /\ sem'[q] = sem[q]
      BY <2>1, <2>m DEF Register, TypeOK, Registered, Posting
    <3>3. blocked'[me] = blocked[me] + 1 /\ sem'[me] = sem[me]
      BY <2>1, <2>m DEF Register, TypeOK
    <3>4. Cardinality(Registered(me)') = Cardinality(Registered(me)) + 1
      BY <3>1, CardOne, TokenSetsFinite
    <3>5. blocked'[me] + sem'[me] + Cardinality(Posting(me)') = Cardinality(Registered(me)')
      BY <3>1, <3>3, <3>4, <2>f DEF TokensConserved
    <3>q. QED
      BY <3>2, <3>5 DEF TokensConserved
  <2>2. CASE Unregister(t)
    <3>1. /\ Registered(me)' = Registered(me) \ {t} /\ t \in Registered(me)
          /\ Posting(me)' = Posting(me)
      BY <2>2, <2>m DEF Unregister, TypeOK, Registered, Posting
    <3>2. \A q \in Rings \ {me} :
            /\ Registered(q)' = Registered(q) /\ Posting(q)' = Posting(q)
            /\ blocked'[q] = blocked[q] /\ sem'[q] = sem[q]
      BY <2>2, <2>m DEF Unregister, TypeOK, Registered, Posting
    <3>3. blocked'[me] = blocked[me] - 1 /\ sem'[me] = sem[me]
      BY <2>2, <2>m DEF Unregister, TypeOK
    <3>4. Cardinality(Registered(me)') = Cardinality(Registered(me)) - 1
      BY <3>1, CardOne, TokenSetsFinite
    <3>5. blocked'[me] + sem'[me] + Cardinality(Posting(me)') = Cardinality(Registered(me)')
      BY <3>1, <3>3, <3>4, <2>f DEF TokensConserved
    <3>q. QED
      BY <3>2, <3>5 DEF TokensConserved
  <2>3. CASE SemWait(t)
    <3>1. /\ Registered(me)' = Registered(me) \ {t} /\ t \in Registered(me)
          /\ Posting(me)' = Posting(me)
      BY <2>3, <2>m DEF SemWait, TypeOK, Registered, Posting
    <3>2. \A q \in Rings \ {me} :
            /\ Registered(q)' = Registered(q) /\ Posting(q)' = Posting(q)
            /\ blocked'[q] = blocked[q] /\ sem'[q] = sem[q]
      BY <2>3, <2>m DEF SemWait, TypeOK, Registered, Posting
    <3>3. blocked'[me] = blocked[me] /\ sem'[me] = sem[me] - 1
      BY <2>3, <2>m DEF SemWait, TypeOK
    <3>4. Cardinality(Registered(me)') = Cardinality(Registered(me)) - 1
      BY <3>1, CardOne, TokenSetsFinite
    <3>5. blocked'[me] + sem'[me] + Cardinality(Posting(me)') = Cardinality(Registered(me)')
      BY <3>1, <3>3, <3>4, <2>f DEF TokensConserved
    <3>q. QED
      BY <3>2, <3>5 DEF TokensConserved
  <2>4. CASE DecBlocked(t)
    <3>1. /\ Registered(me)' = Registered(me)
          /\ Posting(me)' = Posting(me) \cup {t} /\ t \notin Posting(me)
      BY <2>4, <2>m DEF DecBlocked, TypeOK, Registered, Posting
    <3>2. \A q \in Rings \ {me} :
            /\ Registered(q)' = Registered(q) /\ Posting(q)' = Posting(q)
            /\ blocked'[q] = blocked[q] /\ sem'[q] = sem[q]
      BY <2>4, <2>m DEF DecBlocked, TypeOK, Registered, Posting
    <3>3. blocked'[me] = blocked[me] - 1 /\ sem'[me] = sem[me]
      BY <2>4, <2>m DEF DecBlocked, TypeOK
    <3>4. Cardinality(Posting(me)') = Cardinality(Posting(me)) + 1
      BY <3>1, CardOne, TokenSetsFinite
    <3>5. blocked'[me] + sem'[me] + Cardinality(Posting(me)') = Cardinality(Registered(me)')
      BY <3>1, <3>3, <3>4, <2>f DEF TokensConserved
    <3>q. QED
      BY <3>2, <3>5 DEF TokensConserved
  <2>5. CASE SemPost(t)
    <3>1. /\ Registered(me)' = Registered(me)
          /\ Posting(me)' = Posting(me) \ {t} /\ t \in Posting(me)
      BY <2>5, <2>m DEF SemPost, TypeOK, Registered, Posting
    <3>2. \A q \in Rings \ {me} :
            /\ Registered(q)' = Registered(q) /\ Posting(q)' = Posting(q)
            /\ blocked'[q] = blocked[q] /\ sem'[q] = sem[q]
      BY <2>5, <2>m DEF SemPost, TypeOK, Registered, Posting
    <3>3. blocked'[me] = blocked[me] /\ sem'[me] = sem[me] + 1
      BY <2>5, <2>m DEF SemPost, TypeOK
    <3>4. Cardinality(Posting(me)') = Cardinality(Posting(me)) - 1
      BY <3>1, CardOne, TokenSetsFinite
    <3>5. blocked'[me] + sem'[me] + Cardinality(Posting(me)') = Cardinality(Registered(me)')
      BY <3>1, <3>3, <3>4, <2>f DEF TokensConserved
    <3>q. QED
      BY <3>2, <3>5 DEF TokensConserved
  <2>q. QED
    BY <1>3, <2>n, <2>1, <2>2, <2>3, <2>4, <2>5 DEF QueueStep
<1>4. CASE UNCHANGED vars
  <2>1. blocked' = blocked /\ sem' = sem
    BY <1>4 DEF vars
  <2>2. \A q \in Rings : Registered(q)' = Registered(q) /\ Posting(q)' = Posting(q)
    BY <1>4 DEF vars, Registered, Posting
  <2>q. QED
    BY <2>1, <2>2, NeutralStep
<1>q. QED
  BY <1>1, <1>2, <1>3, <1>4 DEF QueueNext

(* Nobody is registered or posting when the queue is created.              *)
LEMMA TokenInit == QueueInit => TokensConserved
<1> SUFFICES ASSUME QueueInit, NEW r \in Rings
             PROVE  blocked[r] + sem[r] + Cardinality(Posting(r)) = Cardinality(Registered(r))
  BY DEF TokensConserved
<1>1. Registered(r) = {} /\ Posting(r) = {}
  BY DEF QueueInit, Registered, Posting
<1>2. blocked[r] = 0 /\ sem[r] = 0
  BY DEF QueueInit
<1>q. QED
  BY <1>1, <1>2, FS_EmptySet

(* Wakeup tokens are conserved by every client of the queue: no post is    *)
(* lost and none is created, although blocked_readers is tested and        *)
(* decremented in separate instructions.                                   *)
THEOREM QueueTokens == QueueSpec => []TokensConserved
<1>1. QueueInit => TypeOK /\ TokensConserved
  BY TypeInit, TokenInit
<1>2. TypeOK /\ TokensConserved /\ [QueueNext]_vars => (TypeOK /\ TokensConserved)'
  BY TypeStep, TokenStep
<1>q. QED
  BY <1>1, <1>2, PTL DEF QueueSpec

HIDE DEF Rings, Modes, Steps, TakeSteps, PutSteps

-----------------------------------------------------------------------------
(* The server's threads are a client of the queue.                         *)


(* Every step of the server's threads is a step of the queue or leaves it  *)
(* alone.                                                                  *)
LEMMA PoolStepIsQueueStep == [PoolNext]_allVars => [QueueNext]_vars
<1> SUFFICES ASSUME [PoolNext]_allVars PROVE [QueueNext]_vars
  OBVIOUS
<1>t. Main \in Threads /\ Workers \subseteq Threads
  BY PoolAssumption
<1>1. ASSUME NEW t \in Threads, QueueStep(t) PROVE QueueNext
  BY <1>1 DEF QueueNext
<1>2. ASSUME NEW t \in Threads, NEW r \in Rings, CallTake(t, r, "first") PROVE QueueNext
  BY <1>2 DEF QueueNext
<1>3. ASSUME NEW t \in Threads, NEW r \in Rings, CallPut(t, r) PROVE QueueNext
  BY <1>3 DEF QueueNext
<1>r. "free" \in Rings /\ "data" \in Rings
  BY DEF Rings
<1>4. CASE MainStep
  <2>1. CASE MainTest \/ MainPoll \/ ProcessExit
    BY <2>1 DEF MainTest, MainPoll, ProcessExit
  <2>2. CASE MainAlloc \/ DestroyAlloc
    BY <2>2, <1>2, <1>t, <1>r DEF MainAlloc, DestroyAlloc
  <2>3. CASE MainWrite \/ DestroyWrite
    BY <2>3, <1>3, <1>t, <1>r DEF MainWrite, DestroyWrite
  <2>4. CASE InsideCall(Main)
    BY <2>4, <1>1, <1>t DEF InsideCall
  <2>q. QED
    BY <1>4, <2>1, <2>2, <2>3, <2>4 DEF MainStep
<1>5. ASSUME NEW t \in Workers, WorkerStep(t) PROVE [QueueNext]_vars
  <2>1. CASE WorkerStops(t) \/ WorkerReturn(t)
    BY <2>1 DEF WorkerStops, WorkerReturn
  <2>2. CASE WorkerRead(t)
    BY <2>2, <1>2, <1>t, <1>r DEF WorkerRead
  <2>3. CASE WorkerHandle(t) \/ WorkerExitOp(t)
    BY <2>3, <1>3, <1>t, <1>r DEF WorkerHandle, WorkerExitOp
  <2>4. CASE InsideCall(t)
    BY <2>4, <1>1, <1>t DEF InsideCall
  <2>q. QED
    BY <1>5, <2>1, <2>2, <2>3, <2>4 DEF WorkerStep
<1>6. CASE StopWorkers
  BY <1>6 DEF StopWorkers
<1>7. CASE UNCHANGED allVars
  BY <1>7 DEF allVars, poolVars, vars
<1>q. QED
  BY <1>4, <1>5, <1>6, <1>7 DEF PoolNext

(* The server implements the queue's general specification.                *)
THEOREM PoolImplementsQueue == PoolSpec => QueueSpec
<1>1. PoolInit => QueueInit
  BY DEF PoolInit
<1>q. QED
  BY <1>1, PoolStepIsQueueStep, PTL DEF PoolSpec, QueueSpec

(* For every number of pool threads, every depth and every number of       *)
(* operations, the wakeup tokens of both rings of the server's queue are   *)
(* conserved.                                                              *)
THEOREM PoolTokens == PoolSpec => []TokensConserved
BY PoolImplementsQueue, QueueTokens, PTL
-----------------------------------------------------------------------------
(***************************************************************************)
(* The rings.  With one writer on the data ring and one taker on the free  *)
(* ring the two rings are windows that slide; everything else the queue    *)
(* promises the server follows from that.                                  *)
(***************************************************************************)
(* What the threads of a worker process may do with the queue: the main    *)
(* thread takes free blocks and writes messages, the pool threads read     *)
(* messages and free blocks.                                               *)
RoleNext ==
  \/ CallTake(Main, "free", "first") \/ CallPut(Main, "data")
  \/ \E t \in Workers : CallTake(t, "data", "first") \/ CallPut(t, "free")
  \/ \E t \in Threads : QueueStep(t)

(* A call of a taking function works on the thread's own ring, and so does *)
(* one of a putting function.                                              *)
RoleInv ==
  \A t \in Threads :
    /\ pc[t] \in {"dec", "claim", "load", "clear", "undo", "reg", "unreg", "sleep"} =>
         ring[t] = IF t = Main THEN "free" ELSE "data"
    /\ pc[t] \in {"pclaim", "pwait", "pstore", "pcount", "pcheck", "pdec", "post"} =>
         ring[t] = IF t = Main THEN "data" ELSE "free"

(* When a thread has a block in its hands.                                 *)
HandsInv ==
  \A t \in Threads :
    /\ pc[t] \in {"dec", "claim", "load", "undo", "reg", "sleep",
                  "pcount", "pcheck", "pdec", "post"} => msg[t] = NULL
    /\ pc[t] \in {"clear", "unreg", "pclaim", "pwait", "pstore"} => msg[t] # NULL
    /\ pc[t] = "clear" => slots[ring[t]][pos[t]] = msg[t]

(* No block is in two hands, in two slots, or in a hand and a slot that is *)
(* not being emptied by it.                                                *)
OnceInv ==
  /\ \A t, u \in Threads : msg[t] = msg[u] /\ msg[t] # NULL => t = u
  /\ \A r, q \in Rings : \A p, s \in Positions :
       slots[r][p] = slots[q][s] /\ slots[r][p] # NULL => r = q /\ p = s
  /\ \A t \in Threads, r \in Rings, p \in Positions :
       msg[t] = slots[r][p] /\ msg[t] # NULL => pc[t] = "clear" /\ ring[t] = r /\ pos[t] = p

(* No block is lost.                                                       *)
SomewhereInv ==
  \A b \in Blocks : \/ \E t \in Threads : msg[t] = b
                    \/ \E r \in Rings : \E p \in Positions : slots[r][p] = b

(* Thread t has claimed position p of ring r and not finished with it.     *)
TakeAt(t, r, p) == pc[t] \in {"load", "clear"} /\ ring[t] = r /\ pos[t] = p
PutAt(t, r, p) == pc[t] \in {"pwait", "pstore"} /\ ring[t] = r /\ pos[t] = p

(* Position i places after c, and how far p is after c, around the ring.   *)
At(c, i) == IF c + i < Depth THEN c + i ELSE c + i - Depth
Off(c, p) == IF p >= c THEN p - c ELSE p - c + Depth

(* The data ring has one writer.  The n positions from readpos on hold the *)
(* messages nobody has claimed; every other filled slot has one reader.    *)
DataWindow(n) ==
  /\ n \in 0 .. Depth
  /\ \A p \in Positions :
       Off(takepos["data"], p) < n =>
         slots["data"][p] # NULL /\ \A t \in Threads : ~TakeAt(t, "data", p)
  /\ \A p \in Positions :
       slots["data"][p] # NULL =>
         Off(takepos["data"], p) < n \/ \E t \in Threads : TakeAt(t, "data", p)
  /\ \A t \in Threads, p \in Positions : TakeAt(t, "data", p) => slots["data"][p] # NULL
  /\ \A t, u \in Threads, p \in Positions : TakeAt(t, "data", p) /\ TakeAt(u, "data", p) => t = u
  /\ IF pc[Main] \in {"pwait", "pstore"}
     THEN pos[Main] = At(takepos["data"], n) /\ putpos["data"] = Next1(pos[Main])
     ELSE putpos["data"] = At(takepos["data"], n)
  /\ pc[Main] = "pstore" => slots["data"][pos[Main]] = NULL

(* The oldest position of the free ring that is not emptied yet.           *)
FreeHead == IF pc[Main] \in {"load", "clear"} THEN pos[Main] ELSE takepos["free"]

(* The free ring has one taker.  The n positions from its head on are      *)
(* filled or claimed by one putter each, all others are empty.             *)
FreeWindow(n) ==
  /\ n \in 0 .. Depth
  /\ pc[Main] \in {"load", "clear"} => takepos["free"] = Next1(pos[Main]) /\ n > 0
  /\ putpos["free"] = At(FreeHead, n)
  /\ \A p \in Positions :
       Off(FreeHead, p) < n =>
         slots["free"][p] # NULL \/ \E t \in Threads : PutAt(t, "free", p)
  /\ \A p \in Positions : slots["free"][p] # NULL => Off(FreeHead, p) < n
  /\ \A t \in Threads, p \in Positions :
       PutAt(t, "free", p) => Off(FreeHead, p) < n /\ slots["free"][p] = NULL
  /\ \A t, u \in Threads, p \in Positions : PutAt(t, "free", p) /\ PutAt(u, "free", p) => t = u

(* Both rings are a window of some length.                                 *)
WindowInv == (\E n \in 0 .. Depth : DataWindow(n)) /\ (\E n \in 0 .. Depth : FreeWindow(n))

(* The filled slots of a ring, and the threads at the given program points *)
(* of a call on it.                                                        *)
Filled(r) == {p \in Positions : slots[r][p] # NULL}
On(r, S) == {t \in Threads : ring[t] = r /\ pc[t] \in S}

(* A taker that the count let through has a filled slot to come.           *)
CoverInv ==
  \A r \in Rings :
    Cardinality(On(r, {"claim", "load", "clear"})) <= Cardinality(Filled(r))

(* The inductive invariant of the two rings.                               *)
RingInv ==
  /\ TypeOK /\ RoleInv /\ HandsInv /\ OnceInv /\ SomewhereInv
  /\ WindowInv /\ CountTracksSlots /\ CoverInv

USE DEF Rings, Modes, Steps, TakeSteps, PutSteps

(* The remainder of a position counter that runs past the end is zero.     *)
LEMMA Next1Is == \A p \in Positions : Next1(p) = IF p = Depth - 1 THEN 0 ELSE p + 1
<1> SUFFICES ASSUME NEW p \in Positions
             PROVE  Next1(p) = IF p = Depth - 1 THEN 0 ELSE p + 1
  OBVIOUS
<1>1. p \in 0 .. Depth - 1 /\ Depth \in Nat /\ Depth > 0
  BY DepthAssumption DEF Positions
<1>2. CASE p = Depth - 1
  <2>1. (p + 1) = Depth
    BY <1>1, <1>2
  <2>2. Depth % Depth = 0
    BY <1>1
  <2> QED
    BY <1>2, <2>1, <2>2 DEF Next1
<1>3. CASE p # Depth - 1
  <2>1. p + 1 \in 0 .. Depth - 1
    BY <1>1, <1>3
  <2>2. \A x \in 0 .. Depth - 1 : x % Depth = x
    BY <1>1
  <2> QED
    BY <1>3, <2>1, <2>2 DEF Next1
<1> QED
  BY <1>2, <1>3

(* How positions and distances around the ring move together.              *)
LEMMA AroundRing ==
  ASSUME NEW c \in Positions, NEW p \in Positions, NEW i \in 0 .. Depth
  PROVE  /\ At(c, i) \in Positions
         /\ Off(c, p) \in Positions
         /\ Off(c, p) = 0 <=> p = c
         /\ At(c, Depth) = c
         /\ Off(c, p) = i <=> p = At(c, i) /\ i # Depth
         /\ i < Depth => At(c, i + 1) = Next1(At(c, i))
         /\ i > 0 => At(Next1(c), i - 1) = At(c, i)
         /\ p # c => Off(Next1(c), p) = Off(c, p) - 1
         /\ Off(Next1(c), c) = Depth - 1
<1> USE DepthAssumption DEF Positions
<1>0. /\ Next1(c) = IF c = Depth - 1 THEN 0 ELSE c + 1
      /\ At(c, i) \in Positions
  BY Next1Is DEF At
<1>00. Next1(At(c, i)) = IF At(c, i) = Depth - 1 THEN 0 ELSE At(c, i) + 1
  BY <1>0, Next1Is
<1>1. /\ Off(c, p) \in Positions
      /\ Off(c, p) = 0 <=> p = c
      /\ At(c, Depth) = c
      /\ Off(c, p) = i <=> p = At(c, i) /\ i # Depth
  BY DEF At, Off
<1>2. /\ i < Depth => At(c, i + 1) = Next1(At(c, i))
  BY <1>00 DEF At
<1>3. /\ i > 0 => At(Next1(c), i - 1) = At(c, i)
      /\ p # c => Off(Next1(c), p) = Off(c, p) - 1
      /\ Off(Next1(c), c) = Depth - 1
  BY <1>0 DEF At, Off
<1> QED
  BY <1>0, <1>1, <1>2, <1>3

(* The threads of the pool, and both rings, are there.                     *)
LEMMA Cast ==
  /\ Main \in Threads /\ Workers \subseteq Threads /\ Threads \ {Main} = Workers
  /\ "free" \in Rings /\ "data" \in Rings
BY PoolAssumption

(* Roles and hands.                                                        *)
LEMMA RoleStep ==
  ASSUME TypeOK, RoleInv, RoleNext PROVE RoleInv'
<1> USE Cast DEF TypeOK, RoleInv, Goto
<1>1. CASE CallTake(Main, "free", "first") \/ CallPut(Main, "data")
  BY <1>1 DEF CallTake, CallPut
<1>2. CASE \E t \in Workers : CallTake(t, "data", "first") \/ CallPut(t, "free")
  BY <1>2, PoolAssumption DEF CallTake, CallPut
<1>3. ASSUME NEW t \in Threads,
             \/ DecCount(t) \/ ClaimTake(t) \/ LoadSlot(t) \/ ClearSlot(t) \/ UndoCount(t)
      PROVE  RoleInv'
  BY <1>3 DEF DecCount, ClaimTake, LoadSlot, ClearSlot, UndoCount
<1>4. ASSUME NEW t \in Threads,
             \/ Register(t) \/ Unregister(t) \/ SemWait(t) \/ ClaimPut(t) \/ SeeEmpty(t)
      PROVE  RoleInv'
  BY <1>4 DEF Register, Unregister, SemWait, ClaimPut, SeeEmpty
<1>5. ASSUME NEW t \in Threads,
             \/ StoreSlot(t) \/ IncCount(t) \/ CheckBlocked(t) \/ DecBlocked(t) \/ SemPost(t)
      PROVE  RoleInv'
  BY <1>5 DEF StoreSlot, IncCount, CheckBlocked, DecBlocked, SemPost
<1> QED
  BY <1>1, <1>2, <1>3, <1>4, <1>5 DEF RoleNext, QueueStep
(* A putter finds its slot empty when it stores.                           *)
LEMMA StoresIntoEmpty == TypeOK /\ RoleInv /\ WindowInv => NothingOverwritten
<1> SUFFICES ASSUME TypeOK, RoleInv, WindowInv, NEW t \in Threads, pc[t] = "pstore"
             PROVE  slots[ring[t]][pos[t]] = NULL
  BY DEF NothingOverwritten
<1>1. CASE t = Main
  <2>1. ring[t] = "data"
    BY <1>1 DEF RoleInv
  <2> QED
    BY <1>1, <2>1 DEF WindowInv, DataWindow
<1>2. CASE t # Main
  <2>1. ring[t] = "free" /\ pos[t] \in Positions
    BY <1>2 DEF RoleInv, TypeOK
  <2>2. PutAt(t, "free", pos[t])
    BY <2>1 DEF PutAt
  <2> QED
    BY <2>1, <2>2 DEF WindowInv, FreeWindow
<1> QED
  BY <1>1, <1>2

(* No two threads take from the same slot.                                 *)
LEMMA TakersApart ==
  ASSUME TypeOK, RoleInv, WindowInv, NEW t \in Threads, NEW u \in Threads,
         pc[t] \in {"load", "clear"}, pc[u] \in {"load", "clear"},
         ring[t] = ring[u], pos[t] = pos[u]
  PROVE  t = u
<1>1. CASE t = Main \/ u = Main
  BY <1>1 DEF RoleInv
<1>2. CASE t # Main /\ u # Main
  <2>1. ring[t] = "data" /\ ring[u] = "data" /\ pos[t] \in Positions
    BY <1>2 DEF RoleInv, TypeOK
  <2>2. TakeAt(t, "data", pos[t]) /\ TakeAt(u, "data", pos[t])
    BY <2>1 DEF TakeAt
  <2> QED
    BY <2>1, <2>2 DEF WindowInv, DataWindow
<1> QED
  BY <1>1, <1>2

(* The steps that move a block or claim a slot, and the rest: a step       *)
(* that leaves slots, hands and claimed positions alone.                   *)
LEMMA StepKinds ==
  ASSUME TypeOK, RoleNext
  PROVE  \E t \in Threads :
           \/ ClaimTake(t) \/ LoadSlot(t) \/ ClearSlot(t)
           \/ ClaimPut(t) \/ SeeEmpty(t) \/ StoreSlot(t)
           \/ /\ UNCHANGED <<slots, takepos, putpos, pos, msg>>
              /\ \A u \in Threads \ {t} : pc'[u] = pc[u] /\ ring'[u] = ring[u]
              /\ pc[t] \notin {"load", "clear", "pwait", "pstore"}
              /\ pc'[t] \notin {"load", "clear", "pwait", "pstore"}
<1> USE Cast DEF TypeOK, Goto, ringVars
<1>1. CASE CallTake(Main, "free", "first") \/ CallPut(Main, "data")
  BY <1>1 DEF CallTake, CallPut
<1>2. CASE \E t \in Workers : CallTake(t, "data", "first") \/ CallPut(t, "free")
  BY <1>2 DEF CallTake, CallPut
<1>3. ASSUME NEW t \in Threads,
             \/ DecCount(t) \/ UndoCount(t) \/ Register(t) \/ Unregister(t) \/ SemWait(t)
             \/ IncCount(t) \/ CheckBlocked(t) \/ DecBlocked(t) \/ SemPost(t)
      PROVE  /\ UNCHANGED <<slots, takepos, putpos, pos, msg>>
             /\ \A u \in Threads \ {t} : pc'[u] = pc[u] /\ ring'[u] = ring[u]
             /\ pc[t] \notin {"load", "clear", "pwait", "pstore"}
             /\ pc'[t] \notin {"load", "clear", "pwait", "pstore"}
  BY <1>3 DEF DecCount, UndoCount, Register, Unregister, SemWait, IncCount,
     CheckBlocked, DecBlocked, SemPost
<1> QED
  BY <1>1, <1>2, <1>3 DEF RoleNext, QueueStep

(* What is in which hands.                                                 *)
LEMMA HandsStep ==
  ASSUME TypeOK, RoleInv, WindowInv, HandsInv, RoleNext PROVE HandsInv'
<1> USE Cast DEF TypeOK, HandsInv, Goto
<1>1. CASE CallTake(Main, "free", "first") \/ CallPut(Main, "data")
  BY <1>1 DEF CallTake, CallPut, ringVars
<1>2. CASE \E t \in Workers : CallTake(t, "data", "first") \/ CallPut(t, "free")
  BY <1>2 DEF CallTake, CallPut, ringVars
<1>3. ASSUME NEW t \in Threads,
             \/ DecCount(t) \/ UndoCount(t) \/ Register(t) \/ Unregister(t) \/ SemWait(t)
             \/ IncCount(t) \/ CheckBlocked(t) \/ DecBlocked(t) \/ SemPost(t)
      PROVE  HandsInv'
  BY <1>3 DEF DecCount, UndoCount, Register, Unregister, SemWait, IncCount,
     CheckBlocked, DecBlocked, SemPost, ringVars
<1>4. ASSUME NEW t \in Threads, ClaimTake(t) \/ ClaimPut(t) \/ SeeEmpty(t) PROVE HandsInv'
  BY <1>4 DEF ClaimTake, ClaimPut, SeeEmpty, ringVars
<1>5. ASSUME NEW t \in Threads, LoadSlot(t) PROVE HandsInv'
  BY <1>5 DEF LoadSlot, ringVars
<1>6. ASSUME NEW t \in Threads, ClearSlot(t) PROVE HandsInv'
  <2>1. \A u \in Threads \ {t} : pc[u] = "clear" => ring[u] # ring[t] \/ pos[u] # pos[t]
    BY <1>6, TakersApart DEF ClearSlot
  <2> QED
    BY <1>6, <2>1 DEF ClearSlot
<1>7. ASSUME NEW t \in Threads, StoreSlot(t) PROVE HandsInv'
  <2>1. slots[ring[t]][pos[t]] = NULL
    BY <1>7, StoresIntoEmpty DEF StoreSlot, NothingOverwritten
  <2>2. \A u \in Threads \ {t} : pc[u] = "clear" => ring[u] # ring[t] \/ pos[u] # pos[t]
    BY <1>7, <2>1
  <2> QED
    BY <1>7, <2>1, <2>2 DEF StoreSlot
<1> QED
  BY <1>1, <1>2, <1>3, <1>4, <1>5, <1>6, <1>7 DEF RoleNext, QueueStep
(* A block is never in two places: a load is of a slot no other thread     *)
(* takes from, a store is into an empty slot.                              *)
LEMMA OnceStep ==
  ASSUME TypeOK, RoleInv, WindowInv, HandsInv, OnceInv, RoleNext PROVE OnceInv'
<1>1. PICK t \in Threads :
           \/ ClaimTake(t) \/ LoadSlot(t) \/ ClearSlot(t)
           \/ ClaimPut(t) \/ SeeEmpty(t) \/ StoreSlot(t)
           \/ /\ UNCHANGED <<slots, takepos, putpos, pos, msg>>
              /\ \A u \in Threads \ {t} : pc'[u] = pc[u] /\ ring'[u] = ring[u]
              /\ pc[t] \notin {"load", "clear", "pwait", "pstore"}
              /\ pc'[t] \notin {"load", "clear", "pwait", "pstore"}
  BY StepKinds
<1> USE DEF TypeOK, Goto
<1>2. CASE UNCHANGED <<slots, takepos, putpos, pos, msg>>
  BY <1>1, <1>2 DEF OnceInv, ClaimTake, LoadSlot, ClearSlot, ClaimPut, SeeEmpty, StoreSlot
<1>3. CASE ClaimTake(t)
  BY <1>3 DEF OnceInv, ClaimTake
<1>4. CASE ClaimPut(t) \/ SeeEmpty(t)
  BY <1>4 DEF OnceInv, ClaimPut, SeeEmpty, ringVars
<1>5. CASE LoadSlot(t)
  <2>1. ASSUME NEW u \in Threads \ {t} PROVE msg[u] # slots[ring[t]][pos[t]]
    <3>1. SUFFICES ASSUME msg[u] = slots[ring[t]][pos[t]] PROVE FALSE
      OBVIOUS
    <3>2. ring[t] \in Rings /\ pos[t] \in Positions /\ slots[ring[t]][pos[t]] # NULL
      BY <1>5 DEF LoadSlot
    <3>3. pc[u] = "clear" /\ ring[u] = ring[t] /\ pos[u] = pos[t]
      BY <3>1, <3>2 DEF OnceInv
    <3> QED
      BY <1>5, <3>3, TakersApart DEF LoadSlot
  <2> QED
    BY <1>5, <2>1 DEF OnceInv, LoadSlot, ringVars
<1>6. CASE ClearSlot(t)
  BY <1>6 DEF OnceInv, ClearSlot, HandsInv
<1>7. CASE StoreSlot(t)
  <2>1. slots[ring[t]][pos[t]] = NULL /\ msg[t] # NULL
    BY <1>7, StoresIntoEmpty DEF StoreSlot, NothingOverwritten, HandsInv
  <2>2. \A r \in Rings, p \in Positions : slots[r][p] # msg[t]
    BY <1>7, <2>1 DEF OnceInv, StoreSlot
  <2>3. \A r \in Rings, p \in Positions :
          slots'[r][p] = IF r = ring[t] /\ p = pos[t] THEN msg[t] ELSE slots[r][p]
    BY <1>7 DEF StoreSlot
  <2>4. \A u \in Threads : msg'[u] = IF u = t THEN NULL ELSE msg[u]
    BY <1>7 DEF StoreSlot
  <2>5. \A u \in Threads \ {t} : pc'[u] = pc[u] /\ ring'[u] = ring[u] /\ pos'[u] = pos[u]
    BY <1>7 DEF StoreSlot
  <2> QED
    BY <2>1, <2>2, <2>3, <2>4, <2>5 DEF OnceInv
<1> QED
  BY <1>1, <1>2, <1>3, <1>4, <1>5, <1>6, <1>7

(* A block is never in no place.                                           *)
LEMMA SomewhereStep ==
  ASSUME TypeOK, RoleInv, WindowInv, HandsInv, SomewhereInv, RoleNext PROVE SomewhereInv'
<1>1. PICK t \in Threads :
           \/ ClaimTake(t) \/ LoadSlot(t) \/ ClearSlot(t)
           \/ ClaimPut(t) \/ SeeEmpty(t) \/ StoreSlot(t)
           \/ /\ UNCHANGED <<slots, takepos, putpos, pos, msg>>
              /\ \A u \in Threads \ {t} : pc'[u] = pc[u] /\ ring'[u] = ring[u]
              /\ pc[t] \notin {"load", "clear", "pwait", "pstore"}
              /\ pc'[t] \notin {"load", "clear", "pwait", "pstore"}
  BY StepKinds
<1> USE DEF TypeOK, Goto
<1>n. NULL \notin Blocks
  BY DepthAssumption DEF NULL, Blocks
<1>2. CASE UNCHANGED <<slots, msg>>
  BY <1>2 DEF SomewhereInv
<1>3. CASE LoadSlot(t)
  <2>1. msg[t] = NULL
    BY <1>3 DEF LoadSlot, HandsInv
  <2>2. slots' = slots /\ \A u \in Threads \ {t} : msg'[u] = msg[u]
    BY <1>3 DEF LoadSlot, ringVars
  <2> QED
    BY <2>1, <2>2, <1>n DEF SomewhereInv
<1>4. CASE ClearSlot(t)
  <2>1. msg' = msg /\ msg[t] = slots[ring[t]][pos[t]]
    BY <1>4 DEF ClearSlot, HandsInv
  <2>2. \A r \in Rings, p \in Positions :
          slots'[r][p] = IF r = ring[t] /\ p = pos[t] THEN NULL ELSE slots[r][p]
    BY <1>4 DEF ClearSlot
  <2> QED
    BY <2>1, <2>2, <1>n DEF SomewhereInv
<1>5. CASE StoreSlot(t)
  <2>1. slots[ring[t]][pos[t]] = NULL /\ ring[t] \in Rings /\ pos[t] \in Positions
    BY <1>5, StoresIntoEmpty DEF StoreSlot, NothingOverwritten
  <2>2. \A r \in Rings, p \in Positions :
          slots'[r][p] = IF r = ring[t] /\ p = pos[t] THEN msg[t] ELSE slots[r][p]
    BY <1>5 DEF StoreSlot
  <2>3. \A u \in Threads \ {t} : msg'[u] = msg[u]
    BY <1>5 DEF StoreSlot
  <2> QED
    BY <2>1, <2>2, <2>3, <1>n DEF SomewhereInv
<1>6. CASE ClaimTake(t) \/ ClaimPut(t) \/ SeeEmpty(t)
  BY <1>6, <1>2 DEF ClaimTake, ClaimPut, SeeEmpty, ringVars
<1> QED
  BY <1>1, <1>2, <1>3, <1>4, <1>5, <1>6
(* The numbers CountTracksSlots adds up.                                   *)
Takers(r) == On(r, {"claim", "load", "clear"})
Uncounted(r) == On(r, {"pcount"})
Undoers(r) == On(r, {"undo"})

(* The count of a ring is its filled slots, less the ones not counted yet, *)
(* the ones a taker has counted out and the takers about to undo that.     *)
LEMMA CountIs ==
  CountTracksSlots <=>
    \A r \in Rings : count[r] = Cardinality(Filled(r)) - Cardinality(Uncounted(r))
                                - Cardinality(Takers(r)) - Cardinality(Undoers(r))
BY DEF CountTracksSlots, Filled, On, Takers, Uncounted, Undoers

(* They are numbers.                                                       *)
LEMMA CountedFinite ==
  ASSUME NEW r
  PROVE  /\ IsFiniteSet(Filled(r)) /\ Cardinality(Filled(r)) \in Nat
         /\ IsFiniteSet(Takers(r)) /\ Cardinality(Takers(r)) \in Nat
         /\ IsFiniteSet(Uncounted(r)) /\ Cardinality(Uncounted(r)) \in Nat
         /\ IsFiniteSet(Undoers(r)) /\ Cardinality(Undoers(r)) \in Nat
<1>1. IsFiniteSet(Positions)
  BY FS_Interval, DepthAssumption DEF Positions
<1>2. /\ Filled(r) \subseteq Positions
      /\ Takers(r) \subseteq Threads /\ Uncounted(r) \subseteq Threads
      /\ Undoers(r) \subseteq Threads
  BY DEF Filled, On, Takers, Uncounted, Undoers
<1>3. /\ IsFiniteSet(Filled(r)) /\ IsFiniteSet(Takers(r))
      /\ IsFiniteSet(Uncounted(r)) /\ IsFiniteSet(Undoers(r))
  BY <1>1, <1>2, ThreadsAssumption, FS_Subset
<1> QED
  BY <1>3, FS_CardinalityType

(* Only the step named in each case changes the counter and the sets, and  *)
(* only those of the thread's own ring.                                    *)
LEMMA CountStep ==
  ASSUME TypeOK, RoleInv, WindowInv, HandsInv, CountTracksSlots, CoverInv, RoleNext
  PROVE  CountTracksSlots' /\ CoverInv'
<1> USE DEF CoverInv
<1>c. \A r \in Rings :
        /\ count[r] = Cardinality(Filled(r)) - Cardinality(Uncounted(r))
                      - Cardinality(Takers(r)) - Cardinality(Undoers(r))
        /\ Cardinality(Takers(r)) <= Cardinality(Filled(r))
  BY CountIs DEF Takers
<1>i. /\ CountTracksSlots' <=>
           \A r \in Rings : count'[r] = Cardinality(Filled(r)') - Cardinality(Uncounted(r)')
                                - Cardinality(Takers(r)') - Cardinality(Undoers(r)')
      /\ CoverInv' <=>
           \A r \in Rings : Cardinality(Takers(r)') <= Cardinality(Filled(r)')
  BY DEF CountTracksSlots, Filled, On, Takers, Uncounted, Undoers
<1>f. \A r \in Rings :
         /\ IsFiniteSet(Filled(r)) /\ Cardinality(Filled(r)) \in Nat
         /\ IsFiniteSet(Takers(r)) /\ Cardinality(Takers(r)) \in Nat
         /\ IsFiniteSet(Uncounted(r)) /\ Cardinality(Uncounted(r)) \in Nat
         /\ IsFiniteSet(Undoers(r)) /\ Cardinality(Undoers(r)) \in Nat
  BY CountedFinite
<1>s. ASSUME count' = count,
             \A r \in Rings : /\ Filled(r)' = Filled(r) /\ Takers(r)' = Takers(r)
                              /\ Uncounted(r)' = Uncounted(r) /\ Undoers(r)' = Undoers(r)
      PROVE  CountTracksSlots' /\ CoverInv'
  BY <1>c, <1>i, <1>s
<1>1. CASE \/ CallTake(Main, "free", "first") \/ CallPut(Main, "data")
           \/ \E t \in Workers : CallTake(t, "data", "first") \/ CallPut(t, "free")
  <2>1. /\ count' = count
        /\ \A r \in Rings : /\ Filled(r)' = Filled(r) /\ Takers(r)' = Takers(r)
                            /\ Uncounted(r)' = Uncounted(r) /\ Undoers(r)' = Undoers(r)
    BY <1>1, Cast
    DEF CallTake, CallPut, ringVars, Goto, TypeOK, Filled, Takers, Uncounted, Undoers, On
  <2> QED
    BY <2>1, <1>s
<1>2. ASSUME NEW t \in Threads,
             \/ ClaimTake(t) \/ LoadSlot(t) \/ ClaimPut(t) \/ SeeEmpty(t)
             \/ Register(t) \/ Unregister(t) \/ SemWait(t)
             \/ CheckBlocked(t) \/ DecBlocked(t) \/ SemPost(t)
      PROVE  CountTracksSlots' /\ CoverInv'
  <2>1. count' = count /\ slots' = slots /\ ring' = ring
    BY <1>2 DEF ClaimTake, LoadSlot, ClaimPut, SeeEmpty, Register, Unregister, SemWait,
                CheckBlocked, DecBlocked, SemPost, ringVars
  <2>2. /\ \A u \in Threads \ {t} : pc'[u] = pc[u]
        /\ pc[t] \in {"claim", "load", "clear"} <=> pc'[t] \in {"claim", "load", "clear"}
        /\ pc[t] \notin {"undo", "pcount"} /\ pc'[t] \notin {"undo", "pcount"}
    BY <1>2 DEF ClaimTake, LoadSlot, ClaimPut, SeeEmpty, Register, Unregister, SemWait,
                CheckBlocked, DecBlocked, SemPost, Goto, TypeOK
  <2>3. \A r \in Rings : /\ Filled(r)' = Filled(r) /\ Takers(r)' = Takers(r)
                         /\ Uncounted(r)' = Uncounted(r) /\ Undoers(r)' = Undoers(r)
    BY <2>1, <2>2 DEF Filled, Takers, Uncounted, Undoers, On
  <2> QED
    BY <2>1, <2>3, <1>s
<1>3. ASSUME NEW t \in Threads, DecCount(t) PROVE CountTracksSlots' /\ CoverInv'
  <2> DEFINE me == ring[t]
  <2>1. /\ me \in Rings /\ slots' = slots /\ ring' = ring
        /\ \A r \in Rings : count'[r] = IF r = me THEN count[r] - 1 ELSE count[r]
        /\ pc' = [pc EXCEPT ![t] = pc'[t]]
        /\ pc[t] = "dec"
        /\ pc'[t] = IF count[me] > 0 THEN "claim" ELSE "undo"
    BY <1>3 DEF DecCount, Goto, TypeOK
  <2>2. \A r \in Rings : Filled(r)' = Filled(r)
    BY <2>1 DEF Filled
  <2>3. \A r \in Rings : Uncounted(r)' = Uncounted(r)
    BY <2>1 DEF TypeOK, Uncounted, On
  <2>4. \A r \in Rings \ {me} : Takers(r)' = Takers(r) /\ Undoers(r)' = Undoers(r)
    BY <2>1 DEF TypeOK, Takers, Undoers, On
  <2>5. t \notin Takers(me) /\ t \notin Undoers(me)
    BY <2>1 DEF Takers, Undoers, On
  <2>6. CASE count[me] > 0
    <3>1. Takers(me)' = Takers(me) \cup {t} /\ Undoers(me)' = Undoers(me)
      BY <2>1, <2>6 DEF TypeOK, Takers, Undoers, On
    <3>2. Cardinality(Takers(me)') = Cardinality(Takers(me)) + 1
      BY <3>1, <2>1, <2>5, <1>f, CardOne
    <3>3. /\ count'[me] = Cardinality(Filled(me)') - Cardinality(Uncounted(me)')
                                - Cardinality(Takers(me)') - Cardinality(Undoers(me)')
          /\ Cardinality(Takers(me)') <= Cardinality(Filled(me)')
      BY <3>1, <3>2, <2>1, <2>2, <2>3, <2>6, <1>c, <1>f
    <3> QED
      BY <3>3, <2>1, <2>2, <2>3, <2>4, <1>c, <1>i
  <2>7. CASE ~(count[me] > 0)
    <3>1. Undoers(me)' = Undoers(me) \cup {t} /\ Takers(me)' = Takers(me)
      BY <2>1, <2>7 DEF TypeOK, Takers, Undoers, On
    <3>2. Cardinality(Undoers(me)') = Cardinality(Undoers(me)) + 1
      BY <3>1, <2>1, <2>5, <1>f, CardOne
    <3>3. /\ count'[me] = Cardinality(Filled(me)') - Cardinality(Uncounted(me)')
                                - Cardinality(Takers(me)') - Cardinality(Undoers(me)')
          /\ Cardinality(Takers(me)') <= Cardinality(Filled(me)')
      BY <3>1, <3>2, <2>1, <2>2, <2>3, <2>7, <1>c, <1>f
    <3> QED
      BY <3>3, <2>1, <2>2, <2>3, <2>4, <1>c, <1>i
  <2> QED
    BY <2>6, <2>7
<1>4. ASSUME NEW t \in Threads, UndoCount(t) PROVE CountTracksSlots' /\ CoverInv'
  <2> DEFINE me == ring[t]
  <2>1. /\ me \in Rings /\ slots' = slots /\ ring' = ring
        /\ \A r \in Rings : count'[r] = IF r = me THEN count[r] + 1 ELSE count[r]
        /\ \A u \in Threads \ {t} : pc'[u] = pc[u]
        /\ pc[t] = "undo" /\ pc'[t] \in {"idle", "reg", "sleep"}
    BY <1>4 DEF UndoCount, Goto, TypeOK
  <2>2. /\ \A r \in Rings : Filled(r)' = Filled(r) /\ Uncounted(r)' = Uncounted(r)
        /\ \A r \in Rings : Takers(r)' = Takers(r)
        /\ \A r \in Rings \ {me} : Undoers(r)' = Undoers(r)
        /\ t \in Undoers(me) /\ Undoers(me)' = Undoers(me) \ {t}
    BY <2>1 DEF Filled, Uncounted, Takers, Undoers, On
  <2>3. Cardinality(Undoers(me)') = Cardinality(Undoers(me)) - 1
    BY <2>1, <2>2, <1>f, CardOne
  <2>4. /\ count'[me] = Cardinality(Filled(me)') - Cardinality(Uncounted(me)')
                              - Cardinality(Takers(me)') - Cardinality(Undoers(me)')
        /\ Cardinality(Takers(me)') <= Cardinality(Filled(me)')
    BY <2>1, <2>2, <2>3, <1>c, <1>f
  <2> QED
    BY <2>1, <2>2, <2>4, <1>c, <1>i
<1>5. ASSUME NEW t \in Threads, IncCount(t) PROVE CountTracksSlots' /\ CoverInv'
  <2> DEFINE me == ring[t]
  <2>1. /\ me \in Rings /\ slots' = slots /\ ring' = ring
        /\ \A r \in Rings : count'[r] = IF r = me THEN count[r] + 1 ELSE count[r]
        /\ \A u \in Threads \ {t} : pc'[u] = pc[u]
        /\ pc[t] = "pcount" /\ pc'[t] = "pcheck"
    BY <1>5 DEF IncCount, Goto, TypeOK
  <2>2. /\ \A r \in Rings : Filled(r)' = Filled(r) /\ Undoers(r)' = Undoers(r)
        /\ \A r \in Rings : Takers(r)' = Takers(r)
        /\ \A r \in Rings \ {me} : Uncounted(r)' = Uncounted(r)
        /\ t \in Uncounted(me) /\ Uncounted(me)' = Uncounted(me) \ {t}
    BY <2>1 DEF Filled, Uncounted, Takers, Undoers, On
  <2>3. Cardinality(Uncounted(me)') = Cardinality(Uncounted(me)) - 1
    BY <2>1, <2>2, <1>f, CardOne
  <2>4. /\ count'[me] = Cardinality(Filled(me)') - Cardinality(Uncounted(me)')
                              - Cardinality(Takers(me)') - Cardinality(Undoers(me)')
        /\ Cardinality(Takers(me)') <= Cardinality(Filled(me)')
    BY <2>1, <2>2, <2>3, <1>c, <1>f
  <2> QED
    BY <2>1, <2>2, <2>4, <1>c, <1>i
<1>6. ASSUME NEW t \in Threads, ClearSlot(t) PROVE CountTracksSlots' /\ CoverInv'
  <2> DEFINE me == ring[t]
  <2>1. /\ me \in Rings /\ pos[t] \in Positions /\ count' = count /\ ring' = ring
        /\ \A r \in Rings, p \in Positions :
             slots'[r][p] = IF r = me /\ p = pos[t] THEN NULL ELSE slots[r][p]
        /\ \A u \in Threads \ {t} : pc'[u] = pc[u]
        /\ pc[t] = "clear" /\ pc'[t] \in {"idle", "unreg"}
        /\ slots[me][pos[t]] # NULL
    BY <1>6 DEF ClearSlot, Goto, TypeOK, HandsInv
  <2>2. /\ \A r \in Rings : Uncounted(r)' = Uncounted(r) /\ Undoers(r)' = Undoers(r)
        /\ \A r \in Rings \ {me} : Takers(r)' = Takers(r)
        /\ t \in Takers(me) /\ Takers(me)' = Takers(me) \ {t}
    BY <2>1 DEF Uncounted, Takers, Undoers, On
  <2>3. /\ \A r \in Rings \ {me} : Filled(r)' = Filled(r)
        /\ pos[t] \in Filled(me) /\ Filled(me)' = Filled(me) \ {pos[t]}
    BY <2>1 DEF Filled
  <2>4. /\ Cardinality(Takers(me)') = Cardinality(Takers(me)) - 1
        /\ Cardinality(Filled(me)') = Cardinality(Filled(me)) - 1
    <3>1. IsFiniteSet(Takers(me)) /\ IsFiniteSet(Filled(me))
      BY <2>1, <1>f
    <3>2. Cardinality(Takers(me) \ {t}) = Cardinality(Takers(me)) - 1
      BY <3>1, <2>2, CardOne
    <3>3. Cardinality(Filled(me) \ {pos[t]}) = Cardinality(Filled(me)) - 1
      BY <3>1, <2>3, CardOne
    <3> QED
      BY <3>2, <3>3, <2>2, <2>3
  <2>5. /\ count'[me] = Cardinality(Filled(me)') - Cardinality(Uncounted(me)')
                              - Cardinality(Takers(me)') - Cardinality(Undoers(me)')
        /\ Cardinality(Takers(me)') <= Cardinality(Filled(me)')
    BY <2>1, <2>2, <2>4, <1>c, <1>f
  <2>6. \A r \in Rings \ {me} :
          /\ count'[r] = count[r] /\ Filled(r)' = Filled(r) /\ Takers(r)' = Takers(r)
          /\ Uncounted(r)' = Uncounted(r) /\ Undoers(r)' = Undoers(r)
    BY <2>1, <2>2, <2>3
  <2>7. me \in Rings /\ ring' = ring
    BY <2>1
  <2> QED
    BY <2>5, <2>6, <2>7, <1>c, <1>i
<1>7. ASSUME NEW t \in Threads, StoreSlot(t) PROVE CountTracksSlots' /\ CoverInv'
  <2> DEFINE me == ring[t]
  <2>0. slots[me][pos[t]] = NULL /\ msg[t] # NULL
    BY <1>7, StoresIntoEmpty DEF StoreSlot, NothingOverwritten, HandsInv
  <2>1. /\ me \in Rings /\ pos[t] \in Positions /\ count' = count /\ ring' = ring
        /\ \A r \in Rings, p \in Positions :
             slots'[r][p] = IF r = me /\ p = pos[t] THEN msg[t] ELSE slots[r][p]
        /\ \A u \in Threads \ {t} : pc'[u] = pc[u]
        /\ pc[t] = "pstore" /\ pc'[t] = "pcount"
    BY <1>7 DEF StoreSlot, Goto, TypeOK
  <2>2. /\ \A r \in Rings : Takers(r)' = Takers(r) /\ Undoers(r)' = Undoers(r)
        /\ \A r \in Rings \ {me} : Uncounted(r)' = Uncounted(r)
        /\ t \notin Uncounted(me) /\ Uncounted(me)' = Uncounted(me) \cup {t}
    BY <2>1 DEF Uncounted, Takers, Undoers, On
  <2>3. /\ \A r \in Rings \ {me} : Filled(r)' = Filled(r)
        /\ pos[t] \notin Filled(me) /\ Filled(me)' = Filled(me) \cup {pos[t]}
    BY <2>0, <2>1 DEF Filled
  <2>4. /\ Cardinality(Uncounted(me)') = Cardinality(Uncounted(me)) + 1
        /\ Cardinality(Filled(me)') = Cardinality(Filled(me)) + 1
    <3>1. IsFiniteSet(Uncounted(me)) /\ IsFiniteSet(Filled(me))
      BY <2>1, <1>f
    <3>2. Cardinality(Uncounted(me) \cup {t}) = Cardinality(Uncounted(me)) + 1
      BY <3>1, <2>2, CardOne
    <3>3. Cardinality(Filled(me) \cup {pos[t]}) = Cardinality(Filled(me)) + 1
      BY <3>1, <2>3, CardOne
    <3> QED
      BY <3>2, <3>3, <2>2, <2>3
  <2>5. /\ count'[me] = Cardinality(Filled(me)') - Cardinality(Uncounted(me)')
                              - Cardinality(Takers(me)') - Cardinality(Undoers(me)')
        /\ Cardinality(Takers(me)') <= Cardinality(Filled(me)')
    BY <2>1, <2>2, <2>4, <1>c, <1>f
  <2>6. \A r \in Rings \ {me} :
          /\ count'[r] = count[r] /\ Filled(r)' = Filled(r) /\ Takers(r)' = Takers(r)
          /\ Uncounted(r)' = Uncounted(r) /\ Undoers(r)' = Undoers(r)
    BY <2>1, <2>2, <2>3
  <2>7. me \in Rings /\ ring' = ring
    BY <2>1
  <2> QED
    BY <2>5, <2>6, <2>7, <1>c, <1>i
<1> QED
  BY <1>1, <1>2, <1>3, <1>4, <1>5, <1>6, <1>7 DEF RoleNext, QueueStep
(* A step that leaves the data ring, its readers and its writer alone      *)
(* keeps its window.                                                       *)
LEMMA DataKept ==
  ASSUME NEW n, DataWindow(n),
         slots'["data"] = slots["data"], takepos'["data"] = takepos["data"],
         putpos'["data"] = putpos["data"],
         \A u \in Threads, p \in Positions : TakeAt(u, "data", p)' <=> TakeAt(u, "data", p),
         pc'[Main] \in {"pwait", "pstore"} <=> pc[Main] \in {"pwait", "pstore"},
         pc'[Main] = "pstore" => pc[Main] = "pstore",
         pc[Main] \in {"pwait", "pstore"} => pos'[Main] = pos[Main]
  PROVE  DataWindow(n)'
BY DEF DataWindow

(* The same for the free ring.                                             *)
LEMMA FreeKept ==
  ASSUME NEW n, FreeWindow(n),
         slots'["free"] = slots["free"], takepos'["free"] = takepos["free"],
         putpos'["free"] = putpos["free"],
         \A u \in Threads, p \in Positions : PutAt(u, "free", p)' <=> PutAt(u, "free", p),
         pc'[Main] \in {"load", "clear"} <=> pc[Main] \in {"load", "clear"},
         pc[Main] \in {"load", "clear"} => pos'[Main] = pos[Main]
  PROVE  FreeWindow(n)'
<1>1. FreeHead' = FreeHead
  BY DEF FreeHead
<1> QED
  BY <1>1 DEF FreeWindow

(* A reader that the count let through finds an unclaimed message: the     *)
(* other readers claim fewer slots than are filled.                        *)
LEMMA ReaderFindsMessage ==
  ASSUME TypeOK, CoverInv, NEW n, DataWindow(n),
         NEW t \in Threads, pc[t] = "claim", ring[t] = "data"
  PROVE  n > 0
<1> DEFINE L == Takers("data") \ {t}
           I == {pos[u] : u \in L}
<1>1. IsFiniteSet(Takers("data")) /\ t \in Takers("data") /\ Cardinality(Takers("data")) \in Nat
  BY CountedFinite DEF Takers, On
<1>2. IsFiniteSet(L) /\ Cardinality(L) = Cardinality(Takers("data")) - 1
  BY <1>1, FS_RemoveElement
<1>3. IsFiniteSet(I) /\ Cardinality(I) <= Cardinality(L)
  <2>1. [u \in L |-> pos[u]] \in Surjection(L, I)
    BY DEF Surjection
  <2> QED
    BY <1>2, <2>1, FS_Surjection
<1>4. Cardinality(Takers("data")) <= Cardinality(Filled("data"))
  BY Cast DEF CoverInv, Takers
<1>5. ~(Filled("data") \subseteq I)
  <2>1. SUFFICES ASSUME Filled("data") \subseteq I PROVE FALSE
    OBVIOUS
  <2>2. Cardinality(Filled("data")) <= Cardinality(I)
    BY <2>1, <1>3, FS_Subset
  <2>3. Cardinality(I) \in Nat /\ Cardinality(L) \in Nat /\ Cardinality(Filled("data")) \in Nat
    BY <1>2, <1>3, CountedFinite, FS_CardinalityType
  <2> QED
    BY <1>1, <1>2, <1>3, <1>4, <2>2, <2>3
<1>6. PICK p \in Positions : slots["data"][p] # NULL /\ p \notin I
  BY <1>5 DEF Filled
<1>7. \A u \in Threads : ~TakeAt(u, "data", p)
  BY <1>6 DEF TakeAt, Takers, On
<1>8. Off(takepos["data"], p) < n
  BY <1>6, <1>7 DEF DataWindow
<1>9. Off(takepos["data"], p) \in Positions
  BY Cast, DepthAssumption, AroundRing DEF TypeOK
<1> QED
  BY <1>8, <1>9, DepthAssumption DEF Positions, DataWindow

(* The main thread, when the count let it through, finds a block to come.  *)
LEMMA TakerFindsBlock ==
  ASSUME TypeOK, RoleInv, CoverInv, NEW n, FreeWindow(n), pc[Main] = "claim"
  PROVE  n > 0
<1>1. ring[Main] = "free"
  BY Cast DEF RoleInv
<1>2. Main \in Takers("free")
  BY <1>1, Cast DEF Takers, On
<1>3. Cardinality(Takers("free")) # 0
  BY <1>2, CountedFinite, FS_EmptySet
<1>4. Cardinality(Filled("free")) # 0
  BY <1>3, CountedFinite, Cast DEF CoverInv, Takers
<1>5. PICK p \in Positions : slots["free"][p] # NULL
  BY <1>4, FS_EmptySet DEF Filled
<1>6. Off(FreeHead, p) < n /\ FreeHead = takepos["free"]
  BY <1>5 DEF FreeWindow, FreeHead
<1>7. Off(takepos["free"], p) \in Positions
  BY Cast, DepthAssumption, AroundRing DEF TypeOK
<1> QED
  BY <1>6, <1>7, DepthAssumption DEF Positions, FreeWindow
(* The data ring: readers claim from the front of the window, the main     *)
(* thread stores behind it, and only into a slot it has seen empty.        *)
LEMMA DataStep ==
  ASSUME TypeOK, RoleInv, HandsInv, CoverInv, RoleNext, NEW n \in 0 .. Depth, DataWindow(n)
  PROVE  \E m \in 0 .. Depth : DataWindow(m)'
<1>1. PICK t \in Threads :
           \/ ClaimTake(t) \/ LoadSlot(t) \/ ClearSlot(t)
           \/ ClaimPut(t) \/ SeeEmpty(t) \/ StoreSlot(t)
           \/ /\ UNCHANGED <<slots, takepos, putpos, pos, msg>>
              /\ \A u \in Threads \ {t} : pc'[u] = pc[u] /\ ring'[u] = ring[u]
              /\ pc[t] \notin {"load", "clear", "pwait", "pstore"}
              /\ pc'[t] \notin {"load", "clear", "pwait", "pstore"}
  BY StepKinds
<1>t. /\ pc \in [Threads -> Steps] /\ ring \in [Threads -> Rings]
      /\ pos \in [Threads -> Positions] /\ takepos \in [Rings -> Positions]
      /\ putpos \in [Rings -> Positions]
      /\ slots \in [Rings -> [Positions -> Blocks \cup {NULL}]]
      /\ takepos["data"] \in Positions
  BY DEF TypeOK
<1>c. Main \in Threads
  BY Cast
<1> DEFINE T == takepos["data"]
<1>2. CASE /\ UNCHANGED <<slots, takepos, putpos, pos, msg>>
           /\ \A u \in Threads \ {t} : pc'[u] = pc[u] /\ ring'[u] = ring[u]
           /\ pc[t] \notin {"load", "clear", "pwait", "pstore"}
           /\ pc'[t] \notin {"load", "clear", "pwait", "pstore"}
  <2>1. \A u \in Threads, p \in Positions : TakeAt(u, "data", p)' <=> TakeAt(u, "data", p)
    BY <1>2 DEF TakeAt
  <2>2. DataWindow(n)'
    BY <1>2, <1>c, <2>1, DataKept
  <2> QED
    BY <2>2
<1>3. CASE LoadSlot(t) \/ (SeeEmpty(t) /\ t # Main)
  <2>1. \A u \in Threads, p \in Positions : TakeAt(u, "data", p)' <=> TakeAt(u, "data", p)
    BY <1>3, <1>t DEF LoadSlot, SeeEmpty, TakeAt, Goto
  <2>2. UNCHANGED <<slots, takepos, putpos, pos>>
    BY <1>3 DEF LoadSlot, SeeEmpty, ringVars
  <2>3. /\ pc'[Main] \in {"pwait", "pstore"} <=> pc[Main] \in {"pwait", "pstore"}
        /\ pc'[Main] = "pstore" => pc[Main] = "pstore"
    BY <1>3, <1>c, <1>t DEF LoadSlot, SeeEmpty, Goto
  <2>4. DataWindow(n)'
    BY <2>1, <2>2, <2>3, DataKept
  <2> QED
    BY <2>4
<1>4. CASE SeeEmpty(t) /\ t = Main
  <2>1. ring[Main] = "data"
    BY <1>4, <1>c DEF SeeEmpty, RoleInv
  <2>2. \A u \in Threads, p \in Positions : TakeAt(u, "data", p)' <=> TakeAt(u, "data", p)
    BY <1>4, <1>t DEF SeeEmpty, TakeAt, Goto
  <2>3. UNCHANGED <<slots, takepos, putpos, pos>> /\ slots["data"][pos[Main]] = NULL
    BY <1>4, <2>1 DEF SeeEmpty, ringVars
  <2>4. pc[Main] = "pwait" /\ pc'[Main] = "pstore"
    BY <1>4, <1>c, <1>t DEF SeeEmpty, Goto
  <2>5. DataWindow(n)'
    BY <2>2, <2>3, <2>4 DEF DataWindow
  <2> QED
    BY <2>5
<1>5. CASE (ClaimTake(t) \/ ClearSlot(t)) /\ t = Main
  <2>1. ring[Main] = "free"
    BY <1>5, <1>c DEF ClaimTake, ClearSlot, RoleInv
  <2>2. \A u \in Threads, p \in Positions : TakeAt(u, "data", p)' <=> TakeAt(u, "data", p)
    BY <1>5, <1>t, <2>1 DEF ClaimTake, ClearSlot, TakeAt, Goto
  <2>3. /\ slots'["data"] = slots["data"] /\ takepos'["data"] = takepos["data"]
        /\ putpos'["data"] = putpos["data"]
    BY <1>5, <1>t, <2>1 DEF ClaimTake, ClearSlot
  <2>4. pc'[Main] \notin {"pwait", "pstore"} /\ pc[Main] \notin {"pwait", "pstore"}
    BY <1>5, <1>c, <1>t DEF ClaimTake, ClearSlot, Goto
  <2>5. DataWindow(n)'
    BY <2>2, <2>3, <2>4, DataKept
  <2> QED
    BY <2>5
<1>6. CASE (ClaimPut(t) \/ StoreSlot(t)) /\ t # Main
  <2>1. ring[t] = "free"
    BY <1>6 DEF ClaimPut, StoreSlot, RoleInv
  <2>2. \A u \in Threads, p \in Positions : TakeAt(u, "data", p)' <=> TakeAt(u, "data", p)
    BY <1>6, <1>t, <2>1 DEF ClaimPut, StoreSlot, TakeAt, Goto
  <2>3. /\ slots'["data"] = slots["data"] /\ takepos'["data"] = takepos["data"]
        /\ putpos'["data"] = putpos["data"]
    BY <1>6, <1>t, <2>1 DEF ClaimPut, StoreSlot
  <2>4. pc'[Main] = pc[Main] /\ pos'[Main] = pos[Main]
    BY <1>6, <1>c, <1>t DEF ClaimPut, StoreSlot, Goto
  <2>5. DataWindow(n)'
    BY <2>2, <2>3, <2>4, DataKept
  <2> QED
    BY <2>5
<1>7. CASE ClaimTake(t) /\ t # Main
  <2>1. ring[t] = "data" /\ pc[t] = "claim"
    BY <1>7 DEF ClaimTake, RoleInv
  <2>2. n > 0
    BY <2>1, ReaderFindsMessage
  <2>3. /\ slots' = slots /\ putpos' = putpos /\ takepos'["data"] = Next1(T)
        /\ pc'[Main] = pc[Main] /\ pos'[Main] = pos[Main]
    BY <1>7, <1>c, <1>t, <2>1 DEF ClaimTake, Goto
  <2>4. \A u \in Threads, p \in Positions :
          TakeAt(u, "data", p)' <=> TakeAt(u, "data", p) \/ (u = t /\ p = T)
    BY <1>7, <1>t, <2>1 DEF ClaimTake, Goto, TakeAt
  <2>5. \A p \in Positions : Off(Next1(T), p) < n - 1 <=> Off(T, p) < n /\ p # T
    <3> SUFFICES ASSUME NEW p \in Positions
                 PROVE  Off(Next1(T), p) < n - 1 <=> Off(T, p) < n /\ p # T
      OBVIOUS
    <3>1. /\ p # T => Off(Next1(T), p) = Off(T, p) - 1
          /\ Off(Next1(T), T) = Depth - 1
          /\ Off(T, p) \in Positions
      BY <1>t, AroundRing
    <3> QED
      BY <3>1, DepthAssumption DEF Positions
  <2>6. At(Next1(T), n - 1) = At(T, n) /\ n - 1 \in 0 .. Depth
    BY <1>t, <2>2, AroundRing, DepthAssumption
  <2>7. Off(T, T) < n
    BY <1>t, <2>2, AroundRing
  <2>8. ~TakeAt(t, "data", T) /\ \A p \in Positions : ~TakeAt(t, "data", p)
    BY <2>1, <1>t DEF TakeAt
  <2>9. DataWindow(n - 1)'
    BY <2>3, <2>4, <2>5, <2>6, <2>7, <2>8, <1>t DEF DataWindow
  <2> QED
    BY <2>6, <2>9
<1>8. CASE ClearSlot(t) /\ t # Main
  <2>1. ring[t] = "data" /\ pc[t] = "clear" /\ pos[t] \in Positions
    BY <1>8, <1>t DEF ClearSlot, RoleInv
  <2>2. /\ takepos' = takepos /\ putpos' = putpos
        /\ pc'[Main] = pc[Main] /\ pos'[Main] = pos[Main]
    BY <1>8, <1>c, <1>t DEF ClearSlot, Goto
  <2>3. \A p \in Positions :
          slots'["data"][p] = IF p = pos[t] THEN NULL ELSE slots["data"][p]
    BY <1>8, <1>t, <2>1 DEF ClearSlot
  <2>4. \A u \in Threads, p \in Positions :
          TakeAt(u, "data", p)' <=> TakeAt(u, "data", p) /\ u # t
    BY <1>8, <1>t, <2>1 DEF ClearSlot, Goto, TakeAt
  <2>5. TakeAt(t, "data", pos[t]) /\ \A p \in Positions : TakeAt(t, "data", p) => p = pos[t]
    BY <2>1 DEF TakeAt
  <2>6. pos[Main] \in Positions
    BY <1>c, <1>t
  <2>7. DataWindow(n)'
    BY <2>1, <2>2, <2>3, <2>4, <2>5, <2>6 DEF DataWindow
  <2> QED
    BY <2>7
<1>9. CASE ClaimPut(t) /\ t = Main
  <2>1. ring[t] = "data" /\ pc[t] = "pclaim"
    BY <1>9 DEF ClaimPut, RoleInv
  <2>2. /\ slots' = slots /\ takepos' = takepos
        /\ putpos'["data"] = Next1(putpos["data"]) /\ pos'[Main] = putpos["data"]
        /\ pc[Main] = "pclaim" /\ pc'[Main] = "pwait"
    BY <1>9, <1>t, <2>1 DEF ClaimPut, Goto
  <2>3. \A u \in Threads, p \in Positions : TakeAt(u, "data", p)' <=> TakeAt(u, "data", p)
    BY <1>9, <1>t, <2>1 DEF ClaimPut, Goto, TakeAt
  <2>4. DataWindow(n)'
    BY <2>2, <2>3 DEF DataWindow
  <2> QED
    BY <2>4
<1>10. CASE StoreSlot(t) /\ t = Main
  <2>1. ring[t] = "data" /\ pc[t] = "pstore" /\ msg[t] # NULL /\ pos[t] \in Positions
    BY <1>10, <1>t DEF StoreSlot, RoleInv, HandsInv
  <2>2. slots["data"][pos[t]] = NULL /\ pos[t] = At(T, n) /\ putpos["data"] = Next1(pos[t])
    BY <1>10, <2>1 DEF DataWindow
  <2>3. n < Depth
    <3>1. SUFFICES ASSUME n = Depth PROVE FALSE
      BY DepthAssumption
    <3>2. pos[t] = T /\ Off(T, T) = 0
      BY <3>1, <2>2, <1>t, AroundRing, DepthAssumption
    <3> QED
      BY <3>1, <3>2, <2>2, <1>t, DepthAssumption DEF DataWindow
  <2>4. /\ takepos' = takepos /\ putpos' = putpos /\ pc'[Main] = "pcount"
    BY <1>10, <1>t DEF StoreSlot, Goto
  <2>5. \A p \in Positions :
          slots'["data"][p] = IF p = pos[t] THEN msg[t] ELSE slots["data"][p]
    BY <1>10, <1>t, <2>1 DEF StoreSlot
  <2>6. \A u \in Threads, p \in Positions : TakeAt(u, "data", p)' <=> TakeAt(u, "data", p)
    BY <1>10, <1>t, <2>1 DEF StoreSlot, Goto, TakeAt
  <2>7. \A p \in Positions : Off(T, p) < n + 1 <=> Off(T, p) < n \/ p = pos[t]
    <3> SUFFICES ASSUME NEW p \in Positions
                 PROVE  Off(T, p) < n + 1 <=> Off(T, p) < n \/ p = pos[t]
      OBVIOUS
    <3>1. Off(T, p) \in Positions /\ (Off(T, p) = n <=> p = At(T, n))
      BY <1>t, <2>3, AroundRing
    <3> QED
      BY <3>1, <2>2, DepthAssumption DEF Positions
  <2>8. At(T, n + 1) = Next1(At(T, n)) /\ n + 1 \in 0 .. Depth
    <3>1. n + 1 \in 0 .. Depth
      BY <2>3, DepthAssumption
    <3>2. At(T, n + 1) = Next1(At(T, n))
      BY <1>t, <2>3, AroundRing
    <3> QED
      BY <3>1, <3>2
  <2>9. \A u \in Threads : ~TakeAt(u, "data", pos[t])
    BY <2>1, <2>2 DEF DataWindow
  <2>10. DataWindow(n + 1)'
    BY <2>1, <2>2, <2>4, <2>5, <2>6, <2>7, <2>8, <2>9 DEF DataWindow
  <2> QED
    BY <2>8, <2>10
<1> QED
  BY <1>1, <1>2, <1>3, <1>4, <1>5, <1>6, <1>7, <1>8, <1>9, <1>10
(* There are Depth blocks: of Depth + 1 two are the same.                  *)
LEMMA MoreThanBlocks ==
  ASSUME NEW f \in [0 .. Depth -> Blocks]
  PROVE  \E x, y \in 0 .. Depth : x # y /\ f[x] = f[y]
<1>d. Depth \in Nat /\ Depth > 0
  BY DepthAssumption
<1>1. IsFiniteSet(0 .. Depth) /\ Cardinality(0 .. Depth) = Depth + 1
  BY <1>d, FS_Interval
<1>2. IsFiniteSet(Blocks) /\ Cardinality(Blocks) = Depth
  BY <1>d, FS_Interval DEF Blocks
<1>3. Cardinality(Blocks) < Cardinality(0 .. Depth)
  BY <1>1, <1>2, <1>d
<1> DEFINE S == 0 .. Depth
<1>4. IsFiniteSet(S) /\ Cardinality(Blocks) < Cardinality(S) /\ f \in [S -> Blocks]
  BY <1>1, <1>3
<1> HIDE DEF S
<1>5. \E x, y \in S : x # y /\ f[x] = f[y]
  BY <1>2, <1>4, FS_PigeonHole
<1> QED
  BY <1>5 DEF S

(* A thread about to free a block finds room: a ring full of blocks, or of *)
(* threads about to store one, and this thread's block would be one block  *)
(* more than there are.                                                    *)
LEMMA PutterHasRoom ==
  ASSUME TypeOK, HandsInv, OnceInv, NEW n \in 0 .. Depth, FreeWindow(n),
         NEW t \in Threads, pc[t] = "pclaim"
  PROVE  n < Depth
<1>1. SUFFICES ASSUME n = Depth PROVE FALSE
  BY DepthAssumption
<1>d. Depth \in Nat /\ Depth > 0
  BY DepthAssumption
<1>h. FreeHead \in Positions
  BY Cast DEF TypeOK, FreeHead
<1>2. \A p \in Positions : slots["free"][p] # NULL \/ \E u \in Threads : PutAt(u, "free", p)
  <2>1. \A p \in Positions : Off(FreeHead, p) \in Positions
    BY <1>h, <1>d, AroundRing
  <2>2. \A p \in Positions : Off(FreeHead, p) < n
    BY <1>1, <1>d, <2>1 DEF Positions
  <2> QED
    BY <2>2 DEF FreeWindow
<1> DEFINE who(p) == CHOOSE u \in Threads : PutAt(u, "free", p)
           f == [p \in 0 .. Depth |->
                   IF p = Depth THEN msg[t]
                   ELSE IF slots["free"][p] # NULL THEN slots["free"][p] ELSE msg[who(p)]]
<1>3. \A p \in Positions : slots["free"][p] = NULL =>
        /\ who(p) \in Threads /\ PutAt(who(p), "free", p)
        /\ msg[who(p)] # NULL /\ pc[who(p)] \in {"pwait", "pstore"} /\ pos[who(p)] = p
  BY <1>2 DEF PutAt, HandsInv
<1>4. msg[t] # NULL
  BY DEF HandsInv
<1> HIDE DEF who
<1>5. f \in [0 .. Depth -> Blocks]
  BY <1>3, <1>4, <1>d DEF TypeOK, Positions
<1>6. ASSUME NEW x \in 0 .. Depth, NEW y \in 0 .. Depth, x # y, f[x] = f[y] PROVE FALSE
  <2>s. \A r \in Rings : \A p, s \in Positions :
          slots[r][p] = slots[r][s] /\ slots[r][p] # NULL => p = s
    BY DEF OnceInv
  <2>h. \A u, v \in Threads : msg[u] = msg[v] /\ msg[u] # NULL => u = v
    BY DEF OnceInv
  <2>b. \A u \in Threads, p \in Positions :
          msg[u] = slots["free"][p] /\ msg[u] # NULL => pc[u] = "clear"
    BY DEF OnceInv
  <2>1. ASSUME NEW z \in Positions PROVE f[z] # msg[t]
    <3>1. f[z] = IF slots["free"][z] # NULL THEN slots["free"][z] ELSE msg[who(z)]
      BY <1>d DEF Positions
    <3> QED
      BY <3>1, <2>h, <2>b, <1>3, <1>4
  <2>2. f[Depth] = msg[t]
    BY <1>d
  <2>3. x \in Positions /\ y \in Positions
    <3> HIDE DEF f
    <3>1. x \in Positions \/ x = Depth
      BY <1>d DEF Positions
    <3>2. y \in Positions \/ y = Depth
      BY <1>d DEF Positions
    <3> QED
      BY <1>6, <2>1, <2>2, <3>1, <3>2
  <2>4. /\ f[x] = IF slots["free"][x] # NULL THEN slots["free"][x] ELSE msg[who(x)]
        /\ f[y] = IF slots["free"][y] # NULL THEN slots["free"][y] ELSE msg[who(y)]
    BY <2>3, <1>d DEF Positions
  <2> QED
    BY <1>6, <2>3, <2>4, <2>s, <2>h, <2>b, <1>3, Cast
<1>7. \E x, y \in 0 .. Depth : x # y /\ f[x] = f[y]
  <2> HIDE DEF f
  <2> QED
    BY <1>5, MoreThanBlocks
<1> QED
  BY <1>6, <1>7
(* The free ring: the main thread empties the front of the window, the     *)
(* pool threads claim positions behind it and fill them in any order.      *)
LEMMA FreeStep ==
  ASSUME TypeOK, RoleInv, HandsInv, OnceInv, CoverInv, RoleNext,
         NEW n \in 0 .. Depth, FreeWindow(n)
  PROVE  \E m \in 0 .. Depth : FreeWindow(m)'
<1>1. PICK t \in Threads :
           \/ ClaimTake(t) \/ LoadSlot(t) \/ ClearSlot(t)
           \/ ClaimPut(t) \/ SeeEmpty(t) \/ StoreSlot(t)
           \/ /\ UNCHANGED <<slots, takepos, putpos, pos, msg>>
              /\ \A u \in Threads \ {t} : pc'[u] = pc[u] /\ ring'[u] = ring[u]
              /\ pc[t] \notin {"load", "clear", "pwait", "pstore"}
              /\ pc'[t] \notin {"load", "clear", "pwait", "pstore"}
  BY StepKinds
<1>t. /\ pc \in [Threads -> Steps] /\ ring \in [Threads -> Rings]
      /\ pos \in [Threads -> Positions] /\ takepos \in [Rings -> Positions]
      /\ putpos \in [Rings -> Positions]
      /\ slots \in [Rings -> [Positions -> Blocks \cup {NULL}]]
  BY DEF TypeOK
<1>c. Main \in Threads
  BY Cast
<1>h. FreeHead \in Positions
  BY <1>c, <1>t DEF FreeHead
<1> DEFINE H == FreeHead
<1>2. CASE /\ UNCHANGED <<slots, takepos, putpos, pos, msg>>
           /\ \A u \in Threads \ {t} : pc'[u] = pc[u] /\ ring'[u] = ring[u]
           /\ pc[t] \notin {"load", "clear", "pwait", "pstore"}
           /\ pc'[t] \notin {"load", "clear", "pwait", "pstore"}
  <2>1. \A u \in Threads, p \in Positions : PutAt(u, "free", p)' <=> PutAt(u, "free", p)
    BY <1>2 DEF PutAt
  <2>2. FreeWindow(n)'
    BY <1>2, <1>c, <2>1, FreeKept
  <2> QED
    BY <2>2
<1>3. CASE LoadSlot(t) \/ SeeEmpty(t)
  <2>1. \A u \in Threads, p \in Positions : PutAt(u, "free", p)' <=> PutAt(u, "free", p)
    BY <1>3, <1>t DEF LoadSlot, SeeEmpty, PutAt, Goto
  <2>2. UNCHANGED <<slots, takepos, putpos, pos>>
    BY <1>3 DEF LoadSlot, SeeEmpty, ringVars
  <2>3. pc'[Main] \in {"load", "clear"} <=> pc[Main] \in {"load", "clear"}
    BY <1>3, <1>c, <1>t DEF LoadSlot, SeeEmpty, Goto
  <2>4. FreeWindow(n)'
    BY <2>1, <2>2, <2>3, FreeKept
  <2> QED
    BY <2>4
<1>4. CASE (ClaimPut(t) \/ StoreSlot(t)) /\ t = Main
  <2>1. ring[Main] = "data"
    BY <1>4, <1>c DEF ClaimPut, StoreSlot, RoleInv
  <2>2. \A u \in Threads, p \in Positions : PutAt(u, "free", p)' <=> PutAt(u, "free", p)
    BY <1>4, <1>t, <2>1 DEF ClaimPut, StoreSlot, PutAt, Goto
  <2>3. /\ slots'["free"] = slots["free"] /\ takepos'["free"] = takepos["free"]
        /\ putpos'["free"] = putpos["free"]
    BY <1>4, <1>t, <2>1 DEF ClaimPut, StoreSlot
  <2>4. pc'[Main] \notin {"load", "clear"} /\ pc[Main] \notin {"load", "clear"}
    BY <1>4, <1>c, <1>t DEF ClaimPut, StoreSlot, Goto
  <2>5. FreeWindow(n)'
    BY <2>2, <2>3, <2>4, FreeKept
  <2> QED
    BY <2>5
<1>5. CASE (ClaimTake(t) \/ ClearSlot(t)) /\ t # Main
  <2>1. ring[t] = "data"
    BY <1>5 DEF ClaimTake, ClearSlot, RoleInv
  <2>2. \A u \in Threads, p \in Positions : PutAt(u, "free", p)' <=> PutAt(u, "free", p)
    BY <1>5, <1>t, <2>1 DEF ClaimTake, ClearSlot, PutAt, Goto
  <2>3. /\ slots'["free"] = slots["free"] /\ takepos'["free"] = takepos["free"]
        /\ putpos'["free"] = putpos["free"]
    BY <1>5, <1>t, <2>1 DEF ClaimTake, ClearSlot
  <2>4. pc'[Main] = pc[Main] /\ pos'[Main] = pos[Main]
    BY <1>5, <1>c, <1>t DEF ClaimTake, ClearSlot, Goto
  <2>5. FreeWindow(n)'
    BY <2>2, <2>3, <2>4, FreeKept
  <2> QED
    BY <2>5
<1>6. CASE ClaimTake(t) /\ t = Main
  <2>1. ring[t] = "free" /\ pc[t] = "claim"
    BY <1>6 DEF ClaimTake, RoleInv
  <2>2. n > 0
    BY <1>6, <2>1, TakerFindsBlock
  <2>3. /\ slots' = slots /\ putpos' = putpos /\ takepos'["free"] = Next1(takepos["free"])
        /\ pc'[Main] = "load" /\ pos'[Main] = takepos["free"] /\ pc[Main] = "claim"
    BY <1>6, <1>c, <1>t, <2>1 DEF ClaimTake, Goto
  <2>4. \A u \in Threads, p \in Positions : PutAt(u, "free", p)' <=> PutAt(u, "free", p)
    BY <1>6, <1>t, <2>1 DEF ClaimTake, Goto, PutAt
  <2>5. FreeHead' = FreeHead
    BY <2>3 DEF FreeHead
  <2>6. FreeWindow(n)'
    BY <2>2, <2>3, <2>4, <2>5 DEF FreeWindow
  <2> QED
    BY <2>6
<1>7. CASE ClearSlot(t) /\ t = Main
  <2>1. ring[t] = "free" /\ pc[t] = "clear" /\ H = pos[t] /\ slots["free"][H] # NULL
    BY <1>7 DEF ClearSlot, RoleInv, HandsInv, FreeHead
  <2>2. n > 0 /\ takepos["free"] = Next1(H)
    BY <1>7, <2>1 DEF FreeWindow
  <2>3. /\ takepos' = takepos /\ putpos' = putpos /\ pc'[Main] \notin {"load", "clear"}
    BY <1>7, <1>c, <1>t DEF ClearSlot, Goto
  <2>4. \A p \in Positions : slots'["free"][p] = IF p = H THEN NULL ELSE slots["free"][p]
    BY <1>7, <1>t, <2>1 DEF ClearSlot
  <2>5. \A u \in Threads, p \in Positions : PutAt(u, "free", p)' <=> PutAt(u, "free", p)
    BY <1>7, <1>t, <2>1 DEF ClearSlot, Goto, PutAt
  <2>6. FreeHead' = Next1(H)
    BY <2>2, <2>3 DEF FreeHead
  <2>7. \A p \in Positions : Off(Next1(H), p) < n - 1 <=> Off(H, p) < n /\ p # H
    <3> SUFFICES ASSUME NEW p \in Positions
                 PROVE  Off(Next1(H), p) < n - 1 <=> Off(H, p) < n /\ p # H
      OBVIOUS
    <3>1. /\ p # H => Off(Next1(H), p) = Off(H, p) - 1
          /\ Off(Next1(H), H) = Depth - 1
          /\ Off(H, p) \in Positions
      BY <1>h, AroundRing
    <3> QED
      BY <3>1, DepthAssumption DEF Positions
  <2>8. At(Next1(H), n - 1) = At(H, n)
    BY <1>h, <2>2, AroundRing
  <2>9. n - 1 \in 0 .. Depth
    BY <2>2, DepthAssumption
  <2>10. \A u \in Threads : ~PutAt(u, "free", H)
    BY <2>1, <1>h DEF FreeWindow
  <2> HIDE DEF H
  <2>11. FreeWindow(n) /\ FreeHead = H
    BY DEF H
  <2>12. FreeWindow(n - 1)'
    BY <2>3, <2>4, <2>5, <2>6, <2>7, <2>8, <2>9, <2>10, <2>11 DEF FreeWindow
  <2> QED
    BY <2>9, <2>12
<1>8. CASE ClaimPut(t) /\ t # Main
  <2>1. ring[t] = "free" /\ pc[t] = "pclaim"
    BY <1>8 DEF ClaimPut, RoleInv
  <2>2. n < Depth
    BY <2>1, PutterHasRoom
  <2>3. /\ slots' = slots /\ takepos' = takepos
        /\ putpos'["free"] = Next1(putpos["free"])
        /\ pc'[Main] = pc[Main] /\ pos'[Main] = pos[Main]
    BY <1>8, <1>c, <1>t, <2>1 DEF ClaimPut, Goto
  <2>4. \A u \in Threads, p \in Positions :
          PutAt(u, "free", p)' <=> PutAt(u, "free", p) \/ (u = t /\ p = putpos["free"])
    BY <1>8, <1>t, <2>1 DEF ClaimPut, Goto, PutAt
  <2>5. FreeHead' = FreeHead
    BY <2>3 DEF FreeHead
  <2>6. \A p \in Positions : Off(H, p) < n + 1 <=> Off(H, p) < n \/ p = At(H, n)
    <3> SUFFICES ASSUME NEW p \in Positions
                 PROVE  Off(H, p) < n + 1 <=> Off(H, p) < n \/ p = At(H, n)
      OBVIOUS
    <3>1. Off(H, p) \in Positions /\ (Off(H, p) = n <=> p = At(H, n))
      BY <1>h, <2>2, AroundRing
    <3> QED
      BY <3>1, DepthAssumption DEF Positions
  <2>7. At(H, n + 1) = Next1(At(H, n)) /\ At(H, n) \in Positions /\ ~(Off(H, At(H, n)) < n)
    <3>1. At(H, n) \in Positions /\ At(H, n + 1) = Next1(At(H, n))
      BY <1>h, <2>2, AroundRing
    <3>2. Off(H, At(H, n)) = n
      BY <3>1, <1>h, <2>2, AroundRing
    <3> QED
      BY <3>1, <3>2
  <2>8. n + 1 \in 0 .. Depth
    BY <2>2, DepthAssumption
  <2>9. \A p \in Positions : ~PutAt(t, "free", p)
    BY <2>1 DEF PutAt
  <2> HIDE DEF H
  <2>10. FreeWindow(n) /\ FreeHead = H /\ putpos["free"] = At(H, n)
    BY DEF H, FreeWindow
  <2>11. FreeWindow(n + 1)'
    BY <2>3, <2>4, <2>5, <2>6, <2>7, <2>8, <2>9, <2>10 DEF FreeWindow
  <2> QED
    BY <2>8, <2>11
<1>9. CASE StoreSlot(t) /\ t # Main
  <2>1. ring[t] = "free" /\ pc[t] = "pstore" /\ msg[t] # NULL /\ pos[t] \in Positions
    BY <1>9, <1>t DEF StoreSlot, RoleInv, HandsInv
  <2>2. PutAt(t, "free", pos[t]) /\ \A p \in Positions : PutAt(t, "free", p) => p = pos[t]
    BY <2>1 DEF PutAt
  <2>3. /\ takepos' = takepos /\ putpos' = putpos
        /\ pc'[Main] = pc[Main] /\ pos'[Main] = pos[Main]
    BY <1>9, <1>c, <1>t DEF StoreSlot, Goto
  <2>4. \A p \in Positions :
          slots'["free"][p] = IF p = pos[t] THEN msg[t] ELSE slots["free"][p]
    BY <1>9, <1>t, <2>1 DEF StoreSlot
  <2>5. \A u \in Threads, p \in Positions :
          PutAt(u, "free", p)' <=> PutAt(u, "free", p) /\ u # t
    BY <1>9, <1>t, <2>1 DEF StoreSlot, Goto, PutAt
  <2>6. FreeHead' = FreeHead
    BY <2>3 DEF FreeHead
  <2>7. FreeWindow(n)'
    BY <2>1, <2>2, <2>3, <2>4, <2>5, <2>6 DEF FreeWindow
  <2> QED
    BY <2>7
<1> QED
  BY <1>1, <1>2, <1>3, <1>4, <1>5, <1>6, <1>7, <1>8, <1>9
(* A queue just created: the free ring is full, the data ring empty.       *)
LEMMA RingInit == QueueInit => RingInv
<1> SUFFICES ASSUME QueueInit PROVE RingInv
  OBVIOUS
<1>d. Depth \in Nat /\ Depth > 0 /\ Positions = 0 .. Depth - 1 /\ Blocks = 1 .. Depth
  BY DepthAssumption DEF Positions, Blocks
<1>1. \A t \in Threads : pc[t] = "idle" /\ msg[t] = NULL
  BY DEF QueueInit
<1>2. \A p \in Positions : slots["free"][p] = p + 1 /\ slots["data"][p] = NULL
  BY Cast DEF QueueInit
<1>3. /\ takepos["data"] = 0 /\ putpos["data"] = 0
      /\ takepos["free"] = 0 /\ putpos["free"] = 0
      /\ count["free"] = Depth /\ count["data"] = 0
  BY Cast DEF QueueInit
<1>4. TypeOK
  BY TypeInit
<1>5. RoleInv /\ HandsInv
  BY <1>1 DEF RoleInv, HandsInv
<1>6. OnceInv
  BY <1>1, <1>2, <1>d DEF OnceInv, NULL
<1>7. SomewhereInv
  <2>1. \A b \in Blocks : b - 1 \in Positions /\ slots["free"][b - 1] = b
    BY <1>2, <1>d
  <2> QED
    BY <2>1, Cast DEF SomewhereInv
<1>8. WindowInv
  <2>1. \A t \in Threads, r \in Rings, p \in Positions : ~TakeAt(t, r, p) /\ ~PutAt(t, r, p)
    BY <1>1 DEF TakeAt, PutAt
  <2>2. \A p \in Positions : Off(0, p) = p
    BY <1>d DEF Off
  <2>3. At(0, 0) = 0 /\ At(0, Depth) = 0
    BY <1>d DEF At
  <2>4. pc[Main] = "idle" /\ FreeHead = 0
    BY <1>1, <1>3, Cast DEF FreeHead
  <2>5. DataWindow(0)
    BY <1>2, <1>3, <1>d, <2>1, <2>2, <2>3, <2>4, Cast DEF DataWindow
  <2>6. FreeWindow(Depth)
    BY <1>2, <1>3, <1>d, <2>1, <2>2, <2>3, <2>4, Cast DEF FreeWindow, NULL
  <2> QED
    BY <2>5, <2>6, <1>d DEF WindowInv
<1>9. CountTracksSlots /\ CoverInv
  <2>1. \A r \in Rings : Takers(r) = {} /\ Uncounted(r) = {} /\ Undoers(r) = {}
    BY <1>1 DEF Takers, Uncounted, Undoers, On
  <2>2. Filled("free") = 0 .. Depth - 1 /\ Filled("data") = {}
    BY <1>2, <1>d DEF Filled, NULL
  <2>3. Cardinality({}) = 0 /\ Cardinality(0 .. Depth - 1) = Depth
    BY <1>d, FS_EmptySet, FS_Interval
  <2>4. \A r \in Rings : count[r] = Cardinality(Filled(r)) - Cardinality(Uncounted(r))
                                - Cardinality(Takers(r)) - Cardinality(Undoers(r))
    <3>1. \A r \in Rings : /\ Cardinality(Uncounted(r)) = 0 /\ Cardinality(Takers(r)) = 0
                           /\ Cardinality(Undoers(r)) = 0
      BY <2>1, <2>3
    <3>2. Cardinality(Filled("free")) = Depth /\ Cardinality(Filled("data")) = 0
      BY <2>2, <2>3
    <3> QED
      BY <3>1, <3>2, <1>3, <1>d
  <2>5. CoverInv
    <3>1. \A r \in Rings : Cardinality(Takers(r)) = 0
      BY <2>1, <2>3
    <3>2. \A r \in Rings : Cardinality(Filled(r)) \in Nat
      BY CountedFinite
    <3> QED
      BY <3>1, <3>2 DEF CoverInv, Takers
  <2> QED
    BY <2>4, <2>5, CountIs
<1> QED
  BY <1>4, <1>5, <1>6, <1>7, <1>8, <1>9 DEF RingInv

(* The ring invariant is inductive.                                        *)
LEMMA RingStep == RingInv /\ [RoleNext]_vars => RingInv'
<1>1. ASSUME RingInv, RoleNext PROVE RingInv'
  <2>1. /\ TypeOK /\ RoleInv /\ HandsInv /\ OnceInv /\ SomewhereInv
        /\ WindowInv /\ CountTracksSlots /\ CoverInv
    BY <1>1 DEF RingInv
  <2>2. QueueNext
    BY <1>1, Cast DEF RoleNext, QueueNext
  <2>3. TypeOK'
    BY <2>1, <2>2, TypeStep
  <2>4. RoleInv' /\ HandsInv' /\ OnceInv' /\ SomewhereInv'
    BY <2>1, <1>1, RoleStep, HandsStep, OnceStep, SomewhereStep
  <2>5. CountTracksSlots' /\ CoverInv'
    BY <2>1, <1>1, CountStep
  <2>6. \E m \in 0 .. Depth : DataWindow(m)'
    BY <2>1, <1>1, DataStep DEF WindowInv
  <2>7. \E m \in 0 .. Depth : FreeWindow(m)'
    BY <2>1, <1>1, FreeStep DEF WindowInv
  <2>8. WindowInv'
    BY <2>6, <2>7 DEF WindowInv
  <2> QED
    BY <2>3, <2>4, <2>5, <2>8 DEF RingInv
<1>2. ASSUME RingInv, UNCHANGED vars PROVE RingInv'
  <2>1. /\ slots' = slots /\ count' = count /\ blocked' = blocked /\ sem' = sem
        /\ takepos' = takepos /\ putpos' = putpos /\ pc' = pc /\ ring' = ring
        /\ mode' = mode /\ pos' = pos /\ msg' = msg
    BY <1>2 DEF vars
  <2>2. TypeOK' /\ RoleInv' /\ HandsInv' /\ OnceInv' /\ SomewhereInv'
    BY <1>2, <2>1 DEF RingInv, TypeOK, RoleInv, HandsInv, OnceInv, SomewhereInv
  <2>3. \A n \in 0 .. Depth : (DataWindow(n)' <=> DataWindow(n)) /\ (FreeWindow(n)' <=> FreeWindow(n))
    BY <2>1 DEF DataWindow, FreeWindow, FreeHead, TakeAt, PutAt
  <2>4. WindowInv'
    BY <1>2, <2>3 DEF RingInv, WindowInv
  <2>5. CountTracksSlots' /\ CoverInv'
    BY <1>2, <2>1 DEF RingInv, CountTracksSlots, CoverInv, On, Filled
  <2> QED
    BY <2>2, <2>4, <2>5 DEF RingInv
<1> QED
  BY <1>1, <1>2

(* The threads of the server keep to their roles.                          *)
LEMMA PoolStepIsRoleStep == [PoolNext]_allVars => [RoleNext]_vars
<1> SUFFICES ASSUME [PoolNext]_allVars PROVE [RoleNext]_vars
  OBVIOUS
<1>1. ASSUME NEW t \in Threads, QueueStep(t) PROVE RoleNext
  BY <1>1 DEF RoleNext
<1>2. CASE MainStep
  <2>1. CASE MainTest \/ MainPoll \/ ProcessExit
    BY <2>1 DEF MainTest, MainPoll, ProcessExit
  <2>2. CASE MainAlloc \/ DestroyAlloc
    BY <2>2 DEF MainAlloc, DestroyAlloc, RoleNext
  <2>3. CASE MainWrite \/ DestroyWrite
    BY <2>3 DEF MainWrite, DestroyWrite, RoleNext
  <2>4. CASE InsideCall(Main)
    BY <2>4, <1>1, Cast DEF InsideCall
  <2> QED
    BY <1>2, <2>1, <2>2, <2>3, <2>4 DEF MainStep
<1>3. ASSUME NEW t \in Workers, WorkerStep(t) PROVE [RoleNext]_vars
  <2>1. CASE WorkerStops(t) \/ WorkerReturn(t)
    BY <2>1 DEF WorkerStops, WorkerReturn
  <2>2. CASE WorkerRead(t)
    BY <2>2 DEF WorkerRead, RoleNext
  <2>3. CASE WorkerHandle(t) \/ WorkerExitOp(t)
    BY <2>3 DEF WorkerHandle, WorkerExitOp, RoleNext
  <2>4. CASE InsideCall(t)
    BY <2>4, <1>1, Cast DEF InsideCall
  <2> QED
    BY <1>3, <2>1, <2>2, <2>3, <2>4 DEF WorkerStep
<1>4. CASE StopWorkers
  BY <1>4 DEF StopWorkers
<1>5. CASE UNCHANGED allVars
  BY <1>5 DEF allVars, poolVars, vars
<1> QED
  BY <1>2, <1>3, <1>4, <1>5 DEF PoolNext

(* The ring invariant holds in every reachable state of the server.        *)
LEMMA PoolRings == PoolSpec => []RingInv
<1>1. PoolInit => RingInv
  BY RingInit DEF PoolInit
<1>2. RingInv /\ [PoolNext]_allVars => RingInv'
  BY RingStep, PoolStepIsRoleStep
<1> QED
  BY <1>1, <1>2, PTL DEF PoolSpec

(* For every number of pool threads and every depth, no store of the       *)
(* server's queue overwrites a pointer (queue.c:172 and 187): with several *)
(* threads freeing and one writing, a slot seen empty stays empty.         *)
THEOREM PoolNothingOverwritten == PoolSpec => []NothingOverwritten
<1>1. RingInv => NothingOverwritten
  BY StoresIntoEmpty DEF RingInv
<1> QED
  BY <1>1, PoolRings, PTL

(* For every number of pool threads and every depth, free_blocks and       *)
(* entries are the filled slots less the takers and putters under way.     *)
THEOREM PoolCountTracksSlots == PoolSpec => []CountTracksSlots
<1>1. RingInv => CountTracksSlots
  BY DEF RingInv
<1> QED
  BY <1>1, PoolRings, PTL

(* For every number of pool threads and every depth, each block is in one  *)
(* place: none is leaked, freed twice or handed to two threads.            *)
THEOREM PoolBlocksOwnedOnce == PoolSpec => []BlocksOwnedOnce
<1>1. ASSUME RingInv, NEW b \in Blocks
      PROVE  Cardinality({t \in Threads : msg[t] = b}) +
             Cardinality({s \in Rings \X Positions :
                            slots[s[1]][s[2]] = b /\ ~Emptying(s[1], s[2])}) = 1
  <2> DEFINE A == {t \in Threads : msg[t] = b}
             B == {s \in Rings \X Positions : slots[s[1]][s[2]] = b /\ ~Emptying(s[1], s[2])}
  <2>0. b # NULL
    BY DepthAssumption DEF Blocks, NULL
  <2>1. CASE A # {}
    <3>1. PICK t \in Threads : msg[t] = b
      BY <2>1
    <3>2. A = {t}
      BY <3>1, <2>0, <1>1 DEF RingInv, OnceInv
    <3>3. \A r \in Rings, p \in Positions : slots[r][p] = b => Emptying(r, p)
      BY <3>1, <2>0, <1>1 DEF RingInv, OnceInv, Emptying
    <3>4. B = {}
      BY <3>3
    <3>5. Cardinality({t}) = 1 /\ Cardinality({}) = 0
      BY FS_Singleton, FS_EmptySet
    <3> HIDE DEF A, B
    <3>6. Cardinality(A) = 1 /\ Cardinality(B) = 0
      BY <3>2, <3>4, <3>5
    <3> QED
      BY <3>6 DEF A, B
  <2>2. CASE A = {}
    <3>1. PICK r \in Rings, p \in Positions : slots[r][p] = b
      BY <2>2, <1>1 DEF RingInv, SomewhereInv
    <3>2. ~Emptying(r, p)
      BY <3>1, <2>2, <1>1 DEF RingInv, HandsInv, Emptying
    <3>3. \A q \in Rings, s \in Positions : slots[q][s] = b => q = r /\ s = p
      BY <3>1, <2>0, <1>1 DEF RingInv, OnceInv
    <3>4. B = {<<r, p>>}
      BY <3>1, <3>2, <3>3
    <3>5. Cardinality({<<r, p>>}) = 1 /\ Cardinality({}) = 0
      BY FS_Singleton, FS_EmptySet
    <3> HIDE DEF A, B
    <3>6. Cardinality(A) = 0 /\ Cardinality(B) = 1
      BY <2>2, <3>4, <3>5
    <3> QED
      BY <3>6 DEF A, B
  <2> QED
    BY <2>1, <2>2
<1>2. RingInv => BlocksOwnedOnce
  BY <1>1 DEF BlocksOwnedOnce
<1> QED
  BY <1>2, PoolRings, PTL
-----------------------------------------------------------------------------
(***************************************************************************)
(* The operations.  What is in a block matters from the write of the main  *)
(* thread to the handler of the pool thread that reads it.                 *)
(***************************************************************************)

(* Types of the pool's own variables.                                      *)
OpTypes ==
  /\ loc \in [Threads -> Locs] /\ batch \in Nat
  /\ made \in Nat /\ made <= MaxOps
  /\ op \in [Blocks -> Nat]
  /\ handled \in [Ops -> Nat]

(* The batch in hand fits under the bound, and a pool thread inside a read *)
(* is going to look at the block it gets.                                  *)
LocInv ==
  /\ loc[Main] \in {"batch", "fill"} => batch > 0 /\ made + batch <= MaxOps
  /\ \A t \in Workers :
       pc[t] \in {"dec", "claim", "load", "clear", "undo", "reg", "unreg", "sleep"} =>
         loc[t] = "got"

(* Block b carries an operation: it is in the data ring, the main thread   *)
(* is writing it, or a pool thread has read it and not handled it.         *)
Pending(b) ==
  \/ \E p \in Positions : slots["data"][p] = b
  \/ msg[Main] = b /\ pc[Main] \in {"pclaim", "pwait", "pstore"}
  \/ \E t \in Workers : msg[t] = b /\ loc[t] = "got"

(* An operation that is carried has not been handled, and no two blocks    *)
(* carry the same one.                                                     *)
HandleInv ==
  /\ \A b \in Blocks : Pending(b) /\ op[b] # OP_EXIT => op[b] <= made /\ handled[op[b]] = 0
  /\ \A b, c \in Blocks : Pending(b) /\ Pending(c) /\ op[b] = op[c] /\ op[b] # OP_EXIT => b = c
  /\ \A i \in Ops : handled[i] <= 1 /\ (i > made => handled[i] = 0)

(* Slot p holds a message no reader has claimed; a reader has claimed or   *)
(* holds block b.                                                          *)
Unclaimed(p) == slots["data"][p] # NULL /\ \A t \in Threads : ~TakeAt(t, "data", p)
Claimed(b) ==
  \E t \in Workers : \/ pc[t] = "load" /\ b = slots["data"][pos[t]]
                     \/ msg[t] = b /\ loc[t] = "got"

(* An unclaimed operation is younger than everything handled or claimed    *)
(* and than the unclaimed ones before it; what the main thread is writing  *)
(* is the youngest.                                                        *)
OrderInv ==
  /\ \A p \in Positions : Unclaimed(p) /\ op[slots["data"][p]] # OP_EXIT =>
       /\ \A j \in Ops : handled[j] > 0 => j < op[slots["data"][p]]
       /\ \A b \in Blocks : Claimed(b) => op[b] < op[slots["data"][p]]
       /\ \A q \in Positions :
            Unclaimed(q) /\ Off(takepos["data"], q) < Off(takepos["data"], p) =>
              op[slots["data"][q]] < op[slots["data"][p]]
  /\ pc[Main] \in {"pclaim", "pwait", "pstore"} => op[msg[Main]] \in {OP_EXIT, made}

(* The inductive invariant of the pool.                                    *)
PoolInv == RingInv /\ OpTypes /\ LocInv /\ HandleInv /\ OrderInv

(* The instructions inside a call of the queue.                            *)
LEMMA InsideKinds ==
  ASSUME TypeOK, NEW t \in Threads, QueueStep(t)
  PROVE  \/ ClaimTake(t) \/ LoadSlot(t) \/ ClearSlot(t)
         \/ ClaimPut(t) \/ SeeEmpty(t) \/ StoreSlot(t)
         \/ /\ UNCHANGED <<slots, takepos, putpos, pos, msg, ring>>
            /\ \A u \in Threads \ {t} : pc'[u] = pc[u]
            /\ pc[t] \notin {"load", "clear", "pclaim", "pwait", "pstore"}
            /\ pc'[t] \notin {"load", "clear", "pclaim", "pwait", "pstore"}
<1> USE DEF TypeOK, Goto, ringVars
<1>1. ASSUME \/ DecCount(t) \/ UndoCount(t) \/ Register(t) \/ Unregister(t) \/ SemWait(t)
             \/ IncCount(t) \/ CheckBlocked(t) \/ DecBlocked(t) \/ SemPost(t)
      PROVE  /\ UNCHANGED <<slots, takepos, putpos, pos, msg, ring>>
             /\ \A u \in Threads \ {t} : pc'[u] = pc[u]
             /\ pc[t] \notin {"load", "clear", "pclaim", "pwait", "pstore"}
             /\ pc'[t] \notin {"load", "clear", "pclaim", "pwait", "pstore"}
  BY <1>1 DEF DecCount, UndoCount, Register, Unregister, SemWait, IncCount,
     CheckBlocked, DecBlocked, SemPost
<1> QED
  BY <1>1 DEF QueueStep

(* Inside a call no block becomes a carrier of an operation.               *)
LEMMA InsidePending ==
  ASSUME PoolInv, NEW t \in Threads, InsideCall(t), NEW b \in Blocks, Pending(b)'
  PROVE  Pending(b)
<1> USE DEF Goto
<1>t. /\ TypeOK /\ RoleInv /\ HandsInv /\ loc' = loc /\ QueueStep(t)
      /\ Main \in Threads /\ Workers \subseteq Threads /\ Main \notin Workers
      /\ b # NULL
  BY Cast, PoolAssumption, DepthAssumption
  DEF PoolInv, RingInv, InsideCall, poolVars, NULL, Blocks
<1>1. CASE /\ UNCHANGED <<slots, takepos, putpos, pos, msg, ring>>
           /\ \A u \in Threads \ {t} : pc'[u] = pc[u]
           /\ pc[t] \notin {"load", "clear", "pclaim", "pwait", "pstore"}
           /\ pc'[t] \notin {"load", "clear", "pclaim", "pwait", "pstore"}
  BY <1>1, <1>t DEF Pending
<1>2. CASE ClaimTake(t) \/ ClaimPut(t) \/ SeeEmpty(t)
  BY <1>2, <1>t DEF ClaimTake, ClaimPut, SeeEmpty, ringVars, Pending, TypeOK
<1>3. CASE LoadSlot(t)
  <2>1. /\ slots' = slots /\ pos[t] \in Positions /\ pc'[t] = "clear"
        /\ \A u \in Threads \ {t} : msg'[u] = msg[u] /\ pc'[u] = pc[u]
        /\ msg'[t] = slots[ring[t]][pos[t]]
    BY <1>3, <1>t DEF LoadSlot, ringVars, TypeOK
  <2>2. t \in Workers => ring[t] = "data"
    BY <1>3, <1>t DEF LoadSlot, RoleInv
  <2> QED
    BY <1>t, <2>1, <2>2, Cast DEF Pending
<1>4. CASE ClearSlot(t)
  <2>1. /\ msg' = msg /\ pc'[t] \notin {"pclaim", "pwait", "pstore"}
        /\ \A u \in Threads \ {t} : pc'[u] = pc[u]
        /\ \A p \in Positions : slots'["data"][p] \in {NULL, slots["data"][p]}
    BY <1>4, <1>t DEF ClearSlot, TypeOK
  <2> QED
    BY <1>t, <2>1 DEF Pending
<1>5. CASE StoreSlot(t)
  <2>1. /\ \A u \in Threads \ {t} : pc'[u] = pc[u] /\ msg'[u] = msg[u]
        /\ msg'[t] = NULL /\ pc[t] = "pstore" /\ pc'[t] = "pcount"
        /\ \A p \in Positions :
             slots'["data"][p] = IF ring[t] = "data" /\ p = pos[t] THEN msg[t] ELSE slots["data"][p]
    BY <1>5, <1>t DEF StoreSlot, TypeOK
  <2>2. ring[t] = "data" => t = Main
    BY <2>1, <1>t DEF RoleInv
  <2> QED
    BY <1>t, <2>1, <2>2 DEF Pending
<1> QED
  BY <1>t, <1>1, <1>2, <1>3, <1>4, <1>5, InsideKinds

(* Inside a call nothing about the operations changes.                     *)
LEMMA InsideHandle ==
  ASSUME PoolInv, NEW t \in Threads, InsideCall(t)
  PROVE  OpTypes' /\ LocInv' /\ HandleInv'
<1>1. UNCHANGED <<loc, batch, made, op, handled>>
  BY DEF InsideCall, poolVars
<1>2. OpTypes'
  BY <1>1 DEF PoolInv, OpTypes
<1>3. LocInv'
  <2>1. TypeOK /\ LocInv /\ QueueStep(t)
    BY DEF PoolInv, RingInv, InsideCall
  <2>2. /\ \A u \in Threads \ {t} : pc'[u] = pc[u]
        /\ pc'[t] \in {"dec", "claim", "load", "clear", "undo", "reg", "unreg", "sleep"} =>
             pc[t] \in {"dec", "claim", "load", "clear", "undo", "reg", "unreg", "sleep"}
    BY <2>1 DEF TypeOK, Goto, QueueStep, DecCount, ClaimTake, LoadSlot, ClearSlot, UndoCount,
       Register, Unregister, SemWait, ClaimPut, SeeEmpty, StoreSlot, IncCount,
       CheckBlocked, DecBlocked, SemPost
  <2> QED
    BY <1>1, <2>1, <2>2, Cast DEF LocInv
<1>4. HandleInv'
  BY <1>1, InsidePending DEF PoolInv, HandleInv
<1> QED
  BY <1>2, <1>3, <1>4
(* A step that claims nothing, stores nothing in the data ring and frees   *)
(* no position of it keeps the order.                                      *)
LEMMA OrderKept ==
  ASSUME OrderInv, UNCHANGED <<op, handled, made>>, takepos'["data"] = takepos["data"],
         \A p \in Positions : Unclaimed(p)' =>
           Unclaimed(p) /\ slots'["data"][p] = slots["data"][p],
         \A b \in Blocks : Claimed(b)' => Claimed(b),
         pc'[Main] \in {"pclaim", "pwait", "pstore"} =>
           pc[Main] \in {"pclaim", "pwait", "pstore"} /\ msg'[Main] = msg[Main]
  PROVE  OrderInv'
BY DEF OrderInv

(* Inside a call a reader claims the oldest message and the main thread    *)
(* stores the youngest.                                                    *)
LEMMA InsideOrder ==
  ASSUME PoolInv, NEW t \in Threads, InsideCall(t)
  PROVE  OrderInv'
<1> USE DEF Goto
<1>t. /\ TypeOK /\ RoleInv /\ HandsInv /\ OnceInv /\ CoverInv /\ OpTypes /\ LocInv /\ HandleInv
      /\ OrderInv /\ QueueStep(t)
      /\ UNCHANGED <<loc, batch, made, op, handled>>
      /\ Main \in Threads /\ Workers \subseteq Threads /\ Main \notin Workers
      /\ Threads \ {Main} = Workers
  BY Cast, PoolAssumption DEF PoolInv, RingInv, InsideCall, poolVars
<1>v. /\ pc \in [Threads -> Steps] /\ ring \in [Threads -> Rings]
      /\ pos \in [Threads -> Positions] /\ takepos \in [Rings -> Positions]
      /\ slots \in [Rings -> [Positions -> Blocks \cup {NULL}]]
      /\ msg \in [Threads -> Blocks \cup {NULL}]
      /\ takepos["data"] \in Positions
      /\ NULL \notin Blocks
  BY <1>t, DepthAssumption DEF TypeOK, NULL, Blocks
<1>w. PICK n \in 0 .. Depth : DataWindow(n)
  BY DEF PoolInv, RingInv, WindowInv
<1> DEFINE T == takepos["data"]
<1>1. CASE /\ UNCHANGED <<slots, takepos, putpos, pos, msg, ring>>
           /\ \A u \in Threads \ {t} : pc'[u] = pc[u]
           /\ pc[t] \notin {"load", "clear", "pclaim", "pwait", "pstore"}
           /\ pc'[t] \notin {"load", "clear", "pclaim", "pwait", "pstore"}
  <2>1. \A u \in Threads, p \in Positions : TakeAt(u, "data", p)' <=> TakeAt(u, "data", p)
    BY <1>1 DEF TakeAt
  <2>2. \A p \in Positions : Unclaimed(p)' <=> Unclaimed(p)
    BY <1>1, <2>1 DEF Unclaimed
  <2>3. \A b \in Blocks : Claimed(b)' => Claimed(b)
    BY <1>1, <1>t DEF Claimed
  <2> QED
    BY <1>1, <1>t, <2>2, <2>3, OrderKept
<1>2. CASE ClaimPut(t) \/ SeeEmpty(t) \/ (ClaimTake(t) /\ t = Main)
  <2>1. /\ slots' = slots /\ takepos'["data"] = takepos["data"] /\ msg' = msg /\ ring' = ring
        /\ \A u \in Threads \ {t} : pc'[u] = pc[u] /\ pos'[u] = pos[u]
        /\ pc'[t] # "load" \/ (t = Main /\ ring[t] = "free")
        /\ pc[t] \notin {"load", "clear"} /\ pc'[t] # "clear"
        /\ pc'[t] \in {"pclaim", "pwait", "pstore"} => pc[t] \in {"pclaim", "pwait", "pstore"}
    BY <1>2, <1>t, <1>v DEF ClaimPut, SeeEmpty, ClaimTake, ringVars, RoleInv
  <2>2. \A u \in Threads, p \in Positions : TakeAt(u, "data", p)' <=> TakeAt(u, "data", p)
    BY <2>1 DEF TakeAt
  <2>3. \A p \in Positions : Unclaimed(p)' <=> Unclaimed(p)
    BY <2>1, <2>2 DEF Unclaimed
  <2>4. \A b \in Blocks : Claimed(b)' => Claimed(b)
    BY <2>1, <1>t DEF Claimed
  <2> QED
    BY <2>1, <1>t, <2>3, <2>4, OrderKept
<1>3. CASE LoadSlot(t)
  <2>1. /\ slots' = slots /\ takepos' = takepos /\ ring' = ring /\ pos' = pos
        /\ pc[t] = "load" /\ pc'[t] = "clear" /\ msg'[t] = slots[ring[t]][pos[t]]
        /\ \A u \in Threads \ {t} : pc'[u] = pc[u] /\ msg'[u] = msg[u]
        /\ t \in Workers => ring[t] = "data"
    BY <1>3, <1>t, <1>v DEF LoadSlot, ringVars, RoleInv
  <2>2. \A u \in Threads, p \in Positions : TakeAt(u, "data", p)' <=> TakeAt(u, "data", p)
    BY <2>1 DEF TakeAt
  <2>3. \A p \in Positions : Unclaimed(p)' <=> Unclaimed(p)
    BY <2>1, <2>2 DEF Unclaimed
  <2>4. \A b \in Blocks : Claimed(b)' => Claimed(b)
    BY <2>1, <1>t DEF Claimed
  <2> QED
    BY <2>1, <1>t, <2>3, <2>4, OrderKept
<1>4. CASE ClearSlot(t)
  <2>1. /\ takepos' = takepos /\ ring' = ring /\ msg' = msg
        /\ pc[t] = "clear" /\ pc'[t] \in {"unreg", "idle"} /\ pos[t] \in Positions
        /\ \A u \in Threads \ {t} : pc'[u] = pc[u] /\ pos'[u] = pos[u]
        /\ \A p \in Positions :
             slots'["data"][p] = IF ring[t] = "data" /\ p = pos[t] THEN NULL ELSE slots["data"][p]
    BY <1>4, <1>t, <1>v DEF ClearSlot
  <2>2. \A u \in Threads, p \in Positions :
          TakeAt(u, "data", p)' <=> TakeAt(u, "data", p) /\ u # t
    BY <2>1 DEF TakeAt
  <2>3. \A p \in Positions : TakeAt(t, "data", p) <=> ring[t] = "data" /\ p = pos[t]
    BY <2>1 DEF TakeAt
  <2>4. \A p \in Positions :
          Unclaimed(p)' => Unclaimed(p) /\ slots'["data"][p] = slots["data"][p]
    BY <2>1, <2>2, <2>3 DEF Unclaimed
  <2>5. \A u \in Workers : pc[u] = "load" => ring[u] = "data" /\ pos[u] \in Positions
    BY <1>t, <1>v DEF RoleInv
  <2>6. \A b \in Blocks : Claimed(b)' => Claimed(b)
    BY <2>1, <2>5, <1>t, <1>v DEF Claimed
  <2> QED
    BY <2>1, <1>t, <2>4, <2>6, OrderKept
<1>5. CASE StoreSlot(t) /\ t # Main
  <2>1. /\ takepos' = takepos /\ ring' = ring /\ ring[t] = "free"
        /\ pc[t] = "pstore" /\ pc'[t] = "pcount" /\ msg'[t] = NULL
        /\ \A u \in Threads \ {t} : pc'[u] = pc[u] /\ pos'[u] = pos[u] /\ msg'[u] = msg[u]
        /\ slots'["data"] = slots["data"]
    BY <1>5, <1>t, <1>v DEF StoreSlot, RoleInv
  <2>2. \A u \in Threads, p \in Positions : TakeAt(u, "data", p)' <=> TakeAt(u, "data", p)
    BY <2>1 DEF TakeAt
  <2>3. \A p \in Positions : Unclaimed(p)' <=> Unclaimed(p)
    BY <2>1, <2>2 DEF Unclaimed
  <2>4. \A b \in Blocks : Claimed(b)' => Claimed(b)
    BY <2>1, <1>t, <1>v DEF Claimed
  <2> QED
    BY <1>5, <2>1, <1>t, <2>3, <2>4, OrderKept
<1>6. CASE ClaimTake(t) /\ t # Main
  <2>1. /\ slots' = slots /\ msg' = msg /\ ring' = ring /\ ring[t] = "data"
        /\ takepos'["data"] = Next1(T) /\ pos'[t] = T
        /\ pc[t] = "claim" /\ pc'[t] = "load"
        /\ \A u \in Threads \ {t} : pc'[u] = pc[u] /\ pos'[u] = pos[u]
    BY <1>6, <1>t, <1>v DEF ClaimTake, RoleInv
  <2>2. n > 0
    BY <1>t, <1>w, <2>1, ReaderFindsMessage
  <2>3. \A u \in Threads, p \in Positions :
          TakeAt(u, "data", p)' <=> TakeAt(u, "data", p) \/ (u = t /\ p = T)
    BY <2>1 DEF TakeAt
  <2>4. \A p \in Positions : Unclaimed(p)' <=> Unclaimed(p) /\ p # T
    BY <2>1, <2>3, <1>v DEF Unclaimed
  <2>5. \A p \in Positions : Off(T, p) \in Positions /\ (Off(T, p) = 0 <=> p = T)
    BY <1>v, AroundRing, DepthAssumption
  <2>6. \A p \in Positions : p # T => Off(Next1(T), p) = Off(T, p) - 1
    BY <1>v, AroundRing, DepthAssumption
  <2>7. Unclaimed(T)
    <3>1. Off(T, T) < n
      BY <2>2, <2>5, <1>v
    <3> QED
      BY <3>1, <1>v, <1>w DEF DataWindow, Unclaimed
  <2>8. \A b \in Blocks : Claimed(b)' => Claimed(b) \/ b = slots["data"][T]
    BY <2>1, <1>t DEF Claimed
  <2>9. pc'[Main] = pc[Main]
    BY <1>6, <1>t, <2>1
  <2>10. ASSUME NEW p \in Positions, Unclaimed(p)', op[slots["data"][p]] # OP_EXIT
         PROVE  /\ \A j \in Ops : handled[j] > 0 => j < op[slots["data"][p]]
                /\ \A b \in Blocks : Claimed(b)' => op[b] < op[slots["data"][p]]
                /\ \A q \in Positions :
                     Unclaimed(q)' /\ Off(Next1(T), q) < Off(Next1(T), p) =>
                       op[slots["data"][q]] < op[slots["data"][p]]
    <3>1. Unclaimed(p) /\ p # T
      BY <2>4, <2>10
    <3>2. /\ \A j \in Ops : handled[j] > 0 => j < op[slots["data"][p]]
          /\ \A b \in Blocks : Claimed(b) => op[b] < op[slots["data"][p]]
          /\ \A q \in Positions :
               Unclaimed(q) /\ Off(T, q) < Off(T, p) =>
                 op[slots["data"][q]] < op[slots["data"][p]]
      BY <3>1, <2>10, <1>t DEF OrderInv
    <3>3. Off(T, T) < Off(T, p)
      BY <3>1, <2>5, <1>v, DepthAssumption DEF Positions
    <3>4. op[slots["data"][T]] < op[slots["data"][p]]
      BY <3>2, <3>3, <2>7, <1>v
    <3>5. \A q \in Positions : q # T /\ Off(Next1(T), q) < Off(Next1(T), p) => Off(T, q) < Off(T, p)
      BY <3>1, <2>5, <2>6, DepthAssumption DEF Positions
    <3> QED
      BY <3>2, <3>4, <3>5, <2>4, <2>8
  <2> QED
    BY <2>10, <2>1, <2>9, <1>t DEF OrderInv
<1>7. CASE StoreSlot(t) /\ t = Main
  <2> DEFINE P == pos[Main]
             B == msg[Main]
  <2>1. /\ takepos' = takepos /\ ring' = ring /\ ring[t] = "data" /\ P \in Positions
        /\ pc[Main] = "pstore" /\ pc'[Main] = "pcount"
        /\ \A u \in Threads \ {t} : pc'[u] = pc[u] /\ pos'[u] = pos[u] /\ msg'[u] = msg[u]
        /\ \A p \in Positions : slots'["data"][p] = IF p = P THEN B ELSE slots["data"][p]
    BY <1>7, <1>t, <1>v DEF StoreSlot, RoleInv
  <2>2. /\ B \in Blocks /\ slots["data"][P] = NULL
        /\ P = At(T, n)
        /\ op[B] \in {OP_EXIT, made}
        /\ Pending(B)
    BY <2>1, <1>t, <1>v, <1>w DEF HandsInv, DataWindow, OrderInv, Pending
  <2>3. \A u \in Threads, p \in Positions : TakeAt(u, "data", p)' <=> TakeAt(u, "data", p)
    BY <2>1, <1>7 DEF TakeAt
  <2>4. \A u \in Threads : ~TakeAt(u, "data", P)
    BY <2>1, <2>2, <1>w DEF DataWindow
  <2>5. \A p \in Positions : Unclaimed(p)' <=> Unclaimed(p) \/ p = P
    BY <2>1, <2>2, <2>3, <2>4, <1>v DEF Unclaimed
  <2>6. ~Unclaimed(P)
    BY <2>2 DEF Unclaimed
  <2>7. \A p \in Positions : Unclaimed(p) => Off(T, p) < n
    BY <1>w DEF DataWindow, Unclaimed
  <2>8. Off(T, P) = n
    <3>1. ~(Off(T, P) < n)
      BY <2>1, <2>2, <1>w DEF DataWindow
    <3>2. n # Depth
      <4>1. Off(T, P) \in Positions
        BY <2>1, <1>v, AroundRing, DepthAssumption
      <4> QED
        BY <4>1, <3>1, DepthAssumption DEF Positions
    <3> QED
      BY <3>2, <2>1, <2>2, <1>v, <1>w, AroundRing
  <2>9. \A p \in Positions : Off(T, p) \in Int
    BY <1>v, AroundRing, DepthAssumption DEF Positions
  <2>10. \A b \in Blocks : Claimed(b)' => Claimed(b) /\ b # B
    <3>1. ASSUME NEW b \in Blocks, NEW u \in Workers, pc'[u] = "load", b = slots'["data"][pos'[u]]
          PROVE  pc[u] = "load" /\ b = slots["data"][pos[u]] /\ b # B
      <4>1. u \in Threads \ {t} /\ pc[u] = "load" /\ pos'[u] = pos[u] /\ pos[u] \in Positions
            /\ ring[u] = "data"
        BY <3>1, <2>1, <1>7, <1>t, <1>v DEF RoleInv
      <4>2. TakeAt(u, "data", pos[u])
        BY <4>1 DEF TakeAt
      <4>3. pos[u] # P
        BY <4>1, <4>2, <2>4
      <4>4. b = slots["data"][pos[u]]
        BY <3>1, <4>1, <4>3, <2>1
      <4>5. b # B
        BY <4>1, <4>4, <2>1, <2>2, <1>t, <1>v DEF OnceInv
      <4> QED
        BY <4>1, <4>4, <4>5
    <3>2. ASSUME NEW b \in Blocks, NEW u \in Workers, msg'[u] = b, loc[u] = "got"
          PROVE  msg[u] = b /\ b # B
      BY <3>2, <2>1, <2>2, <1>7, <1>t, <1>v DEF OnceInv
    <3> QED
      BY <3>1, <3>2, <1>t DEF Claimed
  <2>11. \A b \in Blocks : Claimed(b) => Pending(b)
    BY <1>t, <1>v DEF Claimed, Pending
  <2>12. \A p \in Positions : Unclaimed(p) =>
           slots["data"][p] \in Blocks /\ Pending(slots["data"][p]) /\ slots["data"][p] # B
    <3>1. ASSUME NEW p \in Positions, Unclaimed(p)
          PROVE  slots["data"][p] \in Blocks /\ Pending(slots["data"][p]) /\ slots["data"][p] # B
      <4>1. slots["data"][p] \in Blocks
        BY <3>1, <1>v DEF Unclaimed
      <4>2. Pending(slots["data"][p])
        BY <3>1 DEF Pending
      <4>3. slots["data"][p] # B
        BY <2>1, <2>2, <4>1, <1>t, <1>v DEF OnceInv
      <4> QED
        BY <4>1, <4>2, <4>3
    <3> QED
      BY <3>1
  <2>13. \A b \in Blocks : Pending(b) /\ b # B /\ op[B] # OP_EXIT => op[b] < op[B]
    <3>1. \A b \in Blocks : op[b] \in Nat
      BY <1>t DEF OpTypes
    <3>2. made \in Nat /\ OP_EXIT = 0
      BY <1>t DEF OpTypes, OP_EXIT
    <3>3. \A b \in Blocks : Pending(b) /\ op[b] # OP_EXIT => op[b] <= made
      BY <1>t DEF HandleInv
    <3>4. \A b \in Blocks : Pending(b) /\ op[b] = op[B] /\ op[B] # OP_EXIT => b = B
      BY <1>t, <2>2 DEF HandleInv
    <3> QED
      BY <3>1, <3>2, <3>3, <3>4, <2>2
  <2>14. \A j \in Ops : handled[j] > 0 /\ op[B] # OP_EXIT => j < op[B]
    <3>1. made \in Nat /\ handled \in [Ops -> Nat] /\ op[B] \in Nat /\ Ops \subseteq Nat
      BY <1>t, <2>2 DEF OpTypes, Ops
    <3>2. \A j \in Ops : j > made => handled[j] = 0
      BY <1>t DEF HandleInv
    <3>3. op[B] # OP_EXIT => handled[op[B]] = 0 /\ op[B] = made
      BY <1>t, <2>2 DEF HandleInv
    <3> QED
      BY <3>1, <3>2, <3>3
  <2>15. ASSUME NEW p \in Positions, Unclaimed(p)', op[slots'["data"][p]] # OP_EXIT
         PROVE  /\ \A j \in Ops : handled[j] > 0 => j < op[slots'["data"][p]]
                /\ \A b \in Blocks : Claimed(b)' => op[b] < op[slots'["data"][p]]
                /\ \A q \in Positions :
                     Unclaimed(q)' /\ Off(T, q) < Off(T, p) =>
                       op[slots'["data"][q]] < op[slots'["data"][p]]
    <3>1. CASE p = P
      <4>1. slots'["data"][p] = B
        BY <3>1, <2>1
      <4>2. \A q \in Positions :
              Unclaimed(q)' /\ Off(T, q) < Off(T, p) =>
                Unclaimed(q) /\ slots'["data"][q] = slots["data"][q]
        BY <3>1, <2>1, <2>5, <2>9
      <4> QED
        BY <4>1, <4>2, <2>10, <2>11, <2>12, <2>13, <2>14, <2>15
    <3>2. CASE p # P
      <4>1. Unclaimed(p) /\ slots'["data"][p] = slots["data"][p]
        BY <3>2, <2>1, <2>5, <2>15
      <4>2. \A q \in Positions :
              Unclaimed(q)' /\ Off(T, q) < Off(T, p) =>
                Unclaimed(q) /\ slots'["data"][q] = slots["data"][q]
        BY <4>1, <2>1, <2>5, <2>7, <2>8, <2>9, <1>w
      <4> QED
        BY <4>1, <4>2, <2>10, <2>15, <1>t DEF OrderInv
    <3> QED
      BY <3>1, <3>2
  <2> QED
    BY <2>15, <2>1, <1>t DEF OrderInv
<1> QED
  BY <1>t, <1>1, <1>2, <1>3, <1>4, <1>5, <1>6, <1>7, InsideKinds
(* A step between two calls that neither fills a block nor handles one     *)
(* keeps what is carried and its order.                                    *)
LEMMA OutsideKept ==
  ASSUME PoolInv, UNCHANGED <<slots, takepos, pos, msg, op, handled, made>>,
         \A u \in Threads : \/ pc'[u] = pc[u] /\ ring'[u] = ring[u]
                            \/ pc[u] = "idle" /\ pc'[u] \in {"dec", "pclaim"},
         pc'[Main] # "pclaim" \/ pc'[Main] = pc[Main],
         \A u \in Workers : loc'[u] = "got" => loc[u] = "got" \/ msg[u] = NULL
  PROVE  HandleInv' /\ OrderInv'
<1>t. /\ HandleInv /\ OrderInv /\ NULL \notin Blocks
      /\ Main \in Threads /\ Workers \subseteq Threads
  BY Cast, DepthAssumption DEF PoolInv, NULL, Blocks
<1>1. pc'[Main] \in {"pclaim", "pwait", "pstore"} => pc[Main] \in {"pclaim", "pwait", "pstore"}
  BY <1>t
<1>2. \A b \in Blocks : Pending(b)' => Pending(b)
  BY <1>t, <1>1 DEF Pending
<1>3. \A u \in Threads, p \in Positions : TakeAt(u, "data", p)' <=> TakeAt(u, "data", p)
  BY DEF TakeAt
<1>4. \A p \in Positions : Unclaimed(p)' <=> Unclaimed(p)
  BY <1>3 DEF Unclaimed
<1>5. \A b \in Blocks : Claimed(b)' => Claimed(b)
  BY <1>t DEF Claimed
<1>6. HandleInv'
  BY <1>t, <1>2 DEF HandleInv
<1>7. OrderInv'
  BY <1>t, <1>1, <1>4, <1>5, OrderKept
<1> QED
  BY <1>6, <1>7

(* The tests, the polls, the exits and the entries of the taking calls.    *)
LEMMA OutsideQuiet ==
  ASSUME PoolInv,
         \/ MainTest \/ MainPoll \/ MainAlloc \/ DestroyAlloc \/ ProcessExit \/ StopWorkers
         \/ \E t \in Workers :
              WorkerRead(t) \/ WorkerStops(t) \/ WorkerExitOp(t) \/ WorkerReturn(t)
  PROVE  OpTypes' /\ LocInv' /\ HandleInv' /\ OrderInv'
<1>t. /\ TypeOK /\ OpTypes /\ LocInv
      /\ Main \in Threads /\ Workers \subseteq Threads /\ Main \notin Workers
      /\ pc \in [Threads -> Steps] /\ ring \in [Threads -> Rings] /\ loc \in [Threads -> Locs]
      /\ made \in Nat /\ MaxOps \in Nat /\ MaxBatch \in Nat
  BY Cast, PoolAssumption DEF PoolInv, RingInv, TypeOK, OpTypes
<1> USE DEF Move, Goto, Locs
<1>1. CASE MainTest \/ MainPoll \/ ProcessExit \/ StopWorkers
  <2>1. /\ UNCHANGED vars /\ UNCHANGED <<op, handled, made>>
        /\ batch' \in Nat /\ loc' \in [Threads -> Locs]
        /\ \A u \in Workers : loc'[u] = loc[u]
        /\ loc'[Main] \in {"batch", "fill"} => batch' > 0 /\ made + batch' <= MaxOps
    <3>1. CASE MainTest \/ ProcessExit \/ StopWorkers
      BY <3>1, <1>t DEF MainTest, ProcessExit, StopWorkers, LocInv, OpTypes
    <3>2. CASE MainPoll
      <4>1. PICK k \in 0 .. MaxBatch :
              /\ made + k <= MaxOps /\ batch' = k
              /\ loc' = [loc EXCEPT ![Main] = IF k = 0 THEN "test" ELSE "batch"]
        BY <3>2 DEF MainPoll
      <4> QED
        BY <3>2, <4>1, <1>t DEF MainPoll
    <3> QED
      BY <1>1, <3>1, <3>2
  <2>2. OpTypes' /\ LocInv'
    BY <1>t, <2>1 DEF OpTypes, LocInv, vars
  <2>3. HandleInv' /\ OrderInv'
    BY <1>t, <2>1, OutsideKept DEF vars
  <2> QED
    BY <2>2, <2>3
<1>2. CASE MainAlloc \/ DestroyAlloc
  <2>1. /\ UNCHANGED <<slots, takepos, pos, msg, op, handled, made, batch>>
        /\ pc' = [pc EXCEPT ![Main] = "dec"] /\ pc[Main] = "idle"
        /\ ring' = [ring EXCEPT ![Main] = "free"]
        /\ loc[Main] \in {"batch", "destroy"}
        /\ loc' = [loc EXCEPT ![Main] = IF loc[Main] = "batch" THEN "fill" ELSE "fillexit"]
    BY <1>2 DEF MainAlloc, DestroyAlloc, CallTake, ringVars
  <2>2. OpTypes' /\ LocInv'
    BY <1>t, <2>1 DEF OpTypes, LocInv
  <2>3. HandleInv' /\ OrderInv'
    BY <1>t, <2>1, OutsideKept
  <2> QED
    BY <2>2, <2>3
<1>3. ASSUME NEW t \in Workers, WorkerRead(t) \/ WorkerExitOp(t)
      PROVE  OpTypes' /\ LocInv' /\ HandleInv' /\ OrderInv'
  <2>1. /\ UNCHANGED <<slots, takepos, pos, msg, op, handled, made, batch>>
        /\ pc[t] = "idle"
        /\ \/ /\ pc' = [pc EXCEPT ![t] = "dec"] /\ loc' = [loc EXCEPT ![t] = "got"]
              /\ msg[t] = NULL
           \/ pc' = [pc EXCEPT ![t] = "pclaim"] /\ loc' = [loc EXCEPT ![t] = "leave"]
        /\ \A u \in Threads \ {t} : ring'[u] = ring[u]
    BY <1>3, <1>t DEF WorkerRead, WorkerExitOp, CallTake, CallPut, ringVars
  <2>2. OpTypes' /\ LocInv'
    BY <1>t, <2>1 DEF OpTypes, LocInv
  <2>3. HandleInv' /\ OrderInv'
    BY <1>t, <2>1, OutsideKept
  <2> QED
    BY <2>2, <2>3
<1>4. ASSUME NEW t \in Workers, WorkerStops(t) \/ WorkerReturn(t)
      PROVE  OpTypes' /\ LocInv' /\ HandleInv' /\ OrderInv'
  <2>1. /\ UNCHANGED vars /\ UNCHANGED <<op, handled, made, batch>>
        /\ pc[t] = "idle" /\ loc' = [loc EXCEPT ![t] = "gone"]
    BY <1>4 DEF WorkerStops, WorkerReturn, Returned
  <2>2. OpTypes' /\ LocInv'
    BY <1>t, <2>1 DEF OpTypes, LocInv, vars
  <2>3. HandleInv' /\ OrderInv'
    BY <1>t, <2>1, OutsideKept DEF vars
  <2> QED
    BY <2>2, <2>3
<1> QED
  BY <1>1, <1>2, <1>3, <1>4

(* The main thread fills a block nobody else has and starts to write it:   *)
(* with a new number, or with OP_EXIT.                                     *)
LEMMA OutsideWrite ==
  ASSUME PoolInv, MainWrite \/ DestroyWrite
  PROVE  OpTypes' /\ LocInv' /\ HandleInv' /\ OrderInv'
<1> DEFINE B == msg[Main]
<1>t. /\ TypeOK /\ OpTypes /\ LocInv /\ HandleInv /\ OrderInv /\ OnceInv /\ RoleInv
      /\ Main \in Threads /\ Workers \subseteq Threads /\ Main \notin Workers
      /\ pc \in [Threads -> Steps] /\ ring \in [Threads -> Rings] /\ loc \in [Threads -> Locs]
      /\ slots \in [Rings -> [Positions -> Blocks \cup {NULL}]]
      /\ pos \in [Threads -> Positions] /\ msg \in [Threads -> Blocks \cup {NULL}]
      /\ made \in Nat /\ MaxOps \in Nat /\ batch \in Nat
      /\ op \in [Blocks -> Nat] /\ handled \in [Ops -> Nat]
      /\ NULL \notin Blocks /\ OP_EXIT = 0
  <2>1. NULL \notin Blocks /\ OP_EXIT = 0
    BY DepthAssumption DEF NULL, Blocks, OP_EXIT
  <2> QED
    BY <2>1, Cast, PoolAssumption DEF PoolInv, RingInv, TypeOK, OpTypes
<1>1. /\ UNCHANGED <<slots, takepos, pos, msg, handled>>
      /\ pc' = [pc EXCEPT ![Main] = "pclaim"] /\ pc[Main] = "idle" /\ B \in Blocks
      /\ ring' = [ring EXCEPT ![Main] = "data"]
  BY <1>t DEF MainWrite, DestroyWrite, CallPut, ringVars, Goto
<1>2. \/ /\ loc[Main] = "fill" /\ op' = [op EXCEPT ![B] = made + 1] /\ made' = made + 1
         /\ batch' = batch - 1
         /\ loc' = [loc EXCEPT ![Main] = IF batch = 1 THEN "test" ELSE "batch"]
      \/ /\ op' = [op EXCEPT ![B] = OP_EXIT] /\ made' = made /\ batch' = batch
         /\ loc' = [loc EXCEPT ![Main] = IF exits = 1 THEN "end" ELSE "destroy"]
  BY DEF MainWrite, DestroyWrite, Move
<1>3. loc[Main] = "fill" => batch > 0 /\ made + batch <= MaxOps
  BY <1>t DEF LocInv
<1>4. OpTypes' /\ LocInv'
  <2>1. OpTypes'
    BY <1>t, <1>1, <1>2, <1>3 DEF OpTypes, Locs
  <2>2. LocInv'
    BY <1>t, <1>1, <1>2, <1>3 DEF LocInv
  <2> QED
    BY <2>1, <2>2
<1>5. /\ \A p \in Positions : slots["data"][p] # B
      /\ \A u \in Workers : msg[u] # B
  BY <1>t, <1>1 DEF OnceInv
<1>6. \A b \in Blocks : Pending(b)' => b = B \/ Pending(b)
  BY <1>t, <1>1, <1>2 DEF Pending
<1>7. ~Pending(B)
  BY <1>t, <1>1, <1>5 DEF Pending
<1>8. \A b \in Blocks : b # B => op'[b] = op[b]
  BY <1>t, <1>1, <1>2
<1>9. op'[B] \in {OP_EXIT, made'} /\ (op'[B] # OP_EXIT => op'[B] = made + 1 /\ made' = made + 1)
  BY <1>t, <1>1, <1>2
<1>10. made' \in {made, made + 1}
  BY <1>2
<1>11. HandleInv'
  <2>1. \A i \in Ops : handled'[i] <= 1 /\ (i > made' => handled'[i] = 0)
    BY <1>t, <1>1, <1>10 DEF HandleInv, Ops
  <2>2. \A b \in Blocks : Pending(b)' /\ op'[b] # OP_EXIT => op'[b] <= made' /\ handled'[op'[b]] = 0
    <3>1. ASSUME NEW b \in Blocks, Pending(b)', op'[b] # OP_EXIT, b # B
          PROVE  op'[b] <= made' /\ handled'[op'[b]] = 0
      BY <3>1, <1>t, <1>1, <1>6, <1>8, <1>10 DEF HandleInv
    <3>2. ASSUME op'[B] # OP_EXIT PROVE op'[B] <= made' /\ handled'[op'[B]] = 0
      <4>1. made + 1 \in Ops /\ made + 1 > made /\ op'[B] = made + 1 /\ made' = made + 1
        BY <3>2, <1>2, <1>3, <1>9, <1>t, <1>1 DEF Ops
      <4>2. handled[made + 1] = 0
        BY <4>1, <1>t DEF HandleInv
      <4> QED
        BY <4>1, <4>2, <1>1, <1>t
    <3> QED
      BY <3>1, <3>2
  <2>3. \A b, c \in Blocks :
          Pending(b)' /\ Pending(c)' /\ op'[b] = op'[c] /\ op'[b] # OP_EXIT => b = c
    <3>1. \A b \in Blocks : Pending(b)' /\ b # B /\ op'[b] # OP_EXIT => op'[b] <= made
      BY <1>t, <1>6, <1>8 DEF HandleInv
    <3>2. \A b \in Blocks : b # B /\ Pending(b)' /\ op'[b] # OP_EXIT => op'[b] # op'[B]
      BY <3>1, <1>9, <1>t
    <3>3. \A b, c \in Blocks : b # B /\ c # B /\ Pending(b)' /\ Pending(c)' /\ op'[b] = op'[c]
            /\ op'[b] # OP_EXIT => b = c
      BY <1>t, <1>6, <1>8 DEF HandleInv
    <3> QED
      BY <3>2, <3>3
  <2> QED
    BY <2>1, <2>2, <2>3 DEF HandleInv
<1>12. OrderInv'
  <2>1. \A u \in Threads, p \in Positions : TakeAt(u, "data", p)' <=> TakeAt(u, "data", p)
    BY <1>1, <1>t DEF TakeAt
  <2>2. \A p \in Positions : Unclaimed(p)' <=> Unclaimed(p)
    BY <1>1, <2>1 DEF Unclaimed
  <2>3. \A b \in Blocks : Claimed(b)' => Claimed(b) /\ b # B
    <3>1. \A u \in Workers : pc'[u] = pc[u] /\ loc'[u] = loc[u]
      BY <1>1, <1>2, <1>t
    <3>2. \A u \in Workers : pos[u] \in Positions
      BY <1>t
    <3> QED
      BY <3>1, <3>2, <1>1, <1>5 DEF Claimed
  <2>4. \A p \in Positions : Unclaimed(p) => slots["data"][p] \in Blocks /\ slots["data"][p] # B
    BY <1>t, <1>5 DEF Unclaimed
  <2>5. \A p \in Positions : Unclaimed(p) => op'[slots["data"][p]] = op[slots["data"][p]]
    BY <2>4, <1>8
  <2> QED
    BY <1>t, <1>1, <1>8, <1>9, <2>2, <2>3, <2>5 DEF OrderInv
<1> QED
  BY <1>4, <1>11, <1>12

(* A pool thread handles the operation of the block it holds and starts to *)
(* free the block.                                                         *)
LEMMA OutsideHandle ==
  ASSUME PoolInv, NEW t \in Workers, WorkerHandle(t)
  PROVE  OpTypes' /\ LocInv' /\ HandleInv' /\ OrderInv'
<1> DEFINE B == msg[t]
<1>t. /\ TypeOK /\ OpTypes /\ LocInv /\ HandleInv /\ OrderInv /\ OnceInv /\ RoleInv
      /\ Main \in Threads /\ Workers \subseteq Threads /\ Main \notin Workers
      /\ pc \in [Threads -> Steps] /\ ring \in [Threads -> Rings] /\ loc \in [Threads -> Locs]
      /\ slots \in [Rings -> [Positions -> Blocks \cup {NULL}]]
      /\ pos \in [Threads -> Positions] /\ msg \in [Threads -> Blocks \cup {NULL}]
      /\ made \in Nat /\ made <= MaxOps /\ MaxOps \in Nat
      /\ op \in [Blocks -> Nat] /\ handled \in [Ops -> Nat]
      /\ NULL \notin Blocks /\ OP_EXIT = 0
  <2>1. NULL \notin Blocks /\ OP_EXIT = 0
    BY DepthAssumption DEF NULL, Blocks, OP_EXIT
  <2> QED
    BY <2>1, Cast, PoolAssumption DEF PoolInv, RingInv, TypeOK, OpTypes
<1>1. /\ UNCHANGED <<slots, takepos, pos, msg, op, made, batch>>
      /\ pc' = [pc EXCEPT ![t] = "pclaim"] /\ pc[t] = "idle" /\ B \in Blocks
      /\ ring' = [ring EXCEPT ![t] = "free"]
      /\ loc[t] = "got" /\ loc' = [loc EXCEPT ![t] = "test"]
      /\ op[B] # OP_EXIT
      /\ handled' = [handled EXCEPT ![op[B]] = @ + 1]
  BY <1>t DEF WorkerHandle, CallPut, ringVars, Goto, Move
<1>2. Pending(B) /\ Claimed(B)
  BY <1>1 DEF Pending, Claimed
<1>3. op[B] \in Ops /\ op[B] <= made /\ handled[op[B]] = 0
  BY <1>1, <1>2, <1>t DEF HandleInv, Ops
<1>4. \A i \in Ops : handled'[i] = IF i = op[B] THEN 1 ELSE handled[i]
  BY <1>1, <1>3, <1>t
<1>5. OpTypes' /\ LocInv'
  <2>1. handled' \in [Ops -> Nat]
    BY <1>1, <1>3, <1>t
  <2>2. OpTypes'
    BY <2>1, <1>1, <1>t DEF OpTypes, Locs
  <2>3. LocInv'
    BY <1>1, <1>t DEF LocInv
  <2> QED
    BY <2>2, <2>3
<1>6. /\ \A p \in Positions : slots["data"][p] # B
      /\ \A u \in Threads : u # t => msg[u] # B
  BY <1>t, <1>1 DEF OnceInv
<1>7. \A b \in Blocks : Pending(b)' => Pending(b) /\ b # B
  BY <1>t, <1>1, <1>6 DEF Pending
<1>8. HandleInv'
  <2>1. \A i \in Ops : handled'[i] <= 1 /\ (i > made => handled'[i] = 0)
    BY <1>4, <1>3, <1>t DEF HandleInv, Ops
  <2>2. \A b \in Blocks : Pending(b)' /\ op[b] # OP_EXIT => op[b] <= made /\ handled'[op[b]] = 0
    <3>1. ASSUME NEW b \in Blocks, Pending(b)', op[b] # OP_EXIT
          PROVE  op[b] <= made /\ handled'[op[b]] = 0
      <4>1. op[b] <= made /\ handled[op[b]] = 0 /\ op[b] # op[B]
        BY <3>1, <1>1, <1>2, <1>7, <1>t DEF HandleInv
      <4>2. op[b] \in Ops
        BY <3>1, <4>1, <1>t DEF Ops
      <4> QED
        BY <4>1, <4>2, <1>4
    <3> QED
      BY <3>1
  <2> QED
    BY <2>1, <2>2, <1>1, <1>7, <1>t DEF HandleInv
<1>9. OrderInv'
  <2>1. \A u \in Threads, p \in Positions : TakeAt(u, "data", p)' <=> TakeAt(u, "data", p)
    BY <1>1, <1>t DEF TakeAt
  <2>2. \A p \in Positions : Unclaimed(p)' <=> Unclaimed(p)
    BY <1>1, <2>1 DEF Unclaimed
  <2>3. \A b \in Blocks : Claimed(b)' => Claimed(b)
    BY <1>1, <1>t DEF Claimed
  <2>4. \A p \in Positions : Unclaimed(p) /\ op[slots["data"][p]] # OP_EXIT =>
          \A j \in Ops : handled'[j] > 0 => j < op[slots["data"][p]]
    BY <1>1, <1>2, <1>4, <1>t DEF OrderInv
  <2>5. pc'[Main] = pc[Main]
    BY <1>1, <1>t
  <2> QED
    BY <1>t, <1>1, <2>2, <2>3, <2>4, <2>5 DEF OrderInv
<1> QED
  BY <1>5, <1>8, <1>9

(* The invariant of the server's worker process.                           *)
LEMMA PoolInductive == PoolSpec => []PoolInv
<1>1. PoolInit => PoolInv
  <2> SUFFICES ASSUME PoolInit PROVE PoolInv
    OBVIOUS
  <2>1. RingInv
    BY RingInit DEF PoolInit
  <2>2. /\ loc = [t \in Threads |-> "test"] /\ batch = 0 /\ made = 0
        /\ op \in [Blocks -> {OP_EXIT}] /\ handled = [i \in Ops |-> 0]
        /\ \A t \in Threads : pc[t] = "idle" /\ msg[t] = NULL
        /\ \A p \in Positions : slots["data"][p] = NULL
        /\ NULL \notin Blocks
    BY DepthAssumption DEF PoolInit, QueueInit, NULL, Blocks
  <2>3. OpTypes /\ LocInv
    BY <2>2, Cast, PoolAssumption DEF OpTypes, LocInv, Locs, OP_EXIT
  <2>4. HandleInv
    BY <2>2, Cast DEF HandleInv, Pending
  <2>5. OrderInv
    BY <2>2, Cast DEF OrderInv, Unclaimed
  <2> QED
    BY <2>1, <2>3, <2>4, <2>5 DEF PoolInv
<1>2. PoolInv /\ [PoolNext]_allVars => PoolInv'
  <2> SUFFICES ASSUME PoolInv, [PoolNext]_allVars PROVE PoolInv'
    OBVIOUS
  <2>1. RingInv'
    BY RingStep, PoolStepIsRoleStep DEF PoolInv
  <2>2. CASE UNCHANGED allVars
    <3>1. OpTypes' /\ LocInv'
      BY <2>2 DEF PoolInv, OpTypes, LocInv, allVars, poolVars, vars
    <3>2. HandleInv' /\ OrderInv'
      BY <2>2, OutsideKept DEF allVars, poolVars, vars
    <3> QED
      BY <2>1, <3>1, <3>2 DEF PoolInv
  <2>3. ASSUME NEW t \in Threads, InsideCall(t) PROVE PoolInv'
    BY <2>1, <2>3, InsideHandle, InsideOrder DEF PoolInv
  <2>4. CASE MainStep
    BY <2>1, <2>3, <2>4, OutsideQuiet, OutsideWrite, Cast DEF MainStep, PoolInv
  <2>5. CASE \E t \in Workers : WorkerStep(t)
    BY <2>1, <2>3, <2>5, OutsideQuiet, OutsideHandle, Cast DEF WorkerStep, PoolInv
  <2>6. CASE StopWorkers
    BY <2>1, <2>6, OutsideQuiet DEF PoolInv
  <2> QED
    BY <2>2, <2>4, <2>5, <2>6 DEF PoolNext
<1> QED
  BY <1>1, <1>2, PTL DEF PoolSpec

(* For every number of pool threads, every depth and every number of       *)
(* events, the handler of core.c:285 runs at most once for an OP_READ, and *)
(* never for one that was not written.                                     *)
THEOREM PoolHandledAtMostOnce == PoolSpec => []HandledAtMostOnce
<1>1. PoolInv => HandledAtMostOnce
  BY DEF PoolInv, HandleInv, HandledAtMostOnce, OpTypes, Ops
<1> QED
  BY <1>1, PoolInductive, PTL

(* For every number of pool threads, every depth and every number of       *)
(* events, operations are claimed in the order they were written: once one *)
(* has been handled, no older one is left unclaimed in the data ring.      *)
THEOREM PoolOldestFirst == PoolSpec => []OldestFirst
<1>1. ASSUME PoolInv, NEW i \in Ops, NEW j \in Ops, i < j, handled[j] > 0,
             NEW p \in Positions, slots["data"][p] # NULL, op[slots["data"][p]] = i
      PROVE  \E t \in Workers : pc[t] \in {"load", "clear"} /\ ring[t] = "data" /\ pos[t] = p
  <2>1. i # OP_EXIT /\ ~(j < i)
    BY <1>1 DEF Ops, OP_EXIT
  <2>2. ~Unclaimed(p)
    BY <1>1, <2>1 DEF PoolInv, OrderInv
  <2>3. PICK t \in Threads : TakeAt(t, "data", p)
    BY <1>1, <2>2 DEF Unclaimed
  <2>4. t # Main
    BY <1>1, <2>3, Cast DEF PoolInv, RingInv, RoleInv, TakeAt
  <2> QED
    BY <2>3, <2>4, Cast DEF TakeAt
<1>2. PoolInv => OldestFirst
  BY <1>1 DEF OldestFirst
<1> QED
  BY <1>2, PoolInductive, PTL
-----------------------------------------------------------------------------
(***************************************************************************)
(* The wakeups.  A message can be left in the ring with every pool thread  *)
(* asleep; how many is bounded.                                            *)
(***************************************************************************)
(* No pool thread is going to look at the data ring again unless it is     *)
(* woken, and no wakeup is on its way.                                     *)
Settled ==
  /\ \A t \in Workers :
       ring[t] = "data" /\ (pc[t] = "sleep" \/ (pc[t] = "undo" /\ mode[t] = "second"))
  /\ sem["data"] = 0
  /\ pc[Main] \notin {"pcount", "pcheck", "pdec", "post"}

(* The last reader to give up found entries at zero or below, which the    *)
(* decrements of the other readers can have hidden messages behind.        *)
FewInv == Settled => count["data"] + Cardinality(Undoers("data")) < Cardinality(Workers)

(* The readers that undo a decrement are pool threads.                     *)
LEMMA UndoersAreWorkers ==
  ASSUME TypeOK, RoleInv
  PROVE  /\ IsFiniteSet(Workers) /\ Cardinality(Workers) \in Nat
         /\ Undoers("data") \subseteq Workers
<1>1. IsFiniteSet(Workers)
  BY ThreadsAssumption, Cast, FS_Subset
<1>2. Undoers("data") \subseteq Workers
  BY Cast DEF Undoers, On, RoleInv
<1> QED
  BY <1>1, <1>2, FS_CardinalityType

(* Once everything has settled, only a wakeup unsettles it; and it settles *)
(* only when a reader gives up.                                            *)
LEMMA FewStep ==
  ASSUME RingInv, TokensConserved, FewInv, RoleNext
  PROVE  FewInv'
<1> SUFFICES ASSUME Settled'
             PROVE  count'["data"] + Cardinality(Undoers("data")') < Cardinality(Workers)
  BY DEF FewInv
<1>t. /\ TypeOK /\ RoleInv
      /\ pc \in [Threads -> Steps] /\ ring \in [Threads -> Rings] /\ mode \in [Threads -> Modes]
      /\ count \in [Rings -> Int] /\ blocked \in [Rings -> Int] /\ sem \in [Rings -> Nat]
      /\ Main \in Threads /\ Workers \subseteq Threads /\ Threads \ {Main} = Workers
      /\ Main \notin Workers /\ Workers # {}
      /\ "data" \in Rings
  BY Cast, PoolAssumption DEF RingInv, TypeOK
<1>f. /\ IsFiniteSet(Workers) /\ Cardinality(Workers) \in Nat
      /\ Undoers("data") \subseteq Workers /\ IsFiniteSet(Undoers("data"))
      /\ Cardinality(Undoers("data")) \in Nat
  BY <1>t, UndoersAreWorkers, CountedFinite
<1>q. /\ \A u \in Workers :
           ring'[u] = "data" /\ (pc'[u] = "sleep" \/ (pc'[u] = "undo" /\ mode'[u] = "second"))
      /\ sem'["data"] = 0
      /\ pc'[Main] \notin {"pcount", "pcheck", "pdec", "post"}
  BY DEF Settled
<1> USE DEF Goto, ringVars
<1>s. ASSUME NEW t \in Threads, count'["data"] = count["data"], sem'["data"] = sem["data"],
             \A u \in Threads \ {t} : pc'[u] = pc[u] /\ ring'[u] = ring[u] /\ mode'[u] = mode[u],
             t = Main, pc[Main] \notin {"pcount", "pcheck", "pdec", "post"},
             pc'[t] = "undo" => ring'[t] = "free", pc[t] = "undo" => ring[t] = "free"
      PROVE  count'["data"] + Cardinality(Undoers("data")') < Cardinality(Workers)
  <2>1. Settled
    BY <1>s, <1>q, <1>t DEF Settled
  <2>2. Undoers("data")' = Undoers("data")
    BY <1>s, <1>t DEF Undoers, On
  <2> QED
    BY <1>s, <2>1, <2>2 DEF FewInv
<1>1. CASE CallTake(Main, "free", "first") \/ CallPut(Main, "data")
  BY <1>1, <1>s, <1>t DEF CallTake, CallPut
<1>2. CASE \E t \in Workers : CallTake(t, "data", "first") \/ CallPut(t, "free")
  BY <1>2, <1>q, <1>t DEF CallTake, CallPut
<1>3. ASSUME NEW t \in Threads, t # Main,
             \/ ClaimTake(t) \/ LoadSlot(t) \/ ClearSlot(t)
             \/ Register(t) \/ Unregister(t) \/ SemWait(t) \/ ClaimPut(t) \/ SeeEmpty(t)
             \/ StoreSlot(t) \/ IncCount(t) \/ CheckBlocked(t) \/ DecBlocked(t) \/ SemPost(t)
      PROVE  FALSE
  <2>1. pc'[t] \in {"sleep", "undo"}
    BY <1>3, <1>q, <1>t
  <2>2. pc'[t] \notin {"sleep", "undo"}
    BY <1>3, <1>t DEF ClaimTake, LoadSlot, ClearSlot, Register, Unregister, SemWait, ClaimPut,
       SeeEmpty, StoreSlot, IncCount, CheckBlocked, DecBlocked, SemPost
  <2> QED
    BY <2>1, <2>2
<1>4. ASSUME NEW t \in Threads, t # Main, DecCount(t)
      PROVE  count'["data"] + Cardinality(Undoers("data")') < Cardinality(Workers)
  <2>1. /\ t \in Workers /\ pc[t] = "dec" /\ ring[t] = "data" /\ ring' = ring
        /\ \A u \in Threads \ {t} : pc'[u] = pc[u]
        /\ pc'[t] = IF count["data"] > 0 THEN "claim" ELSE "undo"
        /\ count'["data"] = count["data"] - 1
    BY <1>4, <1>t DEF DecCount, RoleInv
  <2>2. count["data"] <= 0 /\ pc'[t] = "undo"
    BY <2>1, <1>q, <1>t
  <2>3. Undoers("data")' = Undoers("data") \cup {t} /\ t \notin Undoers("data")
    BY <2>1, <2>2 DEF Undoers, On
  <2>4. Cardinality(Undoers("data") \cup {t}) = Cardinality(Undoers("data")) + 1
    BY <2>3, <1>f, CardOne
  <2>5. Undoers("data") \subseteq Workers \ {t}
    BY <2>3, <1>f
  <2>6. Cardinality(Workers \ {t}) = Cardinality(Workers) - 1 /\ IsFiniteSet(Workers \ {t})
    BY <2>1, <1>f, FS_RemoveElement
  <2>7. Cardinality(Undoers("data")) <= Cardinality(Workers \ {t})
    BY <2>5, <2>6, FS_Subset
  <2>8. Cardinality(Undoers("data")') = Cardinality(Undoers("data")) + 1
    BY <2>3, <2>4
  <2>9. count["data"] \in Int
    BY <1>t
  <2> QED
    BY <2>1, <2>2, <2>6, <2>7, <2>8, <2>9, <1>f
<1>5. ASSUME NEW t \in Threads, t # Main, UndoCount(t)
      PROVE  count'["data"] + Cardinality(Undoers("data")') < Cardinality(Workers)
  <2>1. /\ t \in Workers /\ pc[t] = "undo" /\ ring[t] = "data" /\ ring' = ring /\ mode' = mode
        /\ sem' = sem
        /\ \A u \in Threads \ {t} : pc'[u] = pc[u]
        /\ pc'[t] = CASE mode[t] = "try" -> "idle" [] mode[t] = "first" -> "reg"
                      [] mode[t] = "second" -> "sleep"
        /\ count'["data"] = count["data"] + 1
    BY <1>5, <1>t DEF UndoCount, RoleInv
  <2>2. mode[t] = "second" /\ pc'[t] = "sleep"
    <3>1. pc'[t] = "sleep" \/ pc'[t] = "undo"
      BY <2>1, <1>q
    <3>2. mode[t] \in {"try", "first", "second"}
      BY <1>t
    <3> QED
      BY <2>1, <3>1, <3>2
  <2>3. Settled
    BY <2>1, <2>2, <1>q, <1>t DEF Settled
  <2>4. Undoers("data")' = Undoers("data") \ {t} /\ t \in Undoers("data")
    BY <2>1, <2>2 DEF Undoers, On
  <2>5. Cardinality(Undoers("data") \ {t}) = Cardinality(Undoers("data")) - 1
    BY <2>4, <1>f, CardOne
  <2>6. Cardinality(Undoers("data")') = Cardinality(Undoers("data")) - 1 /\ count["data"] \in Int
    BY <2>4, <2>5, <1>t
  <2> QED
    BY <2>1, <2>3, <2>6, <1>f DEF FewInv
<1>6. ASSUME NEW t \in Threads, t = Main,
             \/ DecCount(t) \/ ClaimTake(t) \/ LoadSlot(t) \/ ClearSlot(t) \/ UndoCount(t)
             \/ Register(t) \/ Unregister(t) \/ SemWait(t) \/ ClaimPut(t) \/ SeeEmpty(t)
             \/ StoreSlot(t) \/ IncCount(t) \/ DecBlocked(t)
      PROVE  count'["data"] + Cardinality(Undoers("data")') < Cardinality(Workers)
  <2>1. CASE DecCount(t) \/ UndoCount(t)
    BY <2>1, <1>6, <1>s, <1>t DEF DecCount, UndoCount, RoleInv
  <2>2. CASE ClaimTake(t) \/ LoadSlot(t) \/ ClearSlot(t)
    BY <2>2, <1>6, <1>s, <1>t DEF ClaimTake, LoadSlot, ClearSlot
  <2>3. CASE Register(t) \/ Unregister(t) \/ SemWait(t)
    BY <2>3, <1>6, <1>s, <1>t DEF Register, Unregister, SemWait, RoleInv
  <2>4. CASE ClaimPut(t) \/ SeeEmpty(t)
    BY <2>4, <1>6, <1>s, <1>t DEF ClaimPut, SeeEmpty
  <2>5. CASE StoreSlot(t) \/ IncCount(t) \/ DecBlocked(t)
    BY <2>5, <1>6, <1>q, <1>t DEF StoreSlot, IncCount, DecBlocked
  <2> QED
    BY <1>6, <2>1, <2>2, <2>3, <2>4, <2>5
<1>7. ASSUME NEW t \in Threads, t = Main, SemPost(t) PROVE FALSE
  <2>1. ring[t] = "data" /\ sem'["data"] = sem["data"] + 1
    BY <1>7, <1>t DEF SemPost, RoleInv
  <2> QED
    BY <2>1, <1>q, <1>t
<1>8. ASSUME NEW t \in Threads, t = Main, CheckBlocked(t) PROVE FALSE
  <2>1. /\ ring[t] = "data" /\ pc[t] = "pcheck" /\ sem' = sem /\ ring' = ring /\ mode' = mode
        /\ pc'[t] = (IF blocked["data"] # 0 THEN "pdec" ELSE "idle")
        /\ \A u \in Workers : pc'[u] = pc[u]
    BY <1>8, <1>t DEF CheckBlocked, RoleInv
  <2>2. blocked["data"] = 0 /\ sem["data"] = 0
    BY <2>1, <1>8, <1>q
  <2>3. Posting("data") = {}
    BY <2>1, <1>8, <1>q, <1>t DEF Posting
  <2>4. Workers \subseteq Registered("data")
    BY <2>1, <1>q, <1>t DEF Registered
  <2>5. Cardinality(Registered("data")) = 0
    <3>1. Cardinality(Posting("data")) = 0
      BY <2>3, FS_EmptySet
    <3>2. blocked["data"] + sem["data"] + Cardinality(Posting("data"))
            = Cardinality(Registered("data"))
      BY <1>t DEF TokensConserved
    <3> QED
      BY <3>1, <3>2, <2>2
  <2>6. IsFiniteSet(Registered("data"))
    BY ThreadsAssumption, FS_Subset DEF Registered
  <2>7. Registered("data") = {}
    BY <2>5, <2>6, FS_EmptySet
  <2> QED
    BY <2>4, <2>7, <1>t
<1> QED
  BY <1>1, <1>2, <1>3, <1>4, <1>5, <1>6, <1>7, <1>8 DEF RoleNext, QueueStep

(* For every number of pool threads and every depth, when every pool       *)
(* thread sleeps with no wakeup on its way, fewer messages than threads    *)
(* are left in the data ring: what line 206 of queue.c can hide from the   *)
(* readers is bounded by the readers.                                      *)
THEOREM PoolFewLeftBehind == PoolSpec => []FewLeftBehind
<1>1. PoolInit => FewInv
  BY Cast, PoolAssumption DEF PoolInit, QueueInit, FewInv, Settled
<1>2. RingInv /\ TokensConserved /\ FewInv /\ [PoolNext]_allVars => FewInv'
  <2> SUFFICES ASSUME RingInv, TokensConserved, FewInv, [RoleNext]_vars PROVE FewInv'
    BY PoolStepIsRoleStep
  <2>1. CASE UNCHANGED vars
    BY <2>1 DEF FewInv, Settled, Undoers, On, vars
  <2> QED
    BY <2>1, FewStep
<1>3. RingInv /\ FewInv => FewLeftBehind
  <2> SUFFICES ASSUME RingInv, FewInv,
                      \A t \in Workers : pc[t] = "sleep" /\ ring[t] = "data",
                      sem["data"] = 0,
                      ~(ring[Main] = "data" /\ pc[Main] \in PutSteps)
               PROVE  count["data"] < Cardinality(Workers)
    BY DEF FewLeftBehind
  <2>1. TypeOK /\ RoleInv
    BY DEF RingInv
  <2>2. Settled
    BY <2>1, Cast DEF Settled, RoleInv
  <2>3. Undoers("data") = {}
    BY <2>1, UndoersAreWorkers DEF Undoers, On
  <2>4. Cardinality(Undoers("data")) = 0
    BY <2>3, FS_EmptySet
  <2>5. count["data"] \in Int
    BY <2>1, Cast DEF TypeOK
  <2> QED
    BY <2>2, <2>4, <2>5 DEF FewInv
<1> QED
  BY <1>1, <1>2, <1>3, PoolRings, PoolTokens, PTL DEF PoolSpec
-----------------------------------------------------------------------------
(***************************************************************************)
(* The main thread and the pool threads do not all wait for each other.    *)
(***************************************************************************)
(* The main thread is not going to look at the free ring again unless it   *)
(* is woken, and no wakeup is on its way.                                  *)
MainSettled ==
  /\ ring[Main] = "free" /\ (pc[Main] = "sleep" \/ (pc[Main] = "undo" /\ mode[Main] = "second"))
  /\ sem["free"] = 0
  /\ \A t \in Workers : ring[t] = "free" => pc[t] \notin {"pcount", "pcheck", "pdec", "post"}

(* It is the only taker of this ring, so its last attempt saw the ring as  *)
(* it was: empty.                                                          *)
MainInv ==
  MainSettled => count["free"] + (IF pc[Main] = "undo" THEN 1 ELSE 0) <= 0

(* A pool thread that gives a block back wakes the main thread, or finds   *)
(* that it does not wait.                                                  *)
LEMMA MainInvStep ==
  ASSUME RingInv, TokensConserved, MainInv, RoleNext
  PROVE  MainInv'
<1> SUFFICES ASSUME MainSettled'
             PROVE  count'["free"] + (IF pc'[Main] = "undo" THEN 1 ELSE 0) <= 0
  BY DEF MainInv
<1>t. /\ TypeOK /\ RoleInv
      /\ pc \in [Threads -> Steps] /\ ring \in [Threads -> Rings] /\ mode \in [Threads -> Modes]
      /\ count \in [Rings -> Int] /\ blocked \in [Rings -> Int] /\ sem \in [Rings -> Nat]
      /\ Main \in Threads /\ Workers \subseteq Threads /\ Threads \ {Main} = Workers
      /\ Main \notin Workers
      /\ "free" \in Rings
  BY Cast, PoolAssumption DEF RingInv, TypeOK
<1>q. /\ ring'[Main] = "free"
      /\ pc'[Main] = "sleep" \/ (pc'[Main] = "undo" /\ mode'[Main] = "second")
      /\ sem'["free"] = 0
      /\ \A t \in Workers : ring'[t] = "free" => pc'[t] \notin {"pcount", "pcheck", "pdec", "post"}
  BY DEF MainSettled
<1> USE DEF Goto, ringVars
<1>s. ASSUME NEW t \in Workers, count'["free"] = count["free"], sem'["free"] = sem["free"],
             \A u \in Threads \ {t} : pc'[u] = pc[u] /\ ring'[u] = ring[u] /\ mode'[u] = mode[u],
             ring[t] = "free" => pc[t] \notin {"pcount", "pcheck", "pdec", "post"}
      PROVE  count'["free"] + (IF pc'[Main] = "undo" THEN 1 ELSE 0) <= 0
  <2>1. pc'[Main] = pc[Main] /\ ring'[Main] = ring[Main] /\ mode'[Main] = mode[Main]
    BY <1>s, <1>t
  <2>2. MainSettled
    BY <1>s, <2>1, <1>q, <1>t DEF MainSettled
  <2> QED
    BY <1>s, <2>1, <2>2 DEF MainInv
<1>1. CASE CallTake(Main, "free", "first") \/ CallPut(Main, "data")
  BY <1>1, <1>q, <1>t DEF CallTake, CallPut
<1>2. ASSUME NEW t \in Workers, CallTake(t, "data", "first") \/ CallPut(t, "free")
      PROVE  count'["free"] + (IF pc'[Main] = "undo" THEN 1 ELSE 0) <= 0
  <2>1. pc[t] = "idle"
    BY <1>2 DEF CallTake, CallPut
  <2> QED
    BY <1>2, <2>1, <1>s, <1>t DEF CallTake, CallPut
<1>3. ASSUME NEW t \in Threads, t = Main,
             \/ ClaimTake(t) \/ LoadSlot(t) \/ ClearSlot(t)
             \/ Register(t) \/ Unregister(t) \/ SemWait(t) \/ ClaimPut(t) \/ SeeEmpty(t)
             \/ StoreSlot(t) \/ IncCount(t) \/ CheckBlocked(t) \/ DecBlocked(t) \/ SemPost(t)
      PROVE  FALSE
  <2>1. pc'[t] \in {"sleep", "undo"}
    BY <1>3, <1>q, <1>t
  <2>2. pc'[t] \notin {"sleep", "undo"}
    BY <1>3, <1>t DEF ClaimTake, LoadSlot, ClearSlot, Register, Unregister, SemWait, ClaimPut,
       SeeEmpty, StoreSlot, IncCount, CheckBlocked, DecBlocked, SemPost
  <2> QED
    BY <2>1, <2>2
<1>4. ASSUME NEW t \in Threads, t = Main, DecCount(t)
      PROVE  count'["free"] + (IF pc'[Main] = "undo" THEN 1 ELSE 0) <= 0
  <2>1. /\ ring[t] = "free"
        /\ pc'[t] = IF count["free"] > 0 THEN "claim" ELSE "undo"
        /\ count'["free"] = count["free"] - 1
    BY <1>4, <1>t DEF DecCount, RoleInv
  <2>2. count["free"] <= 0 /\ count["free"] \in Int
    BY <2>1, <1>4, <1>q, <1>t
  <2> QED
    BY <2>1, <2>2
<1>5. ASSUME NEW t \in Threads, t = Main, UndoCount(t)
      PROVE  count'["free"] + (IF pc'[Main] = "undo" THEN 1 ELSE 0) <= 0
  <2>1. /\ pc[t] = "undo" /\ ring[t] = "free" /\ ring' = ring /\ mode' = mode /\ sem' = sem
        /\ \A u \in Threads \ {t} : pc'[u] = pc[u]
        /\ pc'[t] = CASE mode[t] = "try" -> "idle" [] mode[t] = "first" -> "reg"
                      [] mode[t] = "second" -> "sleep"
        /\ count'["free"] = count["free"] + 1
    BY <1>5, <1>t DEF UndoCount, RoleInv
  <2>2. mode[t] = "second" /\ pc'[t] = "sleep"
    <3>1. pc'[t] = "sleep" \/ pc'[t] = "undo"
      BY <1>5, <1>q
    <3>2. mode[t] \in {"try", "first", "second"}
      BY <1>t
    <3> QED
      BY <2>1, <3>1, <3>2
  <2>3. MainSettled
    BY <2>1, <2>2, <1>5, <1>q, <1>t DEF MainSettled
  <2>4. count["free"] + 1 <= 0 /\ count["free"] \in Int
    BY <2>1, <2>3, <1>5, <1>t DEF MainInv
  <2> QED
    BY <2>1, <2>2, <2>4, <1>5
<1>6. ASSUME NEW t \in Workers,
             \/ DecCount(t) \/ ClaimTake(t) \/ LoadSlot(t) \/ ClearSlot(t) \/ UndoCount(t)
             \/ Register(t) \/ Unregister(t) \/ SemWait(t) \/ ClaimPut(t) \/ SeeEmpty(t)
      PROVE  count'["free"] + (IF pc'[Main] = "undo" THEN 1 ELSE 0) <= 0
  <2>1. CASE DecCount(t) \/ UndoCount(t)
    BY <2>1, <1>6, <1>s, <1>t DEF DecCount, UndoCount, RoleInv
  <2>2. CASE ClaimTake(t) \/ LoadSlot(t) \/ ClearSlot(t)
    BY <2>2, <1>6, <1>s, <1>t DEF ClaimTake, LoadSlot, ClearSlot
  <2>3. CASE Register(t) \/ SemWait(t)
    BY <2>3, <1>6, <1>s, <1>t DEF Register, SemWait, RoleInv
  <2>4. CASE Unregister(t)
    BY <2>4, <1>6, <1>s, <1>t DEF Unregister
  <2>5. CASE ClaimPut(t) \/ SeeEmpty(t)
    BY <2>5, <1>6, <1>s, <1>t DEF ClaimPut, SeeEmpty
  <2> QED
    BY <1>6, <2>1, <2>2, <2>3, <2>4, <2>5
<1>7. ASSUME NEW t \in Workers, StoreSlot(t) \/ IncCount(t) \/ DecBlocked(t) PROVE FALSE
  BY <1>7, <1>q, <1>t DEF StoreSlot, IncCount, DecBlocked, RoleInv
<1>8. ASSUME NEW t \in Workers, SemPost(t) PROVE FALSE
  <2>1. ring[t] = "free" /\ sem'["free"] = sem["free"] + 1 /\ sem["free"] \in Nat
    BY <1>8, <1>t DEF SemPost, RoleInv
  <2> QED
    BY <2>1, <1>q
<1>9. ASSUME NEW t \in Workers, CheckBlocked(t) PROVE FALSE
  <2>1. /\ ring[t] = "free" /\ pc[t] = "pcheck" /\ sem' = sem /\ ring' = ring /\ mode' = mode
        /\ pc'[t] = (IF blocked["free"] # 0 THEN "pdec" ELSE "idle")
        /\ \A u \in Threads \ {t} : pc'[u] = pc[u]
    BY <1>9, <1>t DEF CheckBlocked, RoleInv
  <2>2. blocked["free"] = 0 /\ sem["free"] = 0
    BY <2>1, <1>q
  <2>3. Posting("free") = {}
    <3>1. ASSUME NEW u \in Threads, ring[u] = "free", pc[u] = "post" PROVE FALSE
      <4>1. u # t /\ u # Main
        BY <3>1, <2>1, <1>q, <1>t DEF RoleInv
      <4>2. u \in Workers /\ pc'[u] = "post" /\ ring'[u] = "free"
        BY <3>1, <4>1, <2>1, <1>t
      <4> QED
        BY <4>2, <1>q
    <3> QED
      BY <3>1 DEF Posting
  <2>4. Main \in Registered("free")
    BY <2>1, <1>q, <1>t DEF Registered
  <2>5. Cardinality(Registered("free")) = 0
    <3>1. Cardinality(Posting("free")) = 0
      BY <2>3, FS_EmptySet
    <3>2. blocked["free"] + sem["free"] + Cardinality(Posting("free"))
            = Cardinality(Registered("free"))
      BY <1>t DEF TokensConserved
    <3> QED
      BY <3>1, <3>2, <2>2
  <2>6. IsFiniteSet(Registered("free"))
    BY ThreadsAssumption, FS_Subset DEF Registered
  <2> QED
    BY <2>4, <2>5, <2>6, FS_EmptySet
<1>10. \A t \in Threads : t = Main \/ t \in Workers
  BY <1>t
<1> QED
  BY <1>1, <1>2, <1>3, <1>4, <1>5, <1>6, <1>7, <1>8, <1>9, <1>10 DEF RoleNext, QueueStep

(* When everyone sleeps every block is in a ring, and the rings count what *)
(* is in them.                                                             *)
LEMMA AsleepCounts ==
  ASSUME RingInv, \A t \in Threads : pc[t] = "sleep"
  PROVE  count["data"] + count["free"] >= Depth
<1>t. /\ TypeOK /\ HandsInv /\ SomewhereInv /\ CountTracksSlots
      /\ slots \in [Rings -> [Positions -> Blocks \cup {NULL}]]
      /\ Depth \in Nat /\ "data" \in Rings /\ "free" \in Rings
  BY DepthAssumption DEF RingInv, TypeOK
<1> DEFINE In(r) == {slots[r][p] : p \in Filled(r)}
<1>1. \A b \in Blocks : b # NULL
  BY DEF Blocks, NULL
<1>2. ASSUME NEW r \in Rings
      PROVE  /\ IsFiniteSet(In(r)) /\ Cardinality(In(r)) <= count[r]
             /\ Cardinality(In(r)) \in Nat /\ count[r] \in Int
  <2>1. Uncounted(r) = {} /\ Takers(r) = {} /\ Undoers(r) = {}
    BY DEF Uncounted, Takers, Undoers, On
  <2>2. IsFiniteSet(Filled(r)) /\ Cardinality(Filled(r)) \in Nat
    BY CountedFinite
  <2>3. count[r] = Cardinality(Filled(r))
    <3>1. /\ Cardinality(Uncounted(r)) = 0 /\ Cardinality(Takers(r)) = 0
          /\ Cardinality(Undoers(r)) = 0
      BY <2>1, FS_EmptySet
    <3>2. count[r] = Cardinality(Filled(r)) - Cardinality(Uncounted(r))
                       - Cardinality(Takers(r)) - Cardinality(Undoers(r))
      BY <1>t, CountIs
    <3> QED
      BY <3>1, <3>2, <2>2
  <2>4. IsFiniteSet(In(r)) /\ Cardinality(In(r)) <= Cardinality(Filled(r))
    <3> DEFINE f == [p \in Filled(r) |-> slots[r][p]]
    <3>1. f \in Surjection(Filled(r), In(r))
      BY DEF Surjection
    <3> QED
      BY <3>1, <2>2, FS_Surjection
  <2> QED
    BY <2>2, <2>3, <2>4, FS_CardinalityType
<1>3. Blocks \subseteq In("data") \cup In("free")
  <2> SUFFICES ASSUME NEW b \in Blocks PROVE b \in In("data") \cup In("free")
    OBVIOUS
  <2>1. \A t \in Threads : msg[t] # b
    BY <1>1, <1>t DEF HandsInv
  <2>2. PICK r \in Rings : \E p \in Positions : slots[r][p] = b
    BY <2>1, <1>t DEF SomewhereInv
  <2>3. PICK p \in Positions : slots[r][p] = b
    BY <2>2
  <2>4. p \in Filled(r)
    BY <2>3, <1>1 DEF Filled
  <2> QED
    BY <2>3, <2>4
<1>4. Cardinality(Blocks) = Depth
  BY <1>t, FS_Interval DEF Blocks
<1>5. /\ IsFiniteSet(In("data") \cup In("free"))
      /\ Cardinality(In("data") \cup In("free")) <= Cardinality(In("data")) + Cardinality(In("free"))
  <2> HIDE DEF In
  <2>1. IsFiniteSet(In("data")) /\ IsFiniteSet(In("free"))
    BY <1>2, <1>t
  <2>2. /\ Cardinality(In("data") \cup In("free"))
            = Cardinality(In("data")) + Cardinality(In("free"))
                - Cardinality(In("data") \cap In("free"))
        /\ IsFiniteSet(In("data") \cup In("free"))
    BY <2>1, FS_Union
  <2>3. Cardinality(In("data") \cap In("free")) \in Nat
    BY <2>1, FS_Intersection, FS_CardinalityType
  <2> QED
    BY <2>2, <2>3, <1>2, <1>t
<1>6. Cardinality(Blocks) <= Cardinality(In("data") \cup In("free"))
  BY <1>3, <1>5, FS_Subset
<1> HIDE DEF In
<1>7. Cardinality(In("data") \cup In("free")) \in Nat
  BY <1>5, FS_CardinalityType
<1> QED
  BY <1>2, <1>4, <1>5, <1>6, <1>7, <1>t

(* For every pool with at least as many blocks as threads (the server has  *)
(* 512 and 4), the main thread in alloc_blocking and the pool threads in   *)
(* read are never all asleep without a wakeup for one of them.             *)
THEOREM PoolNoMutualWait ==
  ASSUME Cardinality(Workers) <= Depth
  PROVE  PoolSpec => []NoMutualWait
<1>1. PoolInit => MainInv
  BY Cast, PoolAssumption DEF PoolInit, QueueInit, MainInv, MainSettled
<1>2. RingInv /\ TokensConserved /\ MainInv /\ [PoolNext]_allVars => MainInv'
  <2> SUFFICES ASSUME RingInv, TokensConserved, MainInv, [RoleNext]_vars PROVE MainInv'
    BY PoolStepIsRoleStep
  <2>1. CASE UNCHANGED vars
    BY <2>1 DEF MainInv, MainSettled, vars
  <2> QED
    BY <2>1, MainInvStep
<1>3. RingInv /\ MainInv /\ FewLeftBehind => NoMutualWait
  <2> SUFFICES ASSUME RingInv, MainInv, FewLeftBehind,
                      \A t \in Threads : pc[t] = "sleep",
                      \A t \in Threads : ~(sem[ring[t]] > 0)
               PROVE  FALSE
    BY DEF NoMutualWait
  <2>1. /\ RoleInv /\ Main \in Threads /\ Workers \subseteq Threads /\ Main \notin Workers
        /\ Workers # {}
        /\ sem \in [Rings -> Nat] /\ count \in [Rings -> Int]
        /\ Depth \in Nat /\ Cardinality(Workers) \in Nat
    BY Cast, PoolAssumption, DepthAssumption, UndoersAreWorkers, FS_CardinalityType DEF RingInv, TypeOK
  <2>2. ring[Main] = "free" /\ \A t \in Workers : ring[t] = "data"
    BY <2>1 DEF RoleInv
  <2>3. sem["free"] = 0 /\ sem["data"] = 0
    BY <2>1, <2>2
  <2>4. count["data"] < Cardinality(Workers)
    BY <2>1, <2>2, <2>3 DEF FewLeftBehind
  <2>5. MainSettled
    BY <2>1, <2>2, <2>3 DEF MainSettled
  <2>6. count["free"] <= 0
    BY <2>1, <2>5 DEF MainInv
  <2>7. count["data"] + count["free"] >= Depth
    BY AsleepCounts
  <2> QED
    BY <2>1, <2>4, <2>6, <2>7
<1> QED
  BY <1>1, <1>2, <1>3, PoolRings, PoolTokens, PoolFewLeftBehind, PTL DEF PoolSpec
=============================================================================
