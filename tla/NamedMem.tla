------------------------------ MODULE NamedMem ------------------------------
(***************************************************************************)
(* The named shared memory under every named Phalcon\Sync object           *)
(* (phalcon_namedmem_init, _ready and _unmap in ext/sync/common.h) and the *)
(* constructors and destructors that use it.                               *)
(*                                                                         *)
(* A segment starts with a byte that says whether its header exists, a     *)
(* process-shared mutex and a reference count; the synchronisation object  *)
(* follows.  The process that creates the segment leaves phalcon_namedmem_ *)
(* init with the mutex locked, initialises the object and unlocks in       *)
(* phalcon_namedmem_ready.  Nothing ever unlinks a segment: the last       *)
(* process to leave takes the count to zero, and the next one to open it   *)
(* is told to initialise the object again.                                 *)
(***************************************************************************)
EXTENDS Integers, FiniteSets

CONSTANTS
  Procs,
  NoProc,        \* value of the mutex when nobody owns it
  LastCloses,    \* whether the count may fall to zero and the segment be reopened
  MaxCrashes     \* bound on the processes killed at an arbitrary point

ASSUME NamedMemAssumption ==
  /\ IsFiniteSet(Procs)
  /\ NoProc \notin Procs
  /\ LastCloses \in BOOLEAN
  /\ MaxCrashes \in Nat

VARIABLES
  exists,    \* whether the shared memory object exists
  status,    \* its first byte
  mutex,     \* owner of the mutex in the header
  refs,      \* RefCountPtr[0]
  object,    \* what the synchronisation object holds
  pc,
  crashes

vars == <<exists, status, mutex, refs, object, pc, crashes>>

(* "made": won the O_EXCL race; "build": Result == 0, the object is to be  *)
(* initialised; "publish": before phalcon_namedmem_ready; "mapped": opened *)
(* an existing segment; "header": owns its mutex; "open": the constructor  *)
(* has returned; "unmap", "leave": the destructor, before and inside the   *)
(* mutex.                                                                  *)
PCs == {"closed", "made", "build", "publish", "mapped", "header", "open",
        "unmap", "leave", "dead"}

TypeOK ==
  /\ exists \in BOOLEAN
  /\ status \in {0, 1}
  /\ mutex \in Procs \cup {NoProc}
  /\ refs \in Nat
  /\ object \in {"blank", "initialised"}
  /\ pc \in [Procs -> PCs]
  /\ crashes \in Nat

Init ==
  /\ exists = FALSE /\ status = 0 /\ mutex = NoProc /\ refs = 0
  /\ object = "blank"
  /\ pc = [p \in Procs |-> "closed"]
  /\ crashes = 0

Goto(p, l) == pc' = [pc EXCEPT ![p] = l]

-----------------------------------------------------------------------------
(* shm_open(O_CREAT | O_EXCL) succeeds; ftruncate zero-fills. *)
Create(p) ==
  /\ pc[p] = "closed" /\ ~exists
  /\ exists' = TRUE
  /\ Goto(p, "made")
  /\ UNCHANGED <<status, mutex, refs, object, crashes>>

(* Mutant: the header is published with its mutex unlocked. *)
MakeHeaderUnlocked(p) ==
  /\ pc[p] = "made"
  /\ status' = 1 /\ refs' = 1
  /\ Goto(p, "build")
  /\ UNCHANGED <<exists, mutex, object, crashes>>

(* Initialise and lock the mutex, set the first byte and the count. *)
MakeHeader(p) ==
  /\ pc[p] = "made"
  /\ mutex' = p /\ status' = 1 /\ refs' = 1
  /\ Goto(p, "build")
  /\ UNCHANGED <<exists, object, crashes>>

(* phalcon_semaphore_init or phalcon_event_init by the constructor *)
BuildObject(p) ==
  /\ pc[p] = "build"
  /\ object' = "initialised"
  /\ Goto(p, "publish")
  /\ UNCHANGED <<exists, status, mutex, refs, crashes>>

(* phalcon_namedmem_ready: an unlock that does not ask who owns the mutex. *)
(* (Of a process that does not own it the result is undefined; glibc's     *)
(* default mutex becomes free.)                                            *)
Ready(p) ==
  /\ pc[p] = "publish"
  /\ mutex' = NoProc
  /\ Goto(p, "open")
  /\ UNCHANGED <<exists, status, refs, object, crashes>>

(* shm_open of the existing segment and mmap *)
OpenExisting(p) ==
  /\ pc[p] = "closed" /\ exists
  /\ Goto(p, "mapped")
  /\ UNCHANGED <<exists, status, mutex, refs, object, crashes>>

(* The usleep loop on the first byte, then pthread_mutex_lock *)
LockHeader(p) ==
  /\ pc[p] = "mapped" /\ status # 0
  /\ mutex = NoProc /\ mutex' = p
  /\ Goto(p, "header")
  /\ UNCHANGED <<exists, status, refs, object, crashes>>

(* Mutant: the constructor is told to build a segment that has a user. *)
JoinSegmentTooEager(p) ==
  /\ pc[p] = "header"
  /\ refs' = refs + 1
  /\ object' = IF refs = 0 THEN "blank" ELSE object
  /\ Goto(p, IF refs <= 1 THEN "build" ELSE "open")
  /\ mutex' = NoProc
  /\ UNCHANGED <<exists, status, crashes>>

(* Mutant: only the creator counts its reference. *)
JoinSegmentUncounted(p) ==
  /\ pc[p] = "header"
  /\ object' = IF refs = 0 THEN "blank" ELSE object
  /\ Goto(p, IF refs = 0 THEN "build" ELSE "open")
  /\ mutex' = NoProc
  /\ UNCHANGED <<exists, status, refs, crashes>>

(* Count the reference and unlock; a segment without references is zeroed  *)
(* and given to the constructor to initialise (Result == 0).               *)
JoinSegment(p) ==
  /\ pc[p] = "header"
  /\ refs' = refs + 1
  /\ object' = IF refs = 0 THEN "blank" ELSE object
  /\ Goto(p, IF refs = 0 THEN "build" ELSE "open")
  /\ mutex' = NoProc
  /\ UNCHANGED <<exists, status, crashes>>

-----------------------------------------------------------------------------
(* phalcon_namedmem_unmap *)

Close(p) ==
  /\ pc[p] = "open"
  /\ Goto(p, "unmap")
  /\ UNCHANGED <<exists, status, mutex, refs, object, crashes>>

LockToLeave(p) ==
  /\ pc[p] = "unmap"
  /\ LastCloses \/ refs > 1
  /\ mutex = NoProc /\ mutex' = p
  /\ Goto(p, "leave")
  /\ UNCHANGED <<exists, status, refs, object, crashes>>

Leave(p) ==
  /\ pc[p] = "leave"
  /\ refs' = IF refs = 0 THEN 0 ELSE refs - 1
  /\ mutex' = NoProc
  /\ Goto(p, "closed")
  /\ UNCHANGED <<exists, status, object, crashes>>

(* The process is killed: the segment keeps its state, locked mutex and    *)
(* reference included.                                                     *)
Crash(p) ==
  /\ crashes < MaxCrashes
  /\ pc[p] # "dead"
  /\ crashes' = crashes + 1
  /\ Goto(p, "dead")
  /\ UNCHANGED <<exists, status, mutex, refs, object>>

-----------------------------------------------------------------------------
Next ==
  \E p \in Procs :
    \/ Create(p) \/ MakeHeader(p) \/ BuildObject(p) \/ Ready(p)
    \/ OpenExisting(p) \/ LockHeader(p) \/ JoinSegment(p)
    \/ Close(p) \/ LockToLeave(p) \/ Leave(p) \/ Crash(p)

Spec == Init /\ [][Next]_vars

-----------------------------------------------------------------------------
(* A constructor returns only when the shared object is initialised: the   *)
(* comment at common.h:254, "Wait until the space is fully initialized".   *)
OpenMeansInitialised ==
  \A p \in Procs : pc[p] \in {"open", "unmap", "leave"} => object = "initialised"

(* No constructor initialises the object under a process that uses it.     *)
NeverRebuiltInUse ==
  \A p \in Procs : pc[p] \in {"build", "publish"} =>
    \A q \in Procs \ {p} : pc[q] \notin {"build", "publish", "open", "unmap", "leave"}

(* Processes that have joined the segment and not left it. *)
Joined == {p \in Procs : pc[p] \in {"build", "publish", "open", "unmap", "leave"}}

(* The count covers every live process that has joined, and exceeds them   *)
(* by at most the processes that crashed: a crash may pin a segment, never *)
(* let it be recycled under a user.                                        *)
RefsCoverUsers ==
  /\ Cardinality(Joined) <= refs
  /\ refs <= Cardinality(Joined) + crashes
=============================================================================
