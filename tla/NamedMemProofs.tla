--------------------------- MODULE NamedMemProofs ---------------------------
(***************************************************************************)
(* Proofs about NamedMem for any number of processes and crashes, for      *)
(* segments that some process keeps open (~LastCloses): an object is       *)
(* initialised once, before anybody else sees it, and the reference count  *)
(* covers the processes that have joined.                                  *)
(***************************************************************************)
EXTENDS NamedMem, FiniteSetTheorems, TLAPS

(* Before the header exists nobody is past it, and there is one creator.   *)
HeaderInv ==
  /\ status = 1 => exists
  /\ status = 0 => \A p \in Procs : pc[p] \in {"closed", "made", "mapped", "dead"}
  /\ \A p \in Procs : pc[p] = "made" =>
       exists /\ status = 0 /\ \A q \in Procs : pc[q] = "made" => q = p

(* A process in one of these places owns the mutex of the header.          *)
OwnerInv ==
  \A p \in Procs : pc[p] \in {"build", "publish", "header", "leave"} => mutex = p

(* The count never returns to zero while somebody keeps the segment.       *)
RefsInv ==
  /\ status = 1 => refs >= 1
  /\ \A p \in Procs : pc[p] = "leave" => refs > 1

(* Whoever can see the object, or could lock the header next, finds it     *)
(* initialised.                                                            *)
ObjectInv ==
  /\ status = 1 /\ mutex = NoProc => object = "initialised"
  /\ \A p \in Procs :
       pc[p] \in {"header", "publish", "open", "unmap", "leave"} => object = "initialised"

(* The builder is alone.                                                   *)
BuilderInv ==
  \A p, q \in Procs : pc[p] \in {"build", "publish"} /\ q # p =>
    pc[q] \notin {"open", "unmap"}

(* The inductive invariant.                                                *)
IInv == TypeOK /\ HeaderInv /\ OwnerInv /\ RefsInv /\ ObjectInv /\ BuilderInv

(* The initial state satisfies the inductive invariant.                    *)
LEMMA InitIInv == Init => IInv
<1> SUFFICES ASSUME Init PROVE IInv
  OBVIOUS
<1>1. \A p \in Procs : pc[p] = "closed"
  BY DEF Init
<1>2. TypeOK
  BY DEF Init, TypeOK, PCs
<1>3. HeaderInv /\ RefsInv
  BY <1>1 DEF Init, HeaderInv, RefsInv
<1>4. OwnerInv /\ ObjectInv /\ BuilderInv
  BY <1>1 DEF Init, OwnerInv, ObjectInv, BuilderInv
<1> QED
  BY <1>2, <1>3, <1>4 DEF IInv

(* Every step of every process keeps it: the handshake of the creator's    *)
(* locked mutex with the openers' lock.                                    *)
LEMMA NextIInv ==
  ASSUME ~LastCloses, IInv, [Next]_vars
  PROVE  IInv'
<1> USE NamedMemAssumption
<1> USE DEF IInv, TypeOK, PCs, HeaderInv, OwnerInv, RefsInv, ObjectInv, BuilderInv, Goto
<1>1. CASE UNCHANGED vars
  BY <1>1 DEF vars
<1>2. ASSUME NEW p \in Procs, Create(p) PROVE IInv'
  BY <1>2 DEF Create
<1>3. ASSUME NEW p \in Procs, MakeHeader(p) PROVE IInv'
  BY <1>3 DEF MakeHeader
<1>4. ASSUME NEW p \in Procs, BuildObject(p) PROVE IInv'
  BY <1>4 DEF BuildObject
<1>5. ASSUME NEW p \in Procs, Ready(p) PROVE IInv'
  BY <1>5 DEF Ready
<1>6. ASSUME NEW p \in Procs, OpenExisting(p) PROVE IInv'
  BY <1>6 DEF OpenExisting
<1>7. ASSUME NEW p \in Procs, LockHeader(p) PROVE IInv'
  BY <1>7 DEF LockHeader
<1>8. ASSUME NEW p \in Procs, JoinSegment(p) PROVE IInv'
  BY <1>8 DEF JoinSegment
<1>9. ASSUME NEW p \in Procs, Close(p) PROVE IInv'
  BY <1>9 DEF Close
<1>10. ASSUME NEW p \in Procs, LockToLeave(p) PROVE IInv'
  BY <1>10 DEF LockToLeave
<1>11. ASSUME NEW p \in Procs, Leave(p) PROVE IInv'
  BY <1>11 DEF Leave
<1>12. ASSUME NEW p \in Procs, Crash(p) PROVE IInv'
  BY <1>12 DEF Crash
<1> QED
  BY <1>1, <1>2, <1>3, <1>4, <1>5, <1>6, <1>7, <1>8, <1>9, <1>10, <1>11, <1>12 DEF Next

(* The inductive invariant holds in every reachable state.                 *)
LEMMA AlwaysIInv ==
  ASSUME ~LastCloses
  PROVE  Spec => []IInv
  BY InitIInv, NextIInv, PTL DEF Spec

(* No constructor of a segment that stays open returns an object that is   *)
(* not initialised, whatever crashes: the creator's locked mutex holds the *)
(* openers back (common.h:232 and 266).                                    *)
THEOREM OpensInitialised ==
  ASSUME ~LastCloses
  PROVE  Spec => []OpenMeansInitialised
<1>1. IInv => OpenMeansInitialised
  BY DEF IInv, ObjectInv, OpenMeansInitialised
<1> QED
  BY <1>1, AlwaysIInv, PTL

(* Nor does one initialise the object again under a process that uses it.  *)
THEOREM BuildsAlone ==
  ASSUME ~LastCloses
  PROVE  Spec => []NeverRebuiltInUse
<1>1. IInv => NeverRebuiltInUse
  BY NamedMemAssumption DEF IInv, OwnerInv, BuilderInv, NeverRebuiltInUse
<1> QED
  BY <1>1, AlwaysIInv, PTL
-----------------------------------------------------------------------------
(* The reference count.                                                    *)

(* The inductive invariant of the reference count.                         *)
CountInv == TypeOK /\ HeaderInv /\ RefsCoverUsers

(* A process joins, leaves or neither: what each does to the number of     *)
(* joined processes.                                                       *)
LEMMA JoinedChanges ==
  ASSUME NEW p \in Procs, NEW l \in PCs, TypeOK, Goto(p, l)
  PROVE  /\ Cardinality(Joined) \in Nat
         /\ Joined' = IF l \in {"build", "publish", "open", "unmap", "leave"}
                      THEN Joined \cup {p} ELSE Joined \ {p}
         /\ Cardinality(Joined \cup {p}) =
              IF p \in Joined THEN Cardinality(Joined) ELSE Cardinality(Joined) + 1
         /\ Cardinality(Joined \ {p}) =
              IF p \in Joined THEN Cardinality(Joined) - 1 ELSE Cardinality(Joined)
<1>1. IsFiniteSet(Joined)
  <2>1. Joined \subseteq Procs
    BY DEF Joined
  <2> QED
    BY <2>1, NamedMemAssumption, FS_Subset
<1>2. Cardinality(Joined) \in Nat
  BY <1>1, FS_CardinalityType
<1>3. Joined' = IF l \in {"build", "publish", "open", "unmap", "leave"}
                THEN Joined \cup {p} ELSE Joined \ {p}
  BY DEF Joined, TypeOK, Goto
<1>4. CASE p \in Joined
  <2>1. Joined \cup {p} = Joined
    BY <1>4
  <2>2. Cardinality(Joined \ {p}) = Cardinality(Joined) - 1
    BY <1>1, <1>4, FS_RemoveElement
  <2> QED
    BY <1>2, <1>3, <1>4, <2>1, <2>2
<1>5. CASE p \notin Joined
  <2>1. Joined \ {p} = Joined
    BY <1>5
  <2>2. Cardinality(Joined \cup {p}) = Cardinality(Joined) + 1
    BY <1>1, <1>5, FS_AddElement
  <2> QED
    BY <1>2, <1>3, <1>5, <2>1, <2>2
<1> QED
  BY <1>4, <1>5

(* A creator finds nobody joined, since the header does not exist yet.     *)
LEMMA NextCountInv == CountInv /\ [Next]_vars => CountInv'
<1> SUFFICES ASSUME CountInv, [Next]_vars PROVE CountInv'
  OBVIOUS
<1> USE DEF CountInv
<1>1. TypeOK' /\ HeaderInv'
  <2> USE NamedMemAssumption DEF TypeOK, PCs, HeaderInv, Goto
  <2>1. CASE UNCHANGED vars
    BY <2>1 DEF vars
  <2>2. ASSUME NEW p \in Procs, Create(p) PROVE TypeOK' /\ HeaderInv'
    BY <2>2 DEF Create
  <2>3. ASSUME NEW p \in Procs, MakeHeader(p) PROVE TypeOK' /\ HeaderInv'
    BY <2>3 DEF MakeHeader
  <2>4. ASSUME NEW p \in Procs, BuildObject(p) \/ Ready(p) \/ OpenExisting(p)
        PROVE  TypeOK' /\ HeaderInv'
    BY <2>4 DEF BuildObject, Ready, OpenExisting
  <2>5. ASSUME NEW p \in Procs, LockHeader(p) \/ JoinSegment(p)
        PROVE  TypeOK' /\ HeaderInv'
    BY <2>5 DEF LockHeader, JoinSegment
  <2>6. ASSUME NEW p \in Procs, Close(p) \/ LockToLeave(p) \/ Leave(p) \/ Crash(p)
        PROVE  TypeOK' /\ HeaderInv'
    BY <2>6 DEF Close, LockToLeave, Leave, Crash
  <2> QED
    BY <2>1, <2>2, <2>3, <2>4, <2>5, <2>6 DEF Next
<1>2. RefsCoverUsers'
  <2> USE DEF RefsCoverUsers
  <2>1. CASE UNCHANGED vars
    BY <2>1 DEF vars, Joined
  <2>2. ASSUME NEW p \in Procs, Create(p) PROVE RefsCoverUsers'
    <3>1. p \notin Joined /\ Joined' = Joined \ {p}
      BY <2>2, JoinedChanges DEF Create, Joined, PCs
    <3> QED
      BY <2>2, <3>1 DEF Create
  <2>3. ASSUME NEW p \in Procs, MakeHeader(p) PROVE RefsCoverUsers'
    <3>1. Joined = {}
      BY <2>3 DEF MakeHeader, HeaderInv, Joined
    <3>2. Joined' = {p} /\ Cardinality({p}) = 1
      BY <2>3, <3>1, JoinedChanges, FS_Singleton DEF MakeHeader, PCs
    <3> QED
      BY <2>3, <3>2 DEF MakeHeader, TypeOK
  <2>4. ASSUME NEW p \in Procs, BuildObject(p) \/ Ready(p) \/ Close(p) \/ LockToLeave(p)
        PROVE  RefsCoverUsers'
    <3>1. p \in Joined /\ Joined' = Joined \cup {p}
      BY <2>4, JoinedChanges
      DEF BuildObject, Ready, Close, LockToLeave, Joined, PCs
    <3> QED
      BY <2>4, <3>1 DEF BuildObject, Ready, Close, LockToLeave
  <2>5. ASSUME NEW p \in Procs, OpenExisting(p) \/ LockHeader(p) PROVE RefsCoverUsers'
    <3>1. p \notin Joined /\ Joined' = Joined \ {p}
      BY <2>5, JoinedChanges DEF OpenExisting, LockHeader, Joined, PCs
    <3> QED
      BY <2>5, <3>1 DEF OpenExisting, LockHeader
  <2>6. ASSUME NEW p \in Procs, JoinSegment(p) PROVE RefsCoverUsers'
    <3>1. Goto(p, IF refs = 0 THEN "build" ELSE "open") /\ p \notin Joined
      BY <2>6 DEF JoinSegment, Joined
    <3>2. Cardinality(Joined') = Cardinality(Joined) + 1 /\ Cardinality(Joined) \in Nat
      BY <3>1, JoinedChanges DEF PCs
    <3> QED
      BY <2>6, <3>2 DEF JoinSegment, TypeOK
  <2>7. ASSUME NEW p \in Procs, Leave(p) PROVE RefsCoverUsers'
    <3>1. Goto(p, "closed") /\ p \in Joined
      BY <2>7 DEF Leave, Joined
    <3>2. Cardinality(Joined') = Cardinality(Joined) - 1 /\ Cardinality(Joined) \in Nat
      BY <3>1, JoinedChanges DEF PCs
    <3>3. Cardinality(Joined') \in Nat
      BY <3>1, JoinedChanges, FS_RemoveElement, FS_CardinalityType, FS_Subset, NamedMemAssumption DEF Joined
    <3> QED
      BY <2>7, <3>2, <3>3 DEF Leave, TypeOK
  <2>8. ASSUME NEW p \in Procs, Crash(p) PROVE RefsCoverUsers'
    <3>1. Goto(p, "dead")
      BY <2>8 DEF Crash
    <3>2. /\ Cardinality(Joined) \in Nat
          /\ Cardinality(Joined') \in {Cardinality(Joined), Cardinality(Joined) - 1}
      BY <3>1, JoinedChanges DEF PCs
    <3> QED
      BY <2>8, <3>2 DEF Crash, TypeOK
  <2> QED
    BY <2>1, <2>2, <2>3, <2>4, <2>5, <2>6, <2>7, <2>8 DEF Next
<1> QED
  BY <1>1, <1>2

(* The reference count of a segment is never below the live processes that *)
(* have joined it, and above them by at most the crashes, for any number   *)
(* of processes: what the count reports as unused has no user.  The        *)
(* argument does not use ~LastCloses; the faithfulness of JoinSegment and  *)
(* Leave as single steps does, since only then is the mutex around them    *)
(* (common.h:266 and 310) never released by a process that does not own it.*)
THEOREM RefsCover ==
  ASSUME ~LastCloses
  PROVE  Spec => []RefsCoverUsers
<1>1. Init => CountInv
  <2>1. ASSUME Init PROVE RefsCoverUsers
    <3>1. Joined = {} /\ refs = 0 /\ crashes = 0
      BY <2>1 DEF Init, Joined
    <3>2. Cardinality({}) = 0
      BY FS_EmptySet
    <3> QED
      BY <3>1, <3>2 DEF RefsCoverUsers
  <2> QED
    BY <2>1, InitIInv DEF CountInv, IInv
<1> QED
  BY <1>1, NextCountInv, PTL DEF Spec, CountInv
=============================================================================
