--------------------------- MODULE ModelSaveProofs ---------------------------
(***************************************************************************)
(* Theorems for every set of records, relations and resultsets and every   *)
(* bound.  Of the connection: the count and the database agree on what is  *)
(* open, and a rollback undoes its own level.  Of save(), delete() and the *)
(* methods of a resultset: a call outside a transaction keeps all of its   *)
(* writes or none, and returns what has become of them.                    *)
(***************************************************************************)
EXTENDS ModelSave, SequenceTheorems, FiniteSetTheorems, TLAPS

(* The fields of a connection. *)
Fields == {"pdo", "level", "savepoints", "inTx", "work", "points", "durable",
           "scopes", "kept", "sound"}

(* What the proof needs to know of a connection's type. *)
Shape(k) ==
  /\ DOMAIN k = Fields
  /\ k.level \in Nat
  /\ k.pdo \in BOOLEAN /\ k.savepoints \in BOOLEAN /\ k.inTx \in BOOLEAN
  /\ k.sound \in BOOLEAN
  /\ k.scopes \in Seq(Scope)

(* The inductive form of LevelAgrees: the history is as deep as the count  *)
(* while it is kept, and empty while it is not.                            *)
LevelInv(k) ==
  /\ Shape(k)
  /\ k.inTx => k.level > 0
  /\ k.sound => Len(k.scopes) = k.level
  /\ k.sound /\ k.level > 0 => k.inTx
  /\ ~k.sound => k.scopes = <<>>

(* The inductive form implies the property the run checks. *)
LEMMA LevelInvAgrees ==
  ASSUME NEW k, LevelInv(k)
  PROVE  LevelAgreesOn(k)
BY DEF LevelInv, Shape, LevelAgreesOn

(* A fresh connection (connect() of pdo.c) satisfies it. *)
LEMMA ConnectedLevel == LevelInv(Connected)
BY DEF LevelInv, Shape, Fields, Connected, Scope

(* Giving up the history changes neither the count nor the database. *)
LEMMA LostLevel ==
  ASSUME NEW k, Shape(k)
  PROVE  /\ Shape(Lost(k)) /\ Lost(k).scopes = <<>> /\ ~Lost(k).sound
         /\ Lost(k).level = k.level /\ Lost(k).inTx = k.inTx /\ Lost(k).pdo = k.pdo
BY DEF Shape, Fields, Lost, Scope

(* begin() that throws: the count is up and the history is given up. *)
LEMMA BeginFailedLevel ==
  ASSUME NEW k, LevelInv(k)
  PROVE  LevelInv(BeginFailed(k))
<1>1. Shape(k)
  BY DEF LevelInv
<1> QED
  BY <1>1, LostLevel DEF LevelInv, Shape, Fields, BeginFailed

(* begin(): at level 1 the database begins, deeper it already has. *)
LEMMA BegunLevel ==
  ASSUME NEW k, LevelInv(k), NEW nesting \in BOOLEAN
  PROVE  LevelInv(Begun(k, nesting))
<1> DEFINE scope == [real |-> Real(k, k.level + 1, nesting), writes |-> {}]
           opened == ScopeOpened(k, nesting)
           up == [opened EXCEPT !.level = @ + 1]
<1>1. scope \in Scope
  BY DEF Scope, Real, LevelInv, Shape
<1>2. /\ Shape(opened) /\ opened.level = k.level /\ opened.inTx = k.inTx
      /\ opened.sound = k.sound /\ opened.pdo = k.pdo
      /\ k.sound => Len(opened.scopes) = k.level + 1
      /\ ~k.sound => opened.scopes = <<>>
  <2>1. CASE k.sound
    <3>1. opened = [k EXCEPT !.scopes = Append(@, scope)]
      BY <2>1 DEF ScopeOpened
    <3>2. /\ Append(k.scopes, scope) \in Seq(Scope)
          /\ Len(Append(k.scopes, scope)) = k.level + 1
      <4> HIDE DEF scope
      <4> QED
        BY <1>1, <2>1 DEF LevelInv, Shape
    <3>3. opened.scopes = Append(k.scopes, scope)
      BY <3>1 DEF LevelInv, Shape, Fields
    <3>4. /\ DOMAIN opened = Fields
          /\ \A x \in Fields \ {"scopes"} : opened[x] = k[x]
      BY <3>1 DEF LevelInv, Shape, Fields
    <3> HIDE DEF scope, opened
    <3> QED
      BY <2>1, <3>2, <3>3, <3>4 DEF LevelInv, Shape, Fields
  <2>2. CASE ~k.sound
    BY <2>2 DEF ScopeOpened, LevelInv
  <2> QED
    BY <2>1, <2>2 DEF LevelInv, Shape
<1>3. /\ Shape(up) /\ up.level = k.level + 1 /\ up.inTx = k.inTx
      /\ up.sound = k.sound
      /\ k.sound => Len(up.scopes) = k.level + 1
      /\ ~k.sound => up.scopes = <<>>
  <2> HIDE DEF opened
  <2> QED
    BY <1>2 DEF Shape, Fields, LevelInv
<1>4. CASE ~k.pdo
  BY <1>4 DEF Begun
<1>5. CASE k.pdo /\ k.level = 0
  <2>1. Begun(k, nesting) = DbBegin(up)
    BY <1>3, <1>5 DEF Begun
  <2> HIDE DEF up
  <2>2. /\ Shape(DbBegin(up)) /\ DbBegin(up).inTx
        /\ DbBegin(up).level = up.level /\ DbBegin(up).sound = up.sound
        /\ DbBegin(up).scopes = up.scopes
    BY <1>3 DEF DbBegin, Shape, Fields
  <2> QED
    <3>1. DbBegin(up).sound => Len(DbBegin(up).scopes) = DbBegin(up).level
      BY <1>3, <2>2
    <3>2. ~DbBegin(up).sound => DbBegin(up).scopes = <<>>
      BY <1>3, <2>2
    <3>3. DbBegin(up).level > 0
      BY <1>3, <1>5, <2>2
    <3> QED
      BY <2>1, <2>2, <3>1, <3>2, <3>3 DEF LevelInv
<1>6. CASE k.pdo /\ k.level # 0
  <2>1. LevelInv(up)
    <3> HIDE DEF up
    <3> QED
      BY <1>3, <1>6 DEF LevelInv, Shape
  <2>2. LevelInv(DbSavepoint(up, up.level))
    <3> HIDE DEF up
    <3>1. CASE ~up.inTx
      BY <2>1, <3>1 DEF DbSavepoint
    <3>2. CASE up.inTx
      BY <2>1, <3>2 DEF DbSavepoint, LevelInv, Shape, Fields
    <3> QED
      BY <3>1, <3>2
  <2>3. Begun(k, nesting) \in {up, DbSavepoint(up, up.level)}
    BY <1>3, <1>6 DEF Begun, LevelInv, Shape
  <2> QED
    BY <2>1, <2>2, <2>3
<1> QED
  BY <1>4, <1>5, <1>6 DEF LevelInv, Shape

(* The database's own operations leave the count and the history alone. *)
LEMMA EndedLevel ==
  ASSUME NEW k, Shape(k), NEW saved
  PROVE  /\ Shape(Ended(k, saved)) /\ ~Ended(k, saved).inTx
         /\ Ended(k, saved).level = k.level /\ Ended(k, saved).sound = k.sound
         /\ Ended(k, saved).scopes = k.scopes
BY DEF Shape, Fields, Ended

(* So do the ends of a savepoint. *)
LEMMA SavepointEndLevel ==
  ASSUME NEW k, LevelInv(k), NEW n
  PROVE  LevelInv(DbRelease(k, n)) /\ LevelInv(DbRollbackTo(k, n))
<1>1. LevelInv(DbRelease(k, n))
  BY DEF LevelInv, Shape, Fields, DbRelease
<1>2. LevelInv(DbRollbackTo(k, n))
  BY DEF LevelInv, Shape, Fields, DbRollbackTo
<1> QED
  BY <1>1, <1>2

(* close() and connect() keep the count and lose the transaction. *)
LEMMA PdoReplacedLevel ==
  ASSUME NEW k, LevelInv(k), NEW object \in BOOLEAN
  PROVE  LevelInv(PdoReplaced(k, object))
<1> DEFINE kept == IF k.level = 0 THEN k ELSE Lost(k)
           rolled == DbRollback(kept)
<1>1. Shape(k)
  BY DEF LevelInv
<1>2. /\ Shape(kept) /\ kept.level = k.level
      /\ kept.sound => k.level = 0 /\ kept.scopes = <<>>
      /\ ~kept.sound => kept.scopes = <<>>
  BY <1>1, LostLevel DEF LevelInv, Shape
<1>3. /\ Shape(rolled) /\ ~rolled.inTx /\ rolled.level = kept.level
      /\ rolled.sound = kept.sound /\ rolled.scopes = kept.scopes
  <2> HIDE DEF kept
  <2> QED
    BY <1>2, EndedLevel DEF DbRollback
<1>4. PdoReplaced(k, object) = [rolled EXCEPT !.pdo = object]
  BY DEF PdoReplaced
<1> HIDE DEF rolled, kept
<1> QED
  BY <1>1, <1>2, <1>3, <1>4 DEF LevelInv, Shape, Fields

(* The history starts again where nothing is open. *)
LEMMA SettledLevel ==
  ASSUME NEW k, LevelInv(k)
  PROVE  LevelInv(Settled(k))
<1>1. CASE k.sound \/ k.level # 0
  BY <1>1 DEF Settled
<1>2. CASE ~k.sound /\ k.level = 0
  <2> DEFINE new == [k EXCEPT !.sound = TRUE, !.kept = k.durable]
  <2>1. Settled(k) = new
    BY <1>2 DEF Settled
  <2>2. /\ Shape(new) /\ new.sound /\ new.level = 0 /\ new.inTx = k.inTx
        /\ new.scopes = <<>>
    BY <1>2 DEF LevelInv, Shape, Fields
  <2> HIDE DEF new
  <2> QED
    BY <1>2, <2>1, <2>2 DEF LevelInv
<1> QED
  BY <1>1, <1>2 DEF LevelInv, Shape

(* A scope with more writes is a scope. *)
LEMMA GrownScope ==
  ASSUME NEW s \in Scope, NEW w \in SUBSET Nat
  PROVE  [s EXCEPT !.writes = @ \cup w] \in Scope
BY DEF Scope

(* The last scope leaves, and the one around it grows. *)
LEMMA PassedLevel ==
  ASSUME NEW k, LevelInv(k), k.sound, k.level > 0, NEW w \in SUBSET Nat
  PROVE  /\ Shape(Passed(k, w)) /\ Passed(k, w).sound
         /\ Passed(k, w).level = k.level /\ Passed(k, w).inTx = k.inTx
         /\ Len(Passed(k, w).scopes) = k.level - 1
<1> DEFINE outer == Front(k.scopes)
           last == Len(outer)
           grown == [outer EXCEPT ![last].writes = @ \cup w]
<1>1. outer \in Seq(Scope) /\ last = k.level - 1
  BY DEF Front, LevelInv, Shape
<1>2. CASE outer = <<>>
  <2>1. Passed(k, w) = [k EXCEPT !.scopes = <<>>, !.kept = @ \cup w]
    BY <1>2 DEF Passed
  <2> QED
    BY <1>1, <1>2, <2>1 DEF LevelInv, Shape, Fields
<1>3. CASE outer # <<>>
  <2>1. Passed(k, w) = [k EXCEPT !.scopes = grown]
    BY <1>3 DEF Passed
  <2>2. grown \in Seq(Scope) /\ Len(grown) = last
    <3> HIDE DEF outer
    <3>1. last \in 1 .. Len(outer)
      BY <1>1, <1>3
    <3>2. [outer[last] EXCEPT !.writes = @ \cup w] \in Scope
      <4>1. outer[last] \in Scope
        BY <1>1, <3>1
      <4> QED
        BY <4>1, GrownScope
    <3> DEFINE scope == [outer[last] EXCEPT !.writes = @ \cup w]
    <3>3. grown = [outer EXCEPT ![last] = scope]
      OBVIOUS
    <3>4. [outer EXCEPT ![last] = scope] \in Seq(Scope)
      <4> HIDE DEF scope
      <4> QED
        BY <1>1, <3>1, <3>2 DEF scope
    <3>5. Len([outer EXCEPT ![last] = scope]) = last
      <4> HIDE DEF scope
      <4> QED
        BY <1>1
    <3> QED
      BY <3>3, <3>4, <3>5
  <2>3. /\ DOMAIN Passed(k, w) = Fields
        /\ Passed(k, w).scopes = grown
        /\ \A x \in Fields \ {"scopes"} : Passed(k, w)[x] = k[x]
    <3> HIDE DEF grown
    <3> QED
      BY <2>1 DEF LevelInv, Shape, Fields
  <2> HIDE DEF grown
  <2> QED
    BY <1>1, <2>2, <2>3 DEF LevelInv, Shape, Fields
<1> QED
  BY <1>2, <1>3

(* The end of a level leaves the history one shorter, or given up. *)
LEMMA ScopeEndedLevel ==
  ASSUME NEW k, LevelInv(k), k.level > 0,
         NEW nesting \in BOOLEAN, NEW commits \in BOOLEAN
  PROVE  LET se == ScopeEnded(k, nesting, commits)
         IN  /\ Shape(se) /\ se.level = k.level /\ se.inTx = k.inTx
             /\ se.sound => k.sound /\ Len(se.scopes) = k.level - 1
             /\ ~se.sound => se.scopes = <<>>
<1> DEFINE top == Last(k.scopes)
           w == IF commits \/ ~top.real THEN top.writes ELSE {}
           se == ScopeEnded(k, nesting, commits)
<1>1. CASE ~k.sound
  BY <1>1 DEF ScopeEnded, LevelInv
<1>2. CASE k.sound /\ se = Lost(k)
  <2>1. Shape(k)
    BY DEF LevelInv
  <2> QED
    BY <1>2, <2>1, LostLevel
<1>3. CASE k.sound /\ se = Passed(k, w)
  <2>1. top \in Scope
    BY <1>3 DEF Last, LevelInv, Shape
  <2>2. w \in SUBSET Nat
    BY <2>1 DEF Scope
  <2>3. /\ Shape(Passed(k, w)) /\ Passed(k, w).sound
        /\ Passed(k, w).level = k.level /\ Passed(k, w).inTx = k.inTx
        /\ Len(Passed(k, w).scopes) = k.level - 1
    <3> HIDE DEF w
    <3> QED
      BY <1>3, <2>2, PassedLevel
  <2> HIDE DEF w
  <2> QED
    BY <1>3, <2>3
<1> QED
  BY <1>1, <1>2, <1>3 DEF ScopeEnded, LevelInv, Shape

(* commit() and rollback() up to the point where the history may start     *)
(* again.                                                                  *)
EndsAs(k, nesting, commits) ==
  LET down == [ScopeEnded(k, nesting, commits) EXCEPT !.level = @ - 1]
      n == k.level
  IN  IF ~k.pdo \/ n = 0 THEN k
      ELSE IF ~Real(k, n, nesting) \/ EndThrows(k, nesting) THEN down
      ELSE IF n = 1 THEN IF commits THEN DbCommit(down) ELSE DbRollback(down)
      ELSE IF commits THEN DbRelease(down, n) ELSE DbRollbackTo(down, n)

(* The method is that and Settled.                                         *)
LEMMA EndedByIs ==
  ASSUME NEW k, NEW nesting, NEW commits
  PROVE  EndedBy(k, nesting, commits) = Settled(EndsAs(k, nesting, commits))
BY DEF EndedBy, EndsAs

(* The transaction ends with level 1, and a deeper level leaves it open    *)
(* for the level around it.                                                *)
LEMMA EndsAsLevel ==
  ASSUME NEW k, LevelInv(k), NEW nesting \in BOOLEAN, NEW commits \in BOOLEAN
  PROVE  LevelInv(EndsAs(k, nesting, commits))
<1> DEFINE se == ScopeEnded(k, nesting, commits)
           down == [se EXCEPT !.level = @ - 1]
           n == k.level
           ends == IF ~k.pdo \/ n = 0 THEN k
                   ELSE IF ~Real(k, n, nesting) \/ EndThrows(k, nesting) THEN down
                   ELSE IF n = 1 THEN IF commits THEN DbCommit(down) ELSE DbRollback(down)
                   ELSE IF commits THEN DbRelease(down, n) ELSE DbRollbackTo(down, n)
<1>1. EndsAs(k, nesting, commits) = ends
  BY DEF EndsAs
<1>2. k.level \in Nat /\ Shape(k)
  BY DEF LevelInv, Shape
<1>3. CASE ~k.pdo \/ n = 0
  BY <1>1, <1>3
<1>4. CASE k.pdo /\ n # 0
  <2>1. /\ Shape(se) /\ se.level = n /\ se.inTx = k.inTx
        /\ se.sound => k.sound /\ Len(se.scopes) = n - 1
        /\ ~se.sound => se.scopes = <<>>
    <3>1. k.level > 0
      BY <1>2, <1>4
    <3> QED
      BY <3>1, ScopeEndedLevel
  <2>2. /\ Shape(down) /\ down.level = n - 1 /\ down.inTx = k.inTx
        /\ down.sound => k.sound /\ Len(down.scopes) = n - 1
        /\ ~down.sound => down.scopes = <<>>
    <3> HIDE DEF se
    <3> QED
      BY <1>2, <1>4, <2>1 DEF Shape, Fields
  <2>3. n > 1 \/ ~k.inTx => LevelInv(down)
    <3> HIDE DEF down
    <3> QED
      BY <1>2, <1>4, <2>2 DEF LevelInv
  <2>4. CASE ~Real(k, n, nesting) \/ EndThrows(k, nesting)
    <3>1. ends = down
      BY <1>4, <2>4
    <3>2. n > 1 \/ ~k.inTx
      BY <1>2, <1>4, <2>4 DEF Real, EndThrows
    <3> QED
      BY <1>1, <2>3, <3>1, <3>2
  <2>5. CASE Real(k, n, nesting) /\ ~EndThrows(k, nesting) /\ n = 1
    <3> DEFINE saved == IF commits THEN Range(down.work) ELSE {}
    <3>1. ends = Ended(down, saved)
      BY <1>4, <2>5 DEF DbCommit, DbRollback
    <3>2. LevelInv(Ended(down, saved))
      <4> HIDE DEF down, saved
      <4>1. /\ Shape(Ended(down, saved)) /\ ~Ended(down, saved).inTx
            /\ Ended(down, saved).level = 0
            /\ Ended(down, saved).sound = down.sound
            /\ Ended(down, saved).scopes = down.scopes
        BY <2>2, <2>5, EndedLevel
      <4> QED
        BY <2>2, <2>5, <4>1 DEF LevelInv
    <3> QED
      BY <1>1, <3>1, <3>2
  <2>6. CASE Real(k, n, nesting) /\ ~EndThrows(k, nesting) /\ n # 1
    <3>1. ends \in {DbRelease(down, n), DbRollbackTo(down, n)}
      BY <1>4, <2>6
    <3>2. LevelInv(down)
      BY <1>2, <1>4, <2>3, <2>6
    <3>3. LevelInv(ends)
      <4> HIDE DEF down, ends
      <4> QED
        BY <3>1, <3>2, SavepointEndLevel
    <3> QED
      BY <1>1, <3>3
  <2> QED
    BY <2>4, <2>5, <2>6
<1> QED
  BY <1>3, <1>4

(* So with the history settled.                                            *)
LEMMA EndedByLevel ==
  ASSUME NEW k, LevelInv(k), NEW nesting \in BOOLEAN, NEW commits \in BOOLEAN
  PROVE  LevelInv(EndedBy(k, nesting, commits))
BY EndsAsLevel, SettledLevel, EndedByIs

(* execute(): a statement is noted in the innermost scope. *)
LEMMA WrittenLevel ==
  ASSUME NEW k, LevelInv(k), NEW w \in Nat
  PROVE  LevelInv(Written(k, w))
<1> DEFINE last == Len(k.scopes)
           noted == IF ~k.sound THEN k
                    ELSE IF last = 0 THEN [k EXCEPT !.kept = @ \cup {w}]
                    ELSE [k EXCEPT !.scopes[last].writes = @ \cup {w}]
<1>1. LevelInv(noted)
  <2>1. CASE ~k.sound
    BY <2>1
  <2>2. CASE k.sound /\ last = 0
    BY <2>2 DEF LevelInv, Shape, Fields
  <2>3. CASE k.sound /\ last # 0
    <3> DEFINE scope == [k.scopes[last] EXCEPT !.writes = @ \cup {w}]
               grown == [k.scopes EXCEPT ![last] = scope]
    <3>1. last \in 1 .. Len(k.scopes) /\ k.scopes \in Seq(Scope)
      BY <2>3 DEF LevelInv, Shape
    <3>2. scope \in Scope
      <4>1. k.scopes[last] \in Scope /\ {w} \in SUBSET Nat
        BY <3>1
      <4> QED
        BY <4>1, GrownScope
    <3>3. grown \in Seq(Scope) /\ Len(grown) = last
      <4> HIDE DEF scope
      <4> QED
        BY <3>1, <3>2
    <3>4. noted = [k EXCEPT !.scopes = grown]
      BY <2>3
    <3>5. /\ DOMAIN noted = Fields
          /\ noted.scopes = grown
          /\ \A x \in Fields \ {"scopes"} : noted[x] = k[x]
      <4> HIDE DEF grown, noted
      <4> QED
        BY <3>4 DEF LevelInv, Shape, Fields
    <3> HIDE DEF grown, noted
    <3> QED
      BY <2>3, <3>3, <3>5 DEF LevelInv, Shape, Fields
  <2> QED
    BY <2>1, <2>2, <2>3
<1>2. Written(k, w) \in {[noted EXCEPT !.work = Append(@, w)],
                         [noted EXCEPT !.durable = @ \cup {w}]}
  BY DEF Written
<1> HIDE DEF noted
<1> QED
  BY <1>1, <1>2 DEF LevelInv, Shape, Fields

-----------------------------------------------------------------------------
(***************************************************************************)
(* What a rollback undoes.                                                 *)
(***************************************************************************)

(* The first a writes of the transaction, and the writes the first n       *)
(* levels answer for.                                                      *)
Before(w, a) == {w[i] : i \in 1 .. a}
Upto(s, n) == UNION {s[m].writes : m \in 1 .. n}

(* Savepoints have different names, a later one was set after more writes, *)
(* and none after writes the transaction does not have.                    *)
PointsOrder(w, p) ==
  /\ \A i \in 1 .. Len(p) : p[i].at <= Len(w)
  /\ \A i, j \in 1 .. Len(p) : i < j => p[i].name # p[j].name /\ p[i].at <= p[j].at

(* Types, kept folded so that the provers see them only where they matter. *)
Stack(s) == s \in Seq(Scope)
PointsType(w, p) == w \in Seq(Nat) /\ p \in Seq([name : Nat, at : Nat])
PointsInv(w, p) == PointsType(w, p) /\ PointsOrder(w, p)

(* Level n is a savepoint of the database.                                 *)
Live(s, n) == n \in 2 .. Len(s) /\ s[n].real

(* The point at i holds what the levels around level n have written.       *)
Marks(s, w, p, n, i) ==
  i \in 1 .. Len(p) /\ p[i].name = n /\ Before(w, p[i].at) = Upto(s, n - 1)

(* The uncommitted writes are those of the open levels; every live level   *)
(* has a savepoint that marks where it began, and the savepoints of live   *)
(* levels are in the order of the levels, whatever stale ones are between. *)
ScopesInv(s, w, p) ==
  /\ Before(w, Len(w)) = Upto(s, Len(s))
  /\ \A n \in 2 .. Len(s) : s[n].real => \E i \in 1 .. Len(p) : Marks(s, w, p, n, i)
  /\ \A i, j \in 1 .. Len(p) :
       Live(s, p[i].name) /\ Live(s, p[j].name) /\ p[i].name < p[j].name => i < j

(* The inductive form of UndoesItsOwn.                                     *)
WorkInv(k) ==
  /\ PointsInv(k.work, k.points)
  /\ ~k.inTx => k.work = <<>>
  /\ k.sound => k.durable = k.kept /\ ScopesInv(k.scopes, k.work, k.points)

(* The first writes depend on the part of the sequence they speak of.      *)
LEMMA BeforeSame ==
  ASSUME NEW w, NEW v, NEW a, \A i \in 1 .. a : v[i] = w[i]
  PROVE  Before(v, a) = Before(w, a)
BY DEF Before

(* So do the writes of the levels.                                         *)
LEMMA UptoSame ==
  ASSUME NEW s, NEW r, NEW n, \A m \in 1 .. n : r[m].writes = s[m].writes
  PROVE  Upto(r, n) = Upto(s, n)
BY DEF Upto

(* The first writes start empty and grow by one.                           *)
LEMMA BeforeGrows ==
  ASSUME NEW w, NEW a \in Nat
  PROVE  Before(w, 0) = {} /\ Before(w, a + 1) = Before(w, a) \cup {w[a + 1]}
BY DEF Before

(* The writes of the levels start empty and grow by those of one level.    *)
LEMMA UptoGrows ==
  ASSUME NEW s, NEW n \in Nat
  PROVE  Upto(s, 0) = {} /\ Upto(s, n + 1) = Upto(s, n) \cup s[n + 1].writes
<1>1. Upto(s, 0) = {}
  BY DEF Upto
<1>2. 1 .. n + 1 = (1 .. n) \cup {n + 1}
  OBVIOUS
<1>3. {s[m].writes : m \in 1 .. n + 1} = {s[m].writes : m \in 1 .. n} \cup {s[n + 1].writes}
  BY <1>2
<1> QED
  BY <1>1, <1>3 DEF Upto

(* The range of the transaction's writes, and the writes of all levels.    *)
LEMMA WholeRanges ==
  ASSUME NEW w \in Seq(Nat), NEW s \in Seq(Scope)
  PROVE  /\ Range(w) = Before(w, Len(w))
         /\ UNION {x.writes : x \in Range(s)} = Upto(s, Len(s))
<1>1. Range(w) = Before(w, Len(w))
  BY DEF Range, Before
<1>2. {x.writes : x \in Range(s)} = {s[m].writes : m \in 1 .. Len(s)}
  BY DEF Range
<1> QED
  BY <1>1, <1>2 DEF Upto

(* The first j elements of a sequence.                                     *)
LEMMA CutIs ==
  ASSUME NEW S, NEW p \in Seq(S), NEW j \in 0 .. Len(p)
  PROVE  /\ SubSeq(p, 1, j) \in Seq(S) /\ Len(SubSeq(p, 1, j)) = j
         /\ \A i \in 1 .. j : SubSeq(p, 1, j)[i] = p[i]
<1>1. \A i \in 1 .. j : p[i] \in S
  OBVIOUS
<1>2. 1 \in Int /\ j \in Int /\ j - 1 + 1 = j
  OBVIOUS
<1>3. /\ SubSeq(p, 1, j) \in Seq(S)
      /\ Len(SubSeq(p, 1, j)) = IF 1 <= j THEN j - 1 + 1 ELSE 0
      /\ \A i \in 1 .. j - 1 + 1 : SubSeq(p, 1, j)[i] = p[1 + i - 1]
  BY <1>1, <1>2, SubSeqProperties
<1> QED
  BY <1>3

(* A sequence without its i-th element.                                    *)
LEMMA WithoutIs ==
  ASSUME NEW S, NEW p \in Seq(S), NEW i \in 1 .. Len(p)
  PROVE  /\ RemoveAt(p, i) \in Seq(S) /\ Len(RemoveAt(p, i)) = Len(p) - 1
         /\ \A j \in 1 .. Len(p) - 1 :
              RemoveAt(p, i)[j] = IF j < i THEN p[j] ELSE p[j + 1]
<1> DEFINE a == SubSeq(p, 1, i - 1)
           b == SubSeq(p, i + 1, Len(p))
           n == Len(p)
<1>0. n \in Nat /\ i \in Nat /\ 1 <= i /\ i <= n
  OBVIOUS
<1>1. /\ a \in Seq(S) /\ Len(a) = i - 1
      /\ \A j \in 1 .. i - 1 : a[j] = p[j]
  BY <1>0, CutIs
<1>2. \A j \in i + 1 .. n : p[j] \in S
  BY <1>0
<1>3. /\ b \in Seq(S)
      /\ Len(b) = IF i + 1 <= n THEN n - (i + 1) + 1 ELSE 0
      /\ \A j \in 1 .. n - (i + 1) + 1 : b[j] = p[i + 1 + j - 1]
  <2>1. i + 1 \in Int /\ n \in Int
    BY <1>0
  <2> QED
    BY <1>2, <2>1, SubSeqProperties
<1>4. RemoveAt(p, i) = a \o b
  BY DEF RemoveAt
<1> HIDE DEF a, b
<1>5. /\ a \o b \in Seq(S) /\ Len(a \o b) = Len(a) + Len(b)
      /\ \A j \in 1 .. Len(a) + Len(b) :
           (a \o b)[j] = IF j <= Len(a) THEN a[j] ELSE b[j - Len(a)]
  BY <1>1, <1>3, ConcatProperties
<1>6. Len(b) = n - i /\ Len(a) + Len(b) = n - 1
  BY <1>0, <1>1, <1>3
<1>7. ASSUME NEW j \in 1 .. n - 1
      PROVE  (a \o b)[j] = IF j < i THEN p[j] ELSE p[j + 1]
  <2>1. (a \o b)[j] = IF j <= i - 1 THEN a[j] ELSE b[j - (i - 1)]
    BY <1>1, <1>5, <1>6
  <2>2. CASE j < i
    BY <1>0, <1>1, <2>1, <2>2
  <2>3. CASE ~(j < i)
    <3>1. j - (i - 1) \in 1 .. n - (i + 1) + 1 /\ i + 1 + (j - (i - 1)) - 1 = j + 1
      BY <1>0, <2>3
    <3>2. b[j - (i - 1)] = p[j + 1]
      BY <1>3, <3>1
    <3> QED
      BY <1>0, <2>1, <2>3, <3>2
  <2> QED
    BY <2>2, <2>3
<1> QED
  BY <1>4, <1>5, <1>6, <1>7

(* The lengths are numbers, and a savepoint is a record of numbers.        *)
LEMMA PointTyped ==
  ASSUME NEW w, NEW p, PointsInv(w, p)
  PROVE  /\ Len(w) \in Nat /\ Len(p) \in Nat
         /\ \A i \in 1 .. Len(p) : p[i].name \in Nat /\ p[i].at \in 0 .. Len(w)
<1>1. Len(w) \in Nat /\ Len(p) \in Nat
  BY DEF PointsInv, PointsType
<1>2. \A i \in 1 .. Len(p) : p[i] \in [name : Nat, at : Nat]
  BY ElementOfSeq DEF PointsInv, PointsType
<1>3. \A i \in 1 .. Len(p) : p[i].at <= Len(w)
  BY DEF PointsInv, PointsOrder
<1> QED
  BY <1>1, <1>2, <1>3

(* Outside a transaction nothing is marked and nothing is uncommitted.     *)
LEMMA NothingOpen ==
  /\ PointsInv(<<>>, <<>>)
  /\ \A p : ScopesInv(<<>>, <<>>, p)
<1>1. PointsInv(<<>>, <<>>)
  BY DEF PointsInv, PointsType, PointsOrder
<1>2. Before(<<>>, 0) = {} /\ Upto(<<>>, 0) = {}
  BY BeforeGrows, UptoGrows
<1>3. \A n : ~Live(<<>>, n)
  BY DEF Live
<1>4. Len(<<>>) = 0 /\ 2 .. 0 = {}
  OBVIOUS
<1> QED
  BY <1>1, <1>2, <1>3, <1>4 DEF ScopesInv

(* A level the database does not know opens.                               *)
LEMMA LevelOpens ==
  ASSUME NEW s, Stack(s), NEW w, NEW p, ScopesInv(s, w, p),
         NEW c \in Scope, c.writes = {}, Len(s) = 0 \/ ~c.real
  PROVE  ScopesInv(Append(s, c), w, p)
<1> DEFINE r == Append(s, c)
<1>0. PICK n \in Nat : n = Len(s)
  BY DEF Stack
<1>1. Len(r) = n + 1 /\ r[n + 1] = c /\ \A m \in 1 .. n : r[m] = s[m]
  BY <1>0 DEF Stack
<1> HIDE DEF r
<1>2. \A m \in 0 .. n : Upto(r, m) = Upto(s, m)
  <2> SUFFICES ASSUME NEW m \in 0 .. n PROVE Upto(r, m) = Upto(s, m)
    OBVIOUS
  <2> QED
    BY <1>1, UptoSame
<1>3. Upto(r, n + 1) = Upto(s, n)
  <2>1. Upto(r, n + 1) = Upto(r, n) \cup c.writes
    BY <1>1, UptoGrows
  <2> QED
    BY <1>2, <2>1
<1>4. \A m : Live(r, m) <=> Live(s, m)
  BY <1>0, <1>1 DEF Live
<1>5. \A m \in 2 .. Len(r) : r[m].real => m \in 2 .. n /\ s[m].real
  BY <1>0, <1>1
<1>6. ASSUME NEW m \in 2 .. Len(r), r[m].real
      PROVE  \E i \in 1 .. Len(p) : Marks(r, w, p, m, i)
  <2>1. PICK i \in 1 .. Len(p) : Marks(s, w, p, m, i)
    BY <1>0, <1>5, <1>6 DEF ScopesInv
  <2>2. Upto(r, m - 1) = Upto(s, m - 1)
    BY <1>1, <1>2, <1>5, <1>6
  <2> QED
    BY <2>1, <2>2 DEF Marks
<1> QED
  BY <1>0, <1>1, <1>3, <1>4, <1>6 DEF ScopesInv, r

(* The savepoints after the one at j are gone.                             *)
LEMMA PointsCut ==
  ASSUME NEW w, NEW p, PointsInv(w, p), NEW j \in 0 .. Len(p)
  PROVE  PointsInv(w, SubSeq(p, 1, j))
<1> DEFINE q == SubSeq(p, 1, j)
<1>0. PointsType(w, q)
  BY CutIs DEF PointsInv, PointsType
<1>1. Len(q) = j /\ j <= Len(p) /\ \A i \in 1 .. j : q[i] = p[i]
  BY CutIs DEF PointsInv, PointsType
<1>2. Len(p) \in Nat
  BY DEF PointsInv, PointsType
<1> HIDE DEF q
<1>3. PointsOrder(w, q)
  BY <1>1, <1>2 DEF PointsInv, PointsOrder
<1> QED
  BY <1>0, <1>3 DEF PointsInv, q

(* That harms no level whose savepoint stays.                              *)
LEMMA ScopesCut ==
  ASSUME NEW s, NEW w, NEW p, PointsInv(w, p), ScopesInv(s, w, p),
         NEW j \in 0 .. Len(p),
         \A i \in 1 .. Len(p) : Live(s, p[i].name) => i <= j
  PROVE  ScopesInv(s, w, SubSeq(p, 1, j))
<1> DEFINE q == SubSeq(p, 1, j)
<1>1. Len(q) = j /\ j <= Len(p) /\ \A i \in 1 .. j : q[i] = p[i]
  BY CutIs DEF PointsInv, PointsType
<1> HIDE DEF q
<1>2. ASSUME NEW m \in 2 .. Len(s), s[m].real
      PROVE  \E i \in 1 .. Len(q) : Marks(s, w, q, m, i)
  <2>1. PICK i \in 1 .. Len(p) : Marks(s, w, p, m, i)
    BY <1>2 DEF ScopesInv
  <2>2. i \in 1 .. j
    BY <1>2, <2>1 DEF Marks, Live
  <2> QED
    BY <1>1, <2>1, <2>2 DEF Marks
<1>3. ASSUME NEW i \in 1 .. Len(q), NEW l \in 1 .. Len(q),
             Live(s, q[i].name), Live(s, q[l].name), q[i].name < q[l].name
      PROVE  i < l
  <2>1. i \in 1 .. Len(p) /\ l \in 1 .. Len(p) /\ q[i] = p[i] /\ q[l] = p[l]
    BY <1>1
  <2> QED
    BY <1>3, <2>1 DEF ScopesInv
<1> QED
  BY <1>2, <1>3 DEF ScopesInv, q

(* An older savepoint of the name is deleted; it is of no open level.      *)
LEMMA PointRemoved ==
  ASSUME NEW w, NEW p, PointsInv(w, p), NEW i \in 1 .. Len(p)
  PROVE  /\ PointsInv(w, RemoveAt(p, i))
         /\ \A j \in 1 .. Len(RemoveAt(p, i)) : RemoveAt(p, i)[j].name # p[i].name
         /\ \A s : ScopesInv(s, w, p) /\ ~Live(s, p[i].name)
                     => ScopesInv(s, w, RemoveAt(p, i))
<1> DEFINE q == RemoveAt(p, i)
           To(j) == IF j < i THEN j ELSE j + 1
<1>0. Len(p) \in Nat
  BY DEF PointsInv, PointsType
<1>a. PointsType(w, q)
  BY WithoutIs DEF PointsInv, PointsType
<1>b. /\ Len(q) = Len(p) - 1
      /\ \A j \in 1 .. Len(p) - 1 : q[j] = IF j < i THEN p[j] ELSE p[j + 1]
  BY WithoutIs DEF PointsInv, PointsType
<1>1. Len(q) = Len(p) - 1 /\ \A j \in 1 .. Len(q) : q[j] = p[To(j)]
  BY <1>b
<1> HIDE DEF q
<1>2. /\ \A j \in 1 .. Len(q) : To(j) \in 1 .. Len(p) /\ To(j) # i
      /\ \A j, l \in 1 .. Len(q) : j < l <=> To(j) < To(l)
  BY <1>0, <1>1
<1>3. \A j \in 1 .. Len(p) : j # i => \E l \in 1 .. Len(q) : To(l) = j
  <2> SUFFICES ASSUME NEW j \in 1 .. Len(p), j # i
               PROVE  \E l \in 1 .. Len(q) : To(l) = j
    OBVIOUS
  <2>1. CASE j < i
    <3>1. j \in 1 .. Len(q) /\ To(j) = j
      BY <1>0, <1>1, <2>1
    <3> QED
      BY <3>1
  <2>2. CASE j > i
    <3>1. j - 1 \in 1 .. Len(q) /\ To(j - 1) = j
      BY <1>0, <1>1, <2>2
    <3> QED
      BY <3>1
  <2> QED
    BY <1>0, <2>1, <2>2
<1> HIDE DEF To
<1>4. PointsInv(w, q)
  <2>1. \A j \in 1 .. Len(q) : q[j].at <= Len(w)
    BY <1>1, <1>2 DEF PointsInv, PointsOrder
  <2>2. \A j, l \in 1 .. Len(q) : j < l => q[j].name # q[l].name /\ q[j].at <= q[l].at
    BY <1>1, <1>2 DEF PointsInv, PointsOrder
  <2> QED
    BY <1>a, <2>1, <2>2 DEF PointsInv, PointsOrder
<1>5. \A j \in 1 .. Len(q) : q[j].name # p[i].name
  <2> SUFFICES ASSUME NEW j \in 1 .. Len(q) PROVE q[j].name # p[i].name
    OBVIOUS
  <2>1. To(j) \in 1 .. Len(p) /\ (To(j) < i \/ i < To(j))
    BY <1>0, <1>2
  <2> QED
    BY <1>1, <2>1 DEF PointsInv, PointsOrder
<1>6. ASSUME NEW s, ScopesInv(s, w, p), ~Live(s, p[i].name)
      PROVE  ScopesInv(s, w, q)
  <2>1. ASSUME NEW m \in 2 .. Len(s), s[m].real
        PROVE  \E l \in 1 .. Len(q) : Marks(s, w, q, m, l)
    <3>1. PICK j \in 1 .. Len(p) : Marks(s, w, p, m, j)
      BY <1>6, <2>1 DEF ScopesInv
    <3>2. j # i
      BY <1>6, <2>1, <3>1 DEF Marks, Live
    <3>3. PICK l \in 1 .. Len(q) : To(l) = j
      BY <1>3, <3>2
    <3> QED
      BY <1>1, <3>1, <3>3 DEF Marks
  <2>2. ASSUME NEW j \in 1 .. Len(q), NEW l \in 1 .. Len(q),
               Live(s, q[j].name), Live(s, q[l].name), q[j].name < q[l].name
        PROVE  j < l
    <3>1. To(j) \in 1 .. Len(p) /\ To(l) \in 1 .. Len(p) /\ q[j] = p[To(j)] /\ q[l] = p[To(l)]
      BY <1>1, <1>2
    <3>2. To(j) < To(l)
      BY <1>6, <2>2, <3>1 DEF ScopesInv
    <3> QED
      BY <1>2, <3>2
  <2> QED
    BY <1>6, <2>1, <2>2 DEF ScopesInv
<1> QED
  BY <1>4, <1>5, <1>6 DEF q

(* A savepoint is set for a level that opens.                              *)
LEMMA PointSet ==
  ASSUME NEW w, NEW p, PointsInv(w, p), NEW n \in Nat,
         \A i \in 1 .. Len(p) : p[i].name # n
  PROVE  LET q == Append(p, [name |-> n, at |-> Len(w)])
         IN  /\ PointsInv(w, q)
             /\ \A s, c :
                  Stack(s) /\ c \in Scope /\ ScopesInv(s, w, p) /\ n = Len(s) + 1 /\ c.writes = {}
                    => ScopesInv(Append(s, c), w, q)
<1> DEFINE pt == [name |-> n, at |-> Len(w)]
           q == Append(p, pt)
<1>0. PICK last \in Nat : last = Len(p) + 1
  BY DEF PointsInv, PointsType
<1>b. Len(p) \in Nat /\ Len(w) \in Nat
  BY DEF PointsInv, PointsType
<1>1. pt \in [name : Nat, at : Nat] /\ pt.name = n /\ pt.at = Len(w)
  BY <1>b
<1> HIDE DEF pt
<1>a. PointsType(w, q)
  BY <1>1 DEF PointsInv, PointsType
<1>2. Len(q) = last /\ q[last] = pt /\ \A i \in 1 .. Len(p) : q[i] = p[i]
  BY <1>0, <1>1 DEF PointsInv, PointsType
<1> HIDE DEF q
<1>3. PointsInv(w, q)
  <2>1. \A i \in 1 .. Len(q) : q[i].at <= Len(w)
    BY <1>0, <1>b, <1>1, <1>2 DEF PointsInv, PointsOrder
  <2>2. \A i, j \in 1 .. Len(q) : i < j => q[i].name # q[j].name /\ q[i].at <= q[j].at
    <3> SUFFICES ASSUME NEW i \in 1 .. Len(q), NEW j \in 1 .. Len(q), i < j
                 PROVE  q[i].name # q[j].name /\ q[i].at <= q[j].at
      OBVIOUS
    <3>1. i \in 1 .. Len(p) /\ q[i] = p[i]
      BY <1>0, <1>b, <1>2
    <3>2. CASE j = last
      BY <1>1, <1>2, <3>1, <3>2 DEF PointsInv, PointsOrder
    <3>3. CASE j \in 1 .. Len(p)
      BY <1>2, <3>1, <3>3 DEF PointsInv, PointsOrder
    <3> QED
      BY <1>0, <1>b, <1>2, <3>2, <3>3
  <2> QED
    BY <1>a, <2>1, <2>2 DEF PointsInv, PointsOrder
<1>4. ASSUME NEW s, NEW c, Stack(s), c \in Scope,
             ScopesInv(s, w, p), n = Len(s) + 1, c.writes = {}
      PROVE  ScopesInv(Append(s, c), w, q)
  <2> DEFINE r == Append(s, c)
  <2>1. Len(s) \in Nat /\ Len(r) = n /\ r[n] = c /\ \A m \in 1 .. Len(s) : r[m] = s[m]
    BY <1>4 DEF Stack
  <2> HIDE DEF r
  <2>2. \A m \in 0 .. Len(s) : Upto(r, m) = Upto(s, m)
    <3> SUFFICES ASSUME NEW m \in 0 .. Len(s) PROVE Upto(r, m) = Upto(s, m)
      OBVIOUS
    <3> QED
      BY <2>1, UptoSame
  <2>3. Upto(r, n) = Upto(s, Len(s))
    <3>1. Upto(r, Len(s) + 1) = Upto(r, Len(s)) \cup c.writes
      BY <1>4, <2>1, UptoGrows
    <3>2. Len(s) \in 0 .. Len(s)
      BY <2>1
    <3> QED
      BY <1>4, <2>2, <3>1, <3>2
  <2>4. ASSUME NEW m \in 2 .. Len(r), r[m].real
        PROVE  \E i \in 1 .. Len(q) : Marks(r, w, q, m, i)
    <3>1. CASE m = n
      <4>1. Before(w, q[last].at) = Upto(r, n - 1)
        <5>1. n - 1 = Len(s) /\ Len(s) \in 0 .. Len(s)
          BY <1>4, <2>1
        <5> QED
          BY <1>1, <1>2, <1>4, <2>2, <5>1 DEF ScopesInv
      <4> QED
        BY <1>0, <1>b, <1>1, <1>2, <3>1, <4>1 DEF Marks
    <3>2. CASE m \in 2 .. Len(s)
      <4>1. PICK i \in 1 .. Len(p) : Marks(s, w, p, m, i)
        BY <1>4, <2>1, <2>4, <3>2 DEF ScopesInv
      <4>2. Upto(r, m - 1) = Upto(s, m - 1)
        BY <2>1, <2>2, <3>2
      <4> QED
        BY <1>0, <1>b, <1>2, <4>1, <4>2 DEF Marks
    <3> QED
      BY <1>4, <2>1, <3>1, <3>2
  <2>5. ASSUME NEW i \in 1 .. Len(q), NEW j \in 1 .. Len(q),
               Live(r, q[i].name), Live(r, q[j].name), q[i].name < q[j].name
        PROVE  i < j
    <3>1. i # last
      BY <1>1, <1>2, <1>4, <2>1, <2>5 DEF Live
    <3>2. i \in 1 .. Len(p) /\ q[i] = p[i]
      BY <1>0, <1>b, <1>2, <3>1
    <3>3. CASE j = last
      BY <1>0, <1>b, <3>2, <3>3
    <3>4. CASE j \in 1 .. Len(p)
      <4>1. q[j] = p[j] /\ p[i].name # n /\ p[j].name # n
        BY <1>2, <3>2, <3>4
      <4>2. Live(s, p[i].name) /\ Live(s, p[j].name)
        <5>1. ASSUME NEW m, Live(r, m), m # n PROVE Live(s, m)
          BY <1>4, <2>1, <5>1 DEF Live
        <5> QED
          BY <2>5, <3>2, <4>1, <5>1
      <4> QED
        BY <1>4, <2>5, <3>2, <3>4, <4>1, <4>2 DEF ScopesInv
    <3> QED
      BY <1>0, <1>b, <1>2, <3>3, <3>4
  <2> QED
    BY <1>4, <2>1, <2>3, <2>4, <2>5 DEF ScopesInv, r
<1> QED
  BY <1>3, <1>4 DEF q, pt

(* A write of the innermost level.                                         *)
LEMMA WorkGrows ==
  ASSUME NEW w, NEW p, PointsInv(w, p), NEW x \in Nat
  PROVE  /\ PointsInv(Append(w, x), p)
         /\ \A s, r : /\ Stack(s) /\ ScopesInv(s, w, p) /\ Len(s) > 0 /\ Len(r) = Len(s)
                      /\ \A m \in 1 .. Len(s) - 1 : r[m] = s[m]
                      /\ r[Len(s)].real = s[Len(s)].real
                      /\ r[Len(s)].writes = s[Len(s)].writes \cup {x}
                      => ScopesInv(r, Append(w, x), p)
<1> DEFINE v == Append(w, x)
<1>0. PointsType(v, p)
  BY DEF PointsInv, PointsType
<1>1. PICK a \in Nat : a = Len(w) /\ Len(v) = a + 1 /\ v[a + 1] = x /\ \A i \in 1 .. a : v[i] = w[i]
  BY DEF PointsInv, PointsType
<1>2. \A i \in 1 .. Len(p) : p[i].at \in Nat /\ p[i].at <= a
  BY <1>1, PointTyped
<1> HIDE DEF v
<1>3. PointsInv(v, p)
  BY <1>0, <1>1, <1>2 DEF PointsInv, PointsOrder
<1>4. \A b \in 0 .. a : Before(v, b) = Before(w, b)
  <2> SUFFICES ASSUME NEW b \in 0 .. a PROVE Before(v, b) = Before(w, b)
    OBVIOUS
  <2> QED
    BY <1>1, BeforeSame
<1>5. Before(v, a + 1) = Before(w, a) \cup {x}
  <2>1. Before(v, a + 1) = Before(v, a) \cup {v[a + 1]}
    BY BeforeGrows
  <2> QED
    BY <1>1, <1>4, <2>1
<1>6. ASSUME NEW s, NEW r, Stack(s), ScopesInv(s, w, p), Len(s) > 0, Len(r) = Len(s),
             \A m \in 1 .. Len(s) - 1 : r[m] = s[m],
             r[Len(s)].real = s[Len(s)].real,
             r[Len(s)].writes = s[Len(s)].writes \cup {x}
      PROVE  ScopesInv(r, v, p)
  <2>1. PICK n \in Nat : Len(s) = n + 1
    <3>1. Len(s) \in Nat
      BY <1>6 DEF Stack
    <3>2. Len(s) - 1 \in Nat /\ Len(s) = (Len(s) - 1) + 1
      BY <1>6, <3>1
    <3> QED
      BY <3>2
  <2>2. \A m \in 0 .. n : Upto(r, m) = Upto(s, m)
    <3> SUFFICES ASSUME NEW m \in 0 .. n PROVE Upto(r, m) = Upto(s, m)
      OBVIOUS
    <3>1. \A l \in 1 .. m : r[l] = s[l]
      BY <1>6, <2>1
    <3> QED
      BY <3>1, UptoSame
  <2>3. Upto(r, n + 1) = Upto(s, n + 1) \cup {x}
    <3>1. /\ Upto(r, n + 1) = Upto(r, n) \cup r[n + 1].writes
          /\ Upto(s, n + 1) = Upto(s, n) \cup s[n + 1].writes
      BY UptoGrows
    <3> QED
      BY <1>6, <2>1, <2>2, <3>1
  <2>4. \A m : Live(r, m) <=> Live(s, m)
    BY <1>6, <2>1 DEF Live
  <2>5. ASSUME NEW m \in 2 .. Len(r), r[m].real
        PROVE  \E i \in 1 .. Len(p) : Marks(r, v, p, m, i)
    <3>1. m \in 2 .. Len(s) /\ s[m].real
      BY <1>6, <2>1, <2>5
    <3>2. PICK i \in 1 .. Len(p) : Marks(s, w, p, m, i)
      BY <1>6, <3>1 DEF ScopesInv
    <3>3. Upto(r, m - 1) = Upto(s, m - 1)
      BY <2>1, <2>2, <3>1
    <3>4. Before(v, p[i].at) = Before(w, p[i].at)
      BY <1>2, <1>4
    <3> QED
      BY <3>2, <3>3, <3>4 DEF Marks
  <2>6. Before(v, Len(v)) = Upto(r, Len(r))
    BY <1>1, <1>5, <1>6, <2>1, <2>3 DEF ScopesInv
  <2> QED
    BY <1>6, <2>4, <2>5, <2>6 DEF ScopesInv
<1> QED
  BY <1>3, <1>6 DEF v

(* The innermost of several levels ends, and its writes pass to the one    *)
(* around it.                                                              *)
LEMMA WritesPass ==
  ASSUME NEW s, Stack(s), NEW w, NEW p, ScopesInv(s, w, p), NEW r, NEW n \in Nat,
         n > 0, Len(s) = n + 1, Len(r) = n,
         \A m \in 1 .. n - 1 : r[m] = s[m],
         r[n].real = s[n].real,
         r[n].writes = s[n].writes \cup s[n + 1].writes
  PROVE  ScopesInv(r, w, p)
<1>1. \A m \in 0 .. n - 1 : Upto(r, m) = Upto(s, m)
  <2> SUFFICES ASSUME NEW m \in 0 .. n - 1 PROVE Upto(r, m) = Upto(s, m)
    OBVIOUS
  <2> QED
    BY UptoSame
<1>2. Upto(r, n) = Upto(s, n + 1)
  <2>1. PICK l \in Nat : n = l + 1
    BY n - 1 \in Nat, n = (n - 1) + 1
  <2>2. /\ Upto(r, l + 1) = Upto(r, l) \cup r[l + 1].writes
        /\ Upto(s, l + 1) = Upto(s, l) \cup s[l + 1].writes
    BY UptoGrows
  <2>3. Upto(s, n + 1) = Upto(s, n) \cup s[n + 1].writes
    BY UptoGrows
  <2>4. Upto(r, l) = Upto(s, l)
    BY <1>1, <2>1
  <2> QED
    BY <2>1, <2>2, <2>3, <2>4
<1>3. \A m : Live(r, m) => Live(s, m)
  BY DEF Live
<1>4. ASSUME NEW m \in 2 .. Len(r), r[m].real
      PROVE  \E i \in 1 .. Len(p) : Marks(r, w, p, m, i)
  <2>1. m \in 2 .. Len(s) /\ s[m].real
    BY <1>4
  <2>2. PICK i \in 1 .. Len(p) : Marks(s, w, p, m, i)
    BY <2>1 DEF ScopesInv
  <2>3. Upto(r, m - 1) = Upto(s, m - 1)
    BY <1>1, <1>4
  <2> QED
    BY <2>2, <2>3 DEF Marks
<1> QED
  BY <1>2, <1>3, <1>4 DEF ScopesInv

(* The savepoint of the innermost level: there is one, under its name, and *)
(* the savepoints of the levels around it are before it.                   *)
LEMMA InnermostMarked ==
  ASSUME NEW s, NEW w, NEW p, PointsInv(w, p), ScopesInv(s, w, p), NEW n, Live(s, n)
  PROVE  /\ \E i \in 1 .. Len(p) : p[i].name = n
         /\ \A i \in 1 .. Len(p) : p[i].name = n =>
              /\ Marks(s, w, p, n, i)
              /\ \A j \in 1 .. Len(p) : Live(s, p[j].name) /\ p[j].name < n => j <= i - 1
<1>1. PICK l \in 1 .. Len(p) : Marks(s, w, p, n, l)
  BY DEF ScopesInv, Live
<1>2. ASSUME NEW i \in 1 .. Len(p), p[i].name = n PROVE i = l
  <2>1. ~(i < l) /\ ~(l < i)
    BY <1>1, <1>2 DEF PointsInv, PointsOrder, Marks
  <2>2. Len(p) \in Nat
    BY DEF PointsInv, PointsType
  <2> QED
    BY <2>1, <2>2
<1>3. ASSUME NEW j \in 1 .. Len(p), Live(s, p[j].name), p[j].name < n PROVE j <= l - 1
  <2>1. j < l
    BY <1>1, <1>3 DEF ScopesInv, Marks
  <2>2. Len(p) \in Nat
    BY DEF PointsInv, PointsType
  <2> QED
    BY <2>1, <2>2
<1> QED
  BY <1>1, <1>2, <1>3 DEF Marks

(* ROLLBACK TO the savepoint of the innermost level: what is left is what  *)
(* the levels around it have written.                                      *)
LEMMA WorkUndone ==
  ASSUME NEW w, NEW p, PointsInv(w, p), NEW i \in 1 .. Len(p)
  PROVE  LET v == SubSeq(w, 1, p[i].at)
             q == SubSeq(p, 1, i)
         IN  /\ PointsInv(v, q)
             /\ \A s, r, n :
                  /\ Stack(s) /\ ScopesInv(s, w, p) /\ n \in Nat /\ n > 0
                  /\ Len(s) = n + 1 /\ Len(r) = n /\ Live(s, n + 1) /\ p[i].name = n + 1
                  /\ \A m \in 1 .. n : r[m].real = s[m].real /\ r[m].writes = s[m].writes
                  => ScopesInv(r, v, q)
<1> DEFINE v == SubSeq(w, 1, p[i].at)
           q == SubSeq(p, 1, i)
<1>1. Len(p) \in Nat /\ Len(w) \in Nat /\ i \in 0 .. Len(p)
  BY PointTyped
<1>2. PICK a \in Nat : a = p[i].at /\ a \in 0 .. Len(w)
  BY <1>1, PointTyped
<1>3. PointsType(v, q)
  BY <1>1, <1>2, CutIs DEF PointsInv, PointsType
<1>4. Len(v) = a /\ \A j \in 1 .. a : v[j] = w[j]
  BY <1>2, CutIs DEF PointsInv, PointsType
<1>5. Len(q) = i /\ \A j \in 1 .. i : q[j] = p[j]
  BY <1>1, CutIs DEF PointsInv, PointsType
<1> HIDE DEF v, q
<1>6. \A j \in 1 .. i : p[j].at \in Nat /\ p[j].at <= a
  <2> SUFFICES ASSUME NEW j \in 1 .. i PROVE p[j].at \in Nat /\ p[j].at <= a
    OBVIOUS
  <2>1. j \in 1 .. Len(p)
    BY <1>1
  <2>2. p[j].at \in Nat
    BY <2>1, PointTyped
  <2>3. j < i => p[j].at <= a
    BY <1>2, <2>1 DEF PointsInv, PointsOrder
  <2> QED
    BY <1>1, <1>2, <2>2, <2>3
<1>7. PointsOrder(v, q)
  BY <1>1, <1>4, <1>5, <1>6 DEF PointsInv, PointsOrder
<1>8. \A b \in 0 .. a : Before(v, b) = Before(w, b)
  <2> SUFFICES ASSUME NEW b \in 0 .. a PROVE Before(v, b) = Before(w, b)
    OBVIOUS
  <2> QED
    BY <1>4, BeforeSame
<1>9. ASSUME NEW s, NEW r, NEW n \in Nat, Stack(s), ScopesInv(s, w, p), n > 0,
             Len(s) = n + 1, Len(r) = n, Live(s, n + 1), p[i].name = n + 1,
             \A m \in 1 .. n : r[m].real = s[m].real /\ r[m].writes = s[m].writes
      PROVE  ScopesInv(r, v, q)
  <2>1. \A m \in 0 .. n : Upto(r, m) = Upto(s, m)
    <3> SUFFICES ASSUME NEW m \in 0 .. n PROVE Upto(r, m) = Upto(s, m)
      OBVIOUS
    <3> QED
      BY <1>9, UptoSame
  <2>2. /\ Marks(s, w, p, n + 1, i)
        /\ \A j \in 1 .. Len(p) : Live(s, p[j].name) /\ p[j].name < n + 1 => j <= i - 1
    BY <1>9, InnermostMarked
  <2>3. Before(v, Len(v)) = Upto(r, Len(r))
    <3>1. Before(w, a) = Upto(s, n + 1 - 1) /\ n + 1 - 1 = n
      BY <1>2, <2>2 DEF Marks
    <3>2. a \in 0 .. a /\ n \in 0 .. n
      OBVIOUS
    <3> QED
      BY <1>4, <1>8, <1>9, <2>1, <3>1, <3>2
  <2>4. \A m : Live(r, m) => Live(s, m) /\ m < n + 1
    BY <1>9 DEF Live
  <2>5. ASSUME NEW m \in 2 .. Len(r), r[m].real
        PROVE  \E j \in 1 .. Len(q) : Marks(r, v, q, m, j)
    <3>1. m \in 2 .. Len(s) /\ s[m].real /\ Live(s, m) /\ m < n + 1
      BY <1>9, <2>5 DEF Live
    <3>2. PICK j \in 1 .. Len(p) : Marks(s, w, p, m, j)
      BY <1>9, <3>1 DEF ScopesInv
    <3>3. j \in 1 .. i
      <4>1. j <= i - 1
        BY <2>2, <3>1, <3>2 DEF Marks
      <4> QED
        BY <1>1, <4>1
    <3>4. Upto(r, m - 1) = Upto(s, m - 1)
      BY <2>1, <3>1
    <3>5. Before(v, p[j].at) = Before(w, p[j].at)
      BY <1>6, <1>8, <3>3
    <3> QED
      BY <1>5, <3>2, <3>3, <3>4, <3>5 DEF Marks
  <2>6. ASSUME NEW j \in 1 .. Len(q), NEW l \in 1 .. Len(q),
               Live(r, q[j].name), Live(r, q[l].name), q[j].name < q[l].name
        PROVE  j < l
    <3>1. j \in 1 .. Len(p) /\ l \in 1 .. Len(p) /\ q[j] = p[j] /\ q[l] = p[l]
      BY <1>1, <1>5
    <3> QED
      BY <1>9, <2>4, <2>6, <3>1 DEF ScopesInv
  <2> QED
    BY <2>3, <2>5, <2>6 DEF ScopesInv
<1> QED
  BY <1>3, <1>7, <1>9 DEF PointsInv, v, q

-----------------------------------------------------------------------------
(* The methods of the adapter keep WorkInv.                                *)

(* A fresh connection.                                                     *)
LEMMA ConnectedWork == WorkInv(Connected)
<1>1. /\ Connected.work = <<>> /\ Connected.points = <<>> /\ Connected.scopes = <<>>
      /\ Connected.durable = Connected.kept
  BY DEF Connected
<1> QED
  BY <1>1, NothingOpen DEF WorkInv

(* begin() that throws gives up the history.                               *)
LEMMA BeginFailedWork ==
  ASSUME NEW k, LevelInv(k), WorkInv(k)
  PROVE  WorkInv(BeginFailed(k))
<1> DEFINE f == BeginFailed(k)
<1>1. /\ ~f.sound /\ f.work = k.work /\ f.points = k.points /\ f.inTx = k.inTx
  BY DEF BeginFailed, Lost, LevelInv, Shape, Fields
<1> HIDE DEF f
<1> QED
  BY <1>1 DEF WorkInv, f

(* The history starts again where the database has no transaction.         *)
LEMMA SettledWork ==
  ASSUME NEW k, LevelInv(k), WorkInv(k)
  PROVE  WorkInv(Settled(k))
<1>1. CASE k.sound \/ k.level # 0
  BY <1>1 DEF Settled
<1>2. CASE ~k.sound /\ k.level = 0
  <2> DEFINE new == [k EXCEPT !.sound = TRUE, !.kept = k.durable]
  <2>1. Settled(k) = new
    BY <1>2 DEF Settled
  <2>2. /\ new.sound /\ new.durable = new.kept /\ new.work = k.work
        /\ new.points = k.points /\ new.inTx = k.inTx /\ new.scopes = k.scopes
    BY DEF LevelInv, Shape, Fields
  <2>3. k.scopes = <<>> /\ k.work = <<>> /\ ~k.inTx
    BY <1>2 DEF LevelInv, WorkInv
  <2> HIDE DEF new
  <2> QED
    BY <2>1, <2>2, <2>3, NothingOpen DEF WorkInv
<1> QED
  BY <1>1, <1>2

(* close() and connect().                                                  *)
LEMMA PdoReplacedWork ==
  ASSUME NEW k, LevelInv(k), WorkInv(k), NEW object \in BOOLEAN
  PROVE  WorkInv(PdoReplaced(k, object))
<1> DEFINE kept == IF k.level = 0 THEN k ELSE Lost(k)
           new == [DbRollback(kept) EXCEPT !.pdo = object]
<1>1. /\ DOMAIN kept = Fields /\ kept.durable = k.durable
      /\ kept.sound => k.sound /\ k.level = 0 /\ kept = k
  BY DEF LevelInv, Shape, Fields, Lost
<1> HIDE DEF kept
<1>2. /\ new.work = <<>> /\ new.points = <<>> /\ new.durable = kept.durable \cup {}
      /\ new.sound = kept.sound /\ new.kept = kept.kept /\ new.scopes = kept.scopes
  BY <1>1 DEF DbRollback, Ended, Fields
<1>3. kept.sound => new.scopes = <<>> /\ new.durable = new.kept
  BY <1>1, <1>2 DEF LevelInv, Shape, WorkInv
<1>4. PdoReplaced(k, object) = new
  BY DEF PdoReplaced, kept
<1> HIDE DEF new
<1> QED
  BY <1>2, <1>3, <1>4, NothingOpen DEF WorkInv

(* SAVEPOINT of the name of a level that opens.                            *)
LEMMA SavepointWork ==
  ASSUME NEW k, DOMAIN k = Fields, PointsInv(k.work, k.points), k.inTx, NEW n \in Nat
  PROVE  LET d == DbSavepoint(k, n)
         IN  /\ DOMAIN d = Fields /\ \A x \in Fields \ {"points"} : d[x] = k[x]
             /\ PointsInv(k.work, d.points)
             /\ \A s, c :
                  /\ Stack(s) /\ c \in Scope /\ ScopesInv(s, k.work, k.points)
                  /\ n = Len(s) + 1 /\ c.writes = {}
                  => ScopesInv(Append(s, c), k.work, d.points)
<1> DEFINE p == k.points
           w == k.work
           d == DbSavepoint(k, n)
           o == IF Named(k, n) = {} THEN p ELSE RemoveAt(p, IndexOf(k, n))
           pt == [name |-> n, at |-> Len(w)]
<1>1. Named(k, n) = {i \in 1 .. Len(p) : p[i].name = n}
  BY DEF Named, PointsInv, PointsType
<1>2. d = [k EXCEPT !.points = Append(o, pt)]
  BY DEF DbSavepoint
<1>3. /\ DOMAIN d = Fields /\ \A x \in Fields \ {"points"} : d[x] = k[x]
      /\ d.points = Append(o, pt)
  <2> HIDE DEF o, pt, d
  <2> QED
    BY <1>2 DEF Fields
<1>4. /\ PointsInv(w, o) /\ \A i \in 1 .. Len(o) : o[i].name # n
      /\ \A s : ScopesInv(s, w, p) /\ ~Live(s, n) => ScopesInv(s, w, o)
  <2>1. CASE Named(k, n) = {}
    BY <1>1, <2>1
  <2>2. CASE Named(k, n) # {}
    <3>1. IndexOf(k, n) \in Named(k, n)
      BY <2>2 DEF IndexOf
    <3>2. IndexOf(k, n) \in 1 .. Len(p) /\ p[IndexOf(k, n)].name = n
      BY <1>1, <3>1
    <3>3. o = RemoveAt(p, IndexOf(k, n))
      BY <2>2
    <3> HIDE DEF o
    <3> QED
      BY <3>2, <3>3, PointRemoved
  <2> QED
    BY <2>1, <2>2
<1> HIDE DEF o
<1>5. /\ PointsInv(w, Append(o, pt))
      /\ \A s, c : /\ Stack(s) /\ c \in Scope /\ ScopesInv(s, w, o)
                   /\ n = Len(s) + 1 /\ c.writes = {}
                   => ScopesInv(Append(s, c), w, Append(o, pt))
  BY <1>4, PointSet
<1>6. ASSUME NEW s, Stack(s), n = Len(s) + 1 PROVE ~Live(s, n)
  <2>1. Len(s) \in Nat
    BY <1>6 DEF Stack
  <2> QED
    BY <1>6, <2>1 DEF Live
<1> HIDE DEF pt, d
<1> QED
  BY <1>3, <1>4, <1>5, <1>6 DEF d

(* begin(): a savepoint, the transaction, or only the count.               *)
LEMMA BegunWork ==
  ASSUME NEW k, LevelInv(k), WorkInv(k), NEW nesting \in BOOLEAN
  PROVE  WorkInv(Begun(k, nesting))
<1> DEFINE n == k.level + 1
           c == [real |-> Real(k, n, nesting), writes |-> {}]
           opened == ScopeOpened(k, nesting)
           up == [opened EXCEPT !.level = @ + 1]
           b == Begun(k, nesting)
<1>0. /\ c \in Scope /\ c.writes = {} /\ c.real = Real(k, n, nesting)
      /\ k.level \in Nat /\ DOMAIN k = Fields
      /\ k.sound => Stack(k.scopes) /\ Len(k.scopes) = k.level
  BY DEF Scope, Real, LevelInv, Shape, Stack
<1>1. /\ DOMAIN opened = Fields /\ \A x \in Fields \ {"scopes"} : opened[x] = k[x]
      /\ k.sound => opened.scopes = Append(k.scopes, c)
  <2>1. opened = IF k.sound THEN [k EXCEPT !.scopes = Append(@, c)] ELSE k
    BY DEF ScopeOpened
  <2> HIDE DEF c, opened
  <2> QED
    BY <1>0, <2>1 DEF Fields
<1> HIDE DEF opened, c
<1>2. /\ DOMAIN up = Fields /\ \A x \in Fields \ {"scopes", "level"} : up[x] = k[x]
      /\ k.sound => up.scopes = Append(k.scopes, c)
      /\ up.level = n
  BY <1>0, <1>1 DEF Fields
<1>3. b = IF ~k.pdo THEN k
          ELSE IF up.level = 1 THEN DbBegin(up)
          ELSE IF Real(k, up.level, nesting) THEN DbSavepoint(up, up.level)
          ELSE up
  BY DEF Begun, opened
<1> HIDE DEF up, b
<1>4. /\ up.work = k.work /\ up.points = k.points /\ up.inTx = k.inTx
      /\ up.sound = k.sound /\ up.durable = k.durable /\ up.kept = k.kept
  BY <1>2 DEF Fields
<1>5. CASE ~k.pdo
  BY <1>3, <1>5 DEF b
<1>6. CASE k.pdo /\ k.level = 0
  <2>1. b = DbBegin(up)
    BY <1>0, <1>2, <1>3, <1>6
  <2>2. /\ b.work = k.work /\ b.points = k.points /\ b.inTx /\ b.sound = k.sound
        /\ b.durable = k.durable /\ b.kept = k.kept /\ b.scopes = up.scopes
    BY <1>2, <1>4, <2>1 DEF DbBegin, Fields
  <2>3. k.sound => ScopesInv(up.scopes, k.work, k.points)
    <3> SUFFICES ASSUME k.sound PROVE ScopesInv(up.scopes, k.work, k.points)
      OBVIOUS
    <3>1. Stack(k.scopes) /\ ScopesInv(k.scopes, k.work, k.points)
      BY <1>0 DEF WorkInv
    <3>2. Len(k.scopes) = 0 \/ ~c.real
      BY <1>0, <1>6
    <3>3. up.scopes = Append(k.scopes, c)
      BY <1>2
    <3> QED
      BY <1>0, <3>1, <3>2, <3>3, LevelOpens
  <2> QED
    BY <2>2, <2>3 DEF WorkInv, b
<1>7. CASE k.pdo /\ k.level # 0 /\ ~Real(k, n, nesting)
  <2>1. b = up
    BY <1>0, <1>2, <1>3, <1>7
  <2>2. k.sound => ScopesInv(up.scopes, k.work, k.points)
    <3> SUFFICES ASSUME k.sound PROVE ScopesInv(up.scopes, k.work, k.points)
      OBVIOUS
    <3>1. Stack(k.scopes) /\ ScopesInv(k.scopes, k.work, k.points)
      BY <1>0 DEF WorkInv
    <3>2. Len(k.scopes) = 0 \/ ~c.real
      BY <1>0, <1>7
    <3>3. up.scopes = Append(k.scopes, c)
      BY <1>2
    <3> QED
      BY <1>0, <3>1, <3>2, <3>3, LevelOpens
  <2> QED
    BY <1>4, <2>1, <2>2 DEF WorkInv, b
<1>9. CASE k.pdo /\ k.level # 0 /\ Real(k, n, nesting) /\ ~k.inTx
  <2>1. b = up
    BY <1>0, <1>2, <1>3, <1>4, <1>9 DEF DbSavepoint
  <2>2. ~k.sound
    BY <1>0, <1>9 DEF LevelInv
  <2> QED
    BY <1>4, <2>1, <2>2 DEF WorkInv, b
<1>8. CASE k.pdo /\ k.level # 0 /\ Real(k, n, nesting) /\ k.inTx
  <2>1. b = DbSavepoint(up, n)
    BY <1>0, <1>2, <1>3, <1>8
  <2>2. /\ DOMAIN b = Fields /\ \A x \in Fields \ {"points"} : b[x] = up[x]
        /\ PointsInv(up.work, b.points)
        /\ \A s, d :
             /\ Stack(s) /\ d \in Scope /\ ScopesInv(s, up.work, up.points)
             /\ n = Len(s) + 1 /\ d.writes = {}
             => ScopesInv(Append(s, d), up.work, b.points)
    <3>1. PointsInv(up.work, up.points) /\ up.inTx /\ n \in Nat
      BY <1>0, <1>4, <1>8 DEF WorkInv
    <3> QED
      BY <1>2, <2>1, <3>1, SavepointWork
  <2>3. /\ b.work = k.work /\ b.inTx = k.inTx /\ b.sound = k.sound
        /\ b.durable = k.durable /\ b.kept = k.kept /\ b.scopes = up.scopes
    BY <1>4, <2>2 DEF Fields
  <2>4. k.sound => ScopesInv(b.scopes, b.work, b.points)
    <3> SUFFICES ASSUME k.sound PROVE ScopesInv(b.scopes, b.work, b.points)
      OBVIOUS
    <3>1. Stack(k.scopes) /\ ScopesInv(k.scopes, up.work, up.points) /\ n = Len(k.scopes) + 1
      BY <1>0, <1>4 DEF WorkInv
    <3>2. b.scopes = Append(k.scopes, c) /\ b.work = up.work
      BY <1>2, <1>4, <2>3
    <3>3. ScopesInv(Append(k.scopes, c), up.work, b.points)
      BY <1>0, <2>2, <3>1
    <3> QED
      BY <3>2, <3>3
  <2> QED
    BY <1>4, <2>2, <2>3, <2>4 DEF WorkInv, b
<1> QED
  BY <1>0, <1>5, <1>6, <1>7, <1>8, <1>9 DEF LevelInv, Shape

(* The history after a level has ended: without the outermost level its    *)
(* writes are kept, otherwise the level around it grows by them.           *)
LEMMA PassedIs ==
  ASSUME NEW k, LevelInv(k), k.sound, k.level > 0, NEW w \in SUBSET Nat
  PROVE  LET d == Passed(k, w)
             s == k.scopes
             n == k.level
         IN  /\ DOMAIN d = Fields
             /\ \A x \in Fields \ {"scopes", "kept"} : d[x] = k[x]
             /\ n = 1 => d.scopes = <<>> /\ d.kept = k.kept \cup w
             /\ n > 1 => /\ d.kept = k.kept
                         /\ Len(d.scopes) = n - 1
                         /\ \A m \in 1 .. n - 2 : d.scopes[m] = s[m]
                         /\ d.scopes[n - 1].real = s[n - 1].real
                         /\ d.scopes[n - 1].writes = s[n - 1].writes \cup w
<1> DEFINE d == Passed(k, w)
           s == k.scopes
           n == k.level
           outer == Front(s)
           scope == [outer[Len(outer)] EXCEPT !.writes = @ \cup w]
           grown == [outer EXCEPT ![Len(outer)] = scope]
<1>0. n \in Nat /\ n > 0 /\ n = Len(s)
  BY DEF LevelInv, Shape
<1>5. n = 1 \/ n > 1
  <2>1. \A m \in Nat : m > 0 => m = 1 \/ m > 1
    OBVIOUS
  <2> HIDE DEF n
  <2> QED
    BY <1>0, <2>1, Zenon
<1>a. s \in Seq(Scope) /\ DOMAIN k = Fields
  BY DEF LevelInv, Shape
<1>1. /\ outer \in Seq(Scope) /\ Len(outer) = n - 1
      /\ \A m \in 1 .. n - 1 : outer[m] = s[m]
  <2>1. n - 1 \in 0 .. Len(s)
    BY <1>0
  <2>2. outer = SubSeq(s, 1, n - 1)
    BY <1>0 DEF Front
  <2> QED
    BY <1>a, <2>1, <2>2, CutIs
<1>2. d = IF outer = <<>> THEN [k EXCEPT !.scopes = <<>>, !.kept = @ \cup w]
          ELSE [k EXCEPT !.scopes = grown]
  BY DEF Passed
<1> HIDE DEF outer, d, n
<1>3. ASSUME n = 1
      PROVE  /\ DOMAIN d = Fields /\ \A x \in Fields \ {"scopes", "kept"} : d[x] = k[x]
             /\ d.scopes = <<>> /\ d.kept = k.kept \cup w
  <2>1. outer = <<>>
    BY <1>1, <1>3
  <2> QED
    BY <1>2, <1>a, <2>1 DEF Fields
<1>4. ASSUME n > 1
      PROVE  /\ DOMAIN d = Fields /\ \A x \in Fields \ {"scopes", "kept"} : d[x] = k[x]
             /\ d.kept = k.kept
             /\ Len(d.scopes) = n - 1
             /\ \A m \in 1 .. n - 2 : d.scopes[m] = s[m]
             /\ d.scopes[n - 1].real = s[n - 1].real
             /\ d.scopes[n - 1].writes = s[n - 1].writes \cup w
  <2>1. outer # <<>>
    BY <1>0, <1>1, <1>4
  <2> DEFINE l == n - 1
  <2>2. l \in 1 .. Len(outer) /\ outer[l] = s[l]
    BY <1>0, <1>1, <1>4
  <2>3. outer[l] \in Scope
    BY <1>1, <2>2, ElementOfSeq
  <2>4. scope.real = s[l].real /\ scope.writes = s[l].writes \cup w
    BY <1>1, <2>2, <2>3 DEF Scope
  <2>5. /\ Len(grown) = l /\ grown[l] = scope
        /\ \A m \in 1 .. l : m # l => grown[m] = outer[m]
    <3> HIDE DEF scope
    <3>1. DOMAIN grown = 1 .. l
      BY <1>1
    <3>2. Len(grown) = l
      <4>1. l \in Nat
        BY <1>0, <1>4
      <4> QED
        BY <3>1, <4>1
    <3> QED
      BY <1>1, <2>2, <3>2
  <2>6. /\ DOMAIN d = Fields /\ d.scopes = grown
        /\ \A x \in Fields \ {"scopes"} : d[x] = k[x]
    <3> HIDE DEF grown
    <3> QED
      BY <1>2, <1>a, <2>1 DEF Fields
  <2> HIDE DEF grown, scope
  <2>7. \A m \in 1 .. n - 2 : d.scopes[m] = s[m]
    <3> SUFFICES ASSUME NEW m \in 1 .. n - 2 PROVE d.scopes[m] = s[m]
      OBVIOUS
    <3>1. m \in 1 .. l /\ m # l
      BY <1>0, <1>4
    <3> QED
      BY <1>1, <2>5, <2>6, <3>1
  <2>8. d.kept = k.kept
    BY <2>6 DEF Fields
  <2>9. \A x \in Fields \ {"scopes", "kept"} : d[x] = k[x]
    BY <2>6
  <2> QED
    BY <2>4, <2>5, <2>6, <2>7, <2>8, <2>9
<1>6. n = 1 => ~(n > 1)
  OBVIOUS
<1> QED
  BY <1>3, <1>4, <1>5, <1>6, Zenon DEF d, n

(* The end of a level in the history: the database's part is untouched;    *)
(* a history that goes on is of a level that ends as it was begun.         *)
LEMMA ScopeEndedIs ==
  ASSUME NEW k, LevelInv(k), k.level > 0,
         NEW nesting \in BOOLEAN, NEW commits \in BOOLEAN
  PROVE  LET d == ScopeEnded(k, nesting, commits)
             s == k.scopes
             n == k.level
             w == IF commits \/ ~s[n].real THEN s[n].writes ELSE {}
         IN  /\ DOMAIN d = Fields
             /\ \A x \in Fields \ {"scopes", "kept", "sound"} : d[x] = k[x]
             /\ d.sound =>
                  /\ k.sound /\ s[n].real = Real(k, n, nesting)
                  /\ n = 1 => d.scopes = <<>> /\ d.kept = k.kept \cup w
                  /\ n > 1 => /\ d.kept = k.kept
                              /\ Len(d.scopes) = n - 1
                              /\ \A m \in 1 .. n - 2 : d.scopes[m] = s[m]
                              /\ d.scopes[n - 1].real = s[n - 1].real
                              /\ d.scopes[n - 1].writes = s[n - 1].writes \cup w
<1> DEFINE d == ScopeEnded(k, nesting, commits)
           s == k.scopes
           n == k.level
           w == IF commits \/ ~s[n].real THEN s[n].writes ELSE {}
<1>0. DOMAIN k = Fields
  BY DEF LevelInv, Shape
<1>1. CASE ~k.sound
  <2>1. d = k
    BY <1>1 DEF ScopeEnded
  <2> QED
    BY <1>0, <1>1, <2>1
<1>2. CASE k.sound /\ Last(s).real # Real(k, n, nesting)
  <2>1. d = Lost(k)
    BY <1>2 DEF ScopeEnded
  <2>2. /\ DOMAIN Lost(k) = Fields /\ ~Lost(k).sound
        /\ \A x \in Fields \ {"scopes", "kept", "sound"} : Lost(k)[x] = k[x]
    BY <1>0 DEF Lost, Fields
  <2> QED
    BY <2>1, <2>2
<1>3. CASE k.sound /\ Last(s).real = Real(k, n, nesting)
  <2>1. Last(s) = s[n] /\ s[n] \in Scope
    BY <1>3 DEF Last, LevelInv, Shape
  <2>2. w \in SUBSET Nat
    BY <2>1 DEF Scope
  <2>3. d = Passed(k, w)
    BY <1>3, <2>1 DEF ScopeEnded
  <2> HIDE DEF w, d
  <2>4. /\ DOMAIN d = Fields
        /\ \A x \in Fields \ {"scopes", "kept"} : d[x] = k[x]
        /\ n = 1 => d.scopes = <<>> /\ d.kept = k.kept \cup w
        /\ n > 1 => /\ d.kept = k.kept
                    /\ Len(d.scopes) = n - 1
                    /\ \A m \in 1 .. n - 2 : d.scopes[m] = s[m]
                    /\ d.scopes[n - 1].real = s[n - 1].real
                    /\ d.scopes[n - 1].writes = s[n - 1].writes \cup w
    BY <1>3, <2>2, <2>3, PassedIs
  <2> QED
    BY <1>3, <2>1, <2>4 DEF w, d
<1> QED
  BY <1>1, <1>2, <1>3

(* The end of a level inside the transaction, in the terms of the history  *)
(* s, which becomes r, of n + 1 levels.                                    *)
LevelEnds(s, r, n, w) ==
  /\ Stack(s) /\ n \in Nat /\ n > 0 /\ Len(s) = n + 1 /\ Len(r) = n
  /\ \A m \in 1 .. n - 1 : r[m] = s[m]
  /\ r[n].real = s[n].real /\ r[n].writes = s[n].writes \cup w

(* RELEASE of the innermost level's savepoint: its writes have passed to   *)
(* the level around it, whose savepoints stay.                             *)
LEMMA Released ==
  ASSUME NEW w, NEW p, PointsInv(w, p), NEW i \in 1 .. Len(p)
  PROVE  /\ PointsInv(w, SubSeq(p, 1, i - 1))
         /\ \A s, r, n :
              /\ LevelEnds(s, r, n, s[n + 1].writes) /\ ScopesInv(s, w, p)
              /\ s[n + 1].real /\ p[i].name = n + 1
              => ScopesInv(r, w, SubSeq(p, 1, i - 1))
<1>1. i - 1 \in 0 .. Len(p)
  BY PointTyped
<1>2. PointsInv(w, SubSeq(p, 1, i - 1))
  BY <1>1, PointsCut
<1>3. ASSUME NEW s, NEW r, NEW n, LevelEnds(s, r, n, s[n + 1].writes), ScopesInv(s, w, p),
             s[n + 1].real, p[i].name = n + 1
      PROVE  ScopesInv(r, w, SubSeq(p, 1, i - 1))
  <2>1. ScopesInv(r, w, p)
    BY <1>3, WritesPass DEF LevelEnds
  <2>2. Live(s, n + 1)
    BY <1>3 DEF LevelEnds, Live
  <2>3. \A j \in 1 .. Len(p) : Live(s, p[j].name) /\ p[j].name < n + 1 => j <= i - 1
    BY <1>3, <2>2, InnermostMarked
  <2>4. \A m : Live(r, m) => Live(s, m) /\ m < n + 1
    BY <1>3 DEF LevelEnds, Live
  <2>5. \A j \in 1 .. Len(p) : Live(r, p[j].name) => j <= i - 1
    BY <2>3, <2>4
  <2> QED
    BY <1>1, <2>1, <2>5, ScopesCut
<1> QED
  BY <1>2, <1>3

(* ROLLBACK TO the innermost level's savepoint.                            *)
LEMMA RolledBackTo ==
  ASSUME NEW w, NEW p, PointsInv(w, p), NEW i \in 1 .. Len(p)
  PROVE  LET v == SubSeq(w, 1, p[i].at)
             q == SubSeq(p, 1, i)
         IN  /\ PointsInv(v, q)
             /\ w = <<>> => v = <<>>
             /\ \A s, r, n :
                  /\ LevelEnds(s, r, n, {}) /\ ScopesInv(s, w, p)
                  /\ s[n + 1].real /\ p[i].name = n + 1
                  => ScopesInv(r, v, q)
<1> DEFINE v == SubSeq(w, 1, p[i].at)
           q == SubSeq(p, 1, i)
<1>1. ASSUME w = <<>> PROVE v = <<>>
  <2>1. Len(w) = 0
    BY <1>1
  <2>2. p[i].at = 0
    BY <2>1, PointTyped
  <2> QED
    BY <1>1, <2>2
<1>2. PointsInv(v, q)
  BY WorkUndone
<1>3. ASSUME NEW s, NEW r, NEW n, LevelEnds(s, r, n, {}), ScopesInv(s, w, p),
             s[n + 1].real, p[i].name = n + 1
      PROVE  ScopesInv(r, v, q)
  <2>1. /\ Stack(s) /\ n \in Nat /\ n > 0 /\ Len(s) = n + 1 /\ Len(r) = n
        /\ Live(s, n + 1)
    BY <1>3 DEF LevelEnds, Live
  <2>2. \A m \in 1 .. n : r[m].real = s[m].real /\ r[m].writes = s[m].writes
    <3> SUFFICES ASSUME NEW m \in 1 .. n
                 PROVE  r[m].real = s[m].real /\ r[m].writes = s[m].writes
      OBVIOUS
    <3>1. CASE m = n
      BY <1>3, <3>1 DEF LevelEnds
    <3>2. CASE m # n
      BY <1>3, <2>1, <3>2 DEF LevelEnds
    <3> QED
      BY <3>1, <3>2
  <2> QED
    BY <1>3, <2>1, <2>2, WorkUndone
<1> QED
  BY <1>1, <1>2, <1>3

(* commit() and rollback() before the history is settled: what the count   *)
(* and the database do.                                                    *)
LEMMA EndsAsWork ==
  ASSUME NEW k, LevelInv(k), WorkInv(k), NEW nesting \in BOOLEAN, NEW commits \in BOOLEAN
  PROVE  WorkInv(EndsAs(k, nesting, commits))
<1> DEFINE s == k.scopes
           n == k.level
           w == IF commits \/ ~s[n].real THEN s[n].writes ELSE {}
           se == ScopeEnded(k, nesting, commits)
           down == [se EXCEPT !.level = @ - 1]
           e == EndsAs(k, nesting, commits)
<1>1. e = IF ~k.pdo \/ n = 0 THEN k
          ELSE IF ~Real(k, n, nesting) \/ EndThrows(k, nesting) THEN down
          ELSE IF n = 1 THEN IF commits THEN DbCommit(down) ELSE DbRollback(down)
          ELSE IF commits THEN DbRelease(down, n) ELSE DbRollbackTo(down, n)
  BY DEF EndsAs
<1>2. n \in Nat /\ DOMAIN k = Fields
  BY DEF LevelInv, Shape
<1>3. CASE ~k.pdo \/ n = 0
  BY <1>1, <1>3
<1>4. CASE k.pdo /\ n # 0
  <2>1. /\ DOMAIN se = Fields
        /\ \A x \in Fields \ {"scopes", "kept", "sound"} : se[x] = k[x]
        /\ se.sound =>
             /\ k.sound /\ s[n].real = Real(k, n, nesting)
             /\ n = 1 => se.scopes = <<>> /\ se.kept = k.kept \cup w
             /\ n > 1 => /\ se.kept = k.kept
                         /\ Len(se.scopes) = n - 1
                         /\ \A m \in 1 .. n - 2 : se.scopes[m] = s[m]
                         /\ se.scopes[n - 1].real = s[n - 1].real
                         /\ se.scopes[n - 1].writes = s[n - 1].writes \cup w
    <3>1. k.level > 0
      BY <1>2, <1>4
    <3> QED
      BY <3>1, ScopeEndedIs
  <2> HIDE DEF se
  <2>2. /\ DOMAIN down = Fields /\ down.sound = se.sound /\ down.scopes = se.scopes
        /\ down.kept = se.kept /\ down.work = k.work /\ down.points = k.points
        /\ down.inTx = k.inTx /\ down.durable = k.durable
    BY <2>1 DEF Fields
  <2> HIDE DEF down, w, e
  <2>3. /\ PointsInv(k.work, k.points) /\ (~k.inTx => k.work = <<>>)
        /\ k.sound => k.durable = k.kept /\ ScopesInv(s, k.work, k.points)
        /\ k.sound => Stack(s) /\ Len(s) = n /\ k.inTx
    BY <1>2, <1>4 DEF WorkInv, LevelInv, Shape, Stack
  <2>4. PICK l \in Nat : n = l + 1
    <3>1. n - 1 \in Nat /\ n = (n - 1) + 1
      BY <1>2, <1>4
    <3> QED
      BY <3>1
  <2>5. down.sound /\ n > 1 => down.kept = k.kept /\ LevelEnds(s, down.scopes, l, w)
    <3> SUFFICES ASSUME down.sound, n > 1
                 PROVE  down.kept = k.kept /\ LevelEnds(s, down.scopes, l, w)
      OBVIOUS
    <3>1. /\ Len(down.scopes) = l /\ l > 0 /\ n - 1 = l /\ n - 2 = l - 1
          /\ Stack(s) /\ Len(s) = l + 1
      BY <2>1, <2>2, <2>3, <2>4
    <3> QED
      BY <2>1, <2>2, <3>1 DEF LevelEnds
  <2>6. CASE ~Real(k, n, nesting) \/ EndThrows(k, nesting)
    <3>1. e = down
      BY <1>1, <1>4, <2>6 DEF e
    <3>2. ASSUME down.sound PROVE ~Real(k, n, nesting)
      <4> SUFFICES ASSUME Real(k, n, nesting), EndThrows(k, nesting) PROVE FALSE
        BY <2>6
      <4>1. k.sound /\ s[n].real
        BY <2>1, <2>2, <3>2
      <4>2. n > 1 /\ Named(k, n) = {}
        BY <1>4, <2>3, <4>1 DEF EndThrows
      <4>3. Live(s, n)
        BY <1>2, <2>3, <4>1, <4>2 DEF Live
      <4>4. \E i \in 1 .. Len(k.points) : k.points[i].name = n
        BY <2>3, <4>1, <4>3, InnermostMarked
      <4>5. DOMAIN k.points = 1 .. Len(k.points)
        BY <2>3 DEF PointsInv, PointsType
      <4> QED
        BY <4>2, <4>4, <4>5 DEF Named
    <3>3. ASSUME down.sound
          PROVE  down.durable = down.kept /\ ScopesInv(down.scopes, k.work, k.points)
      <4>1. n > 1 /\ ~s[n].real /\ k.sound
        <5>1. ~Real(k, n, nesting)
          BY <3>2, <3>3
        <5>2. n # 1
          BY <5>1 DEF Real
        <5>3. n > 1
          BY <1>2, <1>4, <5>2
        <5>4. k.sound /\ s[n].real = Real(k, n, nesting)
          BY <2>1, <2>2, <3>3
        <5> QED
          BY <5>1, <5>3, <5>4
      <4>2. LevelEnds(s, down.scopes, l, s[l + 1].writes)
        BY <2>4, <2>5, <3>3, <4>1 DEF w
      <4>3. ScopesInv(down.scopes, k.work, k.points)
        BY <2>3, <4>1, <4>2, WritesPass DEF LevelEnds
      <4> QED
        BY <2>2, <2>3, <2>5, <3>3, <4>1, <4>3
    <3> QED
      BY <2>2, <2>3, <3>1, <3>3 DEF WorkInv, e
  <2>7. CASE Real(k, n, nesting) /\ ~EndThrows(k, nesting) /\ n = 1
    <3> DEFINE saved == IF commits THEN Range(k.work) ELSE {}
    <3>1. e = Ended(down, saved)
      BY <1>1, <1>4, <2>2, <2>7 DEF DbCommit, DbRollback, e
    <3>2. /\ e.work = <<>> /\ e.points = <<>> /\ e.sound = down.sound
          /\ e.scopes = down.scopes /\ e.kept = down.kept
          /\ e.durable = down.durable \cup saved
      <4> HIDE DEF saved
      <4> QED
        BY <2>2, <3>1 DEF Ended, Fields
    <3>3. ASSUME down.sound PROVE e.scopes = <<>> /\ e.durable = e.kept
      <4>1. /\ k.sound /\ s[1].real /\ down.scopes = <<>> /\ down.kept = k.kept \cup w
        BY <2>1, <2>2, <2>7, <3>3
      <4>2. Range(k.work) = s[1].writes
        <5>1. k.work \in Seq(Nat) /\ s \in Seq(Scope)
          BY <2>3, <4>1 DEF PointsInv, PointsType, Stack
        <5>2. Range(k.work) = Upto(s, 0 + 1)
          BY <2>3, <2>7, <4>1, <5>1, WholeRanges DEF ScopesInv
        <5>3. Upto(s, 0 + 1) = {} \cup s[0 + 1].writes
          BY UptoGrows
        <5> QED
          BY <5>2, <5>3
      <4>3. w = saved
        BY <2>7, <4>1, <4>2 DEF w
      <4> QED
        BY <2>2, <2>3, <3>2, <4>1, <4>3
    <3> QED
      BY <3>2, <3>3, NothingOpen DEF WorkInv, e
  <2>8. CASE Real(k, n, nesting) /\ ~EndThrows(k, nesting) /\ n # 1
    <3>1. n > 1 /\ Named(k, n) # {}
      BY <1>2, <1>4, <2>8 DEF Real, EndThrows
    <3> DEFINE i == IndexOf(down, n)
    <3>2. i \in 1 .. Len(k.points) /\ k.points[i].name = n
      <4>1. Named(down, n) = {j \in 1 .. Len(k.points) : k.points[j].name = n}
        BY <2>2, <2>3 DEF Named, PointsInv, PointsType
      <4>2. Named(down, n) = Named(k, n)
        BY <2>2 DEF Named
      <4>3. i \in Named(down, n)
        BY <3>1, <4>2 DEF IndexOf
      <4> QED
        BY <4>1, <4>3
    <3>3. down.sound => k.sound /\ s[l + 1].real /\ down.durable = down.kept
      BY <2>1, <2>2, <2>3, <2>4, <2>5, <2>8, <3>1
    <3>4. CASE commits
      <4>1. e = DbRelease(down, n)
        BY <1>1, <1>4, <2>8, <3>4 DEF e
      <4>2. /\ e.points = SubSeq(k.points, 1, i - 1) /\ e.work = k.work
            /\ e.sound = down.sound /\ e.scopes = down.scopes /\ e.kept = down.kept
            /\ e.durable = down.durable /\ e.inTx = k.inTx
        <5> HIDE DEF i
        <5> QED
          BY <2>2, <4>1 DEF DbRelease, Fields, i
      <4>3. down.sound => LevelEnds(s, down.scopes, l, s[l + 1].writes)
        BY <2>4, <2>5, <3>1, <3>4 DEF w
      <4> HIDE DEF i
      <4>4. down.sound => ScopesInv(down.scopes, k.work, SubSeq(k.points, 1, i - 1))
        BY <2>3, <2>4, <3>2, <3>3, <4>3, Released
      <4>5. PointsInv(k.work, SubSeq(k.points, 1, i - 1))
        BY <2>3, <3>2, Released
      <4> QED
        BY <2>3, <3>3, <4>2, <4>4, <4>5 DEF WorkInv, e
    <3>5. CASE ~commits
      <4>1. e = DbRollbackTo(down, n)
        BY <1>1, <1>4, <2>8, <3>5 DEF e
      <4> DEFINE v == SubSeq(k.work, 1, k.points[i].at)
                 q == SubSeq(k.points, 1, i)
      <4>2. /\ e.points = q /\ e.work = v
            /\ e.sound = down.sound /\ e.scopes = down.scopes /\ e.kept = down.kept
            /\ e.durable = down.durable /\ e.inTx = k.inTx
        <5> HIDE DEF i
        <5> QED
          BY <2>2, <4>1 DEF DbRollbackTo, Fields, i
      <4>3. down.sound => LevelEnds(s, down.scopes, l, {})
        BY <2>4, <2>5, <3>1, <3>3, <3>5 DEF w
      <4> HIDE DEF i
      <4>4. /\ PointsInv(v, q) /\ (k.work = <<>> => v = <<>>)
            /\ down.sound => ScopesInv(down.scopes, v, q)
        BY <2>3, <2>4, <3>2, <3>3, <4>3, RolledBackTo
      <4> HIDE DEF v, q
      <4> QED
        BY <2>3, <3>3, <4>2, <4>4 DEF WorkInv, e
    <3> QED
      BY <3>4, <3>5
  <2> QED
    BY <2>6, <2>7, <2>8
<1> QED
  BY <1>3, <1>4

(* commit() and rollback().                                                *)
LEMMA EndedByWork ==
  ASSUME NEW k, LevelInv(k), WorkInv(k), NEW nesting \in BOOLEAN, NEW commits \in BOOLEAN
  PROVE  WorkInv(EndedBy(k, nesting, commits))
BY EndsAsLevel, EndsAsWork, SettledWork, EndedByIs

(* execute(): a write of the innermost level, or one that is committed at  *)
(* once.                                                                   *)
LEMMA WrittenWork ==
  ASSUME NEW k, LevelInv(k), WorkInv(k), NEW x \in Nat
  PROVE  WorkInv(Written(k, x))
<1> DEFINE s == k.scopes
           last == Len(s)
           noted == IF ~k.sound THEN k
                    ELSE IF last = 0 THEN [k EXCEPT !.kept = @ \cup {x}]
                    ELSE [k EXCEPT !.scopes[last].writes = @ \cup {x}]
           d == Written(k, x)
<1>0. /\ DOMAIN k = Fields /\ s \in Seq(Scope) /\ Stack(s) /\ k.level \in Nat
      /\ k.sound => last = k.level /\ (k.inTx <=> last > 0)
  BY DEF LevelInv, Shape, Stack
<1>1. d = IF k.inTx THEN [noted EXCEPT !.work = Append(@, x)]
          ELSE [noted EXCEPT !.durable = @ \cup {x}]
  BY DEF Written
<1>2. /\ DOMAIN noted = Fields
      /\ \A f \in Fields \ {"kept", "scopes"} : noted[f] = k[f]
      /\ k.sound /\ last = 0 => noted.kept = k.kept \cup {x} /\ noted.scopes = s
      /\ k.sound /\ last > 0 =>
           /\ noted.kept = k.kept /\ Len(noted.scopes) = last
           /\ \A m \in 1 .. last - 1 : noted.scopes[m] = s[m]
           /\ noted.scopes[last].real = s[last].real
           /\ noted.scopes[last].writes = s[last].writes \cup {x}
  <2>1. CASE ~k.sound
    BY <1>0, <2>1
  <2>2. CASE k.sound /\ last = 0
    BY <1>0, <2>2 DEF Fields
  <2>3. CASE k.sound /\ last # 0
    <3> DEFINE scope == [s[last] EXCEPT !.writes = @ \cup {x}]
               grown == [s EXCEPT ![last] = scope]
    <3>1. last \in 1 .. Len(s) /\ last \in Nat
      BY <1>0, <2>3
    <3>2. s[last] \in Scope
      BY <1>0, <3>1, ElementOfSeq
    <3>3. scope.real = s[last].real /\ scope.writes = s[last].writes \cup {x}
      BY <3>2 DEF Scope
    <3>4. noted = [k EXCEPT !.scopes = grown]
      BY <2>3
    <3> HIDE DEF scope
    <3>5. DOMAIN grown = 1 .. last
      BY <1>0
    <3>6. /\ Len(grown) = last /\ grown[last] = scope
          /\ \A m \in 1 .. last - 1 : grown[m] = s[m]
      BY <1>0, <3>1, <3>5
    <3> HIDE DEF grown, noted
    <3>7. /\ DOMAIN noted = Fields /\ noted.scopes = grown
          /\ \A f \in Fields \ {"scopes"} : noted[f] = k[f]
      BY <1>0, <3>4 DEF Fields
    <3>8. noted.kept = k.kept
      BY <3>7 DEF Fields
    <3> QED
      BY <2>3, <3>3, <3>6, <3>7, <3>8 DEF noted
  <2> QED
    BY <2>1, <2>2, <2>3
<1> HIDE DEF noted, d
<1>3. /\ PointsInv(k.work, k.points) /\ (~k.inTx => k.work = <<>>)
      /\ k.sound => k.durable = k.kept /\ ScopesInv(s, k.work, k.points)
  BY DEF WorkInv
<1>4. CASE k.inTx
  <2>1. /\ d.work = Append(k.work, x) /\ d.points = k.points /\ d.inTx /\ d.sound = k.sound
        /\ d.durable = k.durable /\ d.kept = noted.kept /\ d.scopes = noted.scopes
    BY <1>1, <1>2, <1>4 DEF Fields
  <2>2. PointsInv(Append(k.work, x), k.points)
    BY <1>3, WorkGrows
  <2>3. ASSUME k.sound
        PROVE  d.durable = d.kept /\ ScopesInv(d.scopes, Append(k.work, x), k.points)
    <3>1. last > 0
      BY <1>0, <1>4, <2>3
    <3>2. ScopesInv(noted.scopes, Append(k.work, x), k.points)
      BY <1>0, <1>2, <1>3, <2>3, <3>1, WorkGrows
    <3> QED
      BY <1>2, <1>3, <2>1, <2>3, <3>1, <3>2
  <2> QED
    BY <2>1, <2>2, <2>3 DEF WorkInv, d
<1>5. CASE ~k.inTx
  <2>1. /\ d.work = k.work /\ d.points = k.points /\ d.inTx = k.inTx /\ d.sound = k.sound
        /\ d.durable = k.durable \cup {x} /\ d.kept = noted.kept /\ d.scopes = noted.scopes
    BY <1>1, <1>2, <1>5 DEF Fields
  <2>2. ASSUME k.sound PROVE d.durable = d.kept /\ d.scopes = s
    <3>1. last = 0
      BY <1>0, <1>5, <2>2
    <3> QED
      BY <1>2, <1>3, <2>1, <2>2, <3>1
  <2> QED
    BY <1>3, <2>1, <2>2 DEF WorkInv, d
<1> QED
  BY <1>4, <1>5 DEF LevelInv, Shape

-----------------------------------------------------------------------------
(* What every method of the adapter keeps. *)
AdapterInv(k) == LevelInv(k) /\ WorkInv(k)

(* begin(), commit(), rollback(), execute(), close() and connect(), and    *)
(* the flag for savepoints.                                                *)
LEMMA MethodsKeep ==
  ASSUME NEW k, AdapterInv(k)
  PROVE  /\ AdapterInv(BeginFailed(k))
         /\ \A x \in BOOLEAN : /\ AdapterInv(Begun(k, x))
                               /\ AdapterInv(CommittedBy(k, x))
                               /\ AdapterInv(RolledBackBy(k, x))
                               /\ AdapterInv(PdoReplaced(k, x))
         /\ \A w \in Nat : AdapterInv(Written(k, w))
<1>1. AdapterInv(BeginFailed(k))
  BY BeginFailedLevel, BeginFailedWork DEF AdapterInv
<1>2. \A x \in BOOLEAN : AdapterInv(Begun(k, x))
  BY BegunLevel, BegunWork DEF AdapterInv
<1>3. \A x, y \in BOOLEAN : AdapterInv(EndedBy(k, x, y))
  BY EndedByLevel, EndedByWork DEF AdapterInv
<1>4. \A x \in BOOLEAN : AdapterInv(PdoReplaced(k, x))
  BY PdoReplacedLevel, PdoReplacedWork DEF AdapterInv
<1>5. \A w \in Nat : AdapterInv(Written(k, w))
  BY WrittenLevel, WrittenWork DEF AdapterInv
<1> QED
  BY <1>1, <1>2, <1>3, <1>4, <1>5 DEF CommittedBy, RolledBackBy

(* setNestedTransactionsWithSavepoints().                                  *)
LEMMA FlagKeeps ==
  ASSUME NEW k, AdapterInv(k), NEW on \in BOOLEAN
  PROVE  AdapterInv([k EXCEPT !.savepoints = on])
<1> DEFINE d == [k EXCEPT !.savepoints = on]
<1>1. LevelInv(d)
  BY DEF AdapterInv, LevelInv, Shape, Fields
<1>2. /\ d.work = k.work /\ d.points = k.points /\ d.inTx = k.inTx /\ d.sound = k.sound
      /\ d.durable = k.durable /\ d.kept = k.kept /\ d.scopes = k.scopes
  BY DEF AdapterInv, LevelInv, Shape, Fields
<1> HIDE DEF d
<1>3. WorkInv(d)
  BY <1>2 DEF AdapterInv, WorkInv
<1> QED
  BY <1>1, <1>3 DEF AdapterInv, d

(* The inductive invariant of a script. *)
ConnInv == AdapterInv(conn) /\ writes \in Nat

(* The script starts with a fresh connection. *)
LEMMA InitConn == Init => ConnInv
BY ConnectedLevel, ConnectedWork DEF Init, ConnInv, AdapterInv

(* The ways a call of the ORM changes the connection: it returns or goes   *)
(* on with the same one, after a begin, or after a commit or a rollback;   *)
(* or it executes a statement.                                             *)
LEMMA BeginThenConn ==
  ASSUME ConnInv, NEW nesting \in BOOLEAN, NEW phase, NEW todo,
         BeginThen(nesting, phase, todo)
  PROVE  ConnInv'
<1>1. CASE Goto(Begun(conn, nesting), phase, todo)
  BY <1>1, MethodsKeep DEF Goto, ConnInv
<1>2. CASE Return(BeginFailed(conn), "throw")
  BY <1>2, MethodsKeep DEF Return, ConnInv
<1> QED
  BY <1>1, <1>2 DEF BeginThen

(* ... its last call, which may throw ... *)
LEMMA EndingConn ==
  ASSUME ConnInv, NEW nesting \in BOOLEAN, NEW value,
         \/ ReturnEnding(CommittedBy(conn, nesting), nesting, value)
         \/ ReturnEnding(RolledBackBy(conn, nesting), nesting, value)
  PROVE  ConnInv'
<1>1. AdapterInv(conn')
  BY MethodsKeep DEF ReturnEnding, Return, ConnInv
<1> QED
  BY <1>1 DEF ReturnEnding, Return, ConnInv

(* ... a statement of the ORM ... *)
LEMMA ExecuteConn ==
  ASSUME ConnInv, NEW phase, NEW todo, Execute(phase, todo)
  PROVE  ConnInv'
BY MethodsKeep DEF Execute, ConnInv

(* ... and the way a related record is saved or fails. *)
LEMMA RelatedConn ==
  ASSUME ConnInv, Related
  PROVE  ConnInv'
<1>1. CASE UNCHANGED <<conn, writes>>
  BY <1>1 DEF ConnInv
<1>2. CASE \E value : ReturnEnding(RolledBackBy(conn, FALSE), FALSE, value)
  BY <1>2, EndingConn
<1> QED
  BY <1>1, <1>2 DEF Related, Call, Goto, Return

(* Every step of save(), delete() and the resultsets is one of these. *)
LEMMA ModelConn ==
  ASSUME ConnInv, Model
  PROVE  ConnInv'
<1> DEFINE Same == UNCHANGED <<conn, writes>>
           Begins == \E nesting \in BOOLEAN : \E phase, todo : BeginThen(nesting, phase, todo)
           Ends == \E nesting \in BOOLEAN : \E value :
                     \/ ReturnEnding(CommittedBy(conn, nesting), nesting, value)
                     \/ ReturnEnding(RolledBackBy(conn, nesting), nesting, value)
           Executes == \E phase, todo : Execute(phase, todo)
<1>1. Same => ConnInv'
  BY DEF ConnInv
<1>2. Begins => ConnInv'
  BY BeginThenConn
<1>3. Ends => ConnInv'
  BY EndingConn
<1>4. Executes => ConnInv'
  BY ExecuteConn
<1> HIDE DEF Begins, Ends, Executes
<1>5. CASE SaveEnter
  BY <1>1, <1>2, <1>5 DEF SaveEnter, Return, Goto, Begins
<1>6. CASE SaveBefore
  BY <1>1, <1>6, RelatedConn DEF SaveBefore, Goto
<1>7. CASE SaveMaster
  BY <1>1, <1>3, <1>4, <1>7 DEF SaveMaster, MasterFails, Return, Goto, Ends, Executes
<1>15. CASE SaveFailed
  BY <1>1, <1>3, <1>15 DEF SaveFailed, MasterFails, Return, Ends
<1>8. CASE SaveAfter
  BY <1>1, <1>3, <1>8, RelatedConn DEF SaveAfter, Return, Ends
<1>9. CASE DeleteEnter
  BY <1>1, <1>2, <1>9 DEF DeleteEnter, Return, Begins
<1>10. CASE DeleteExecute
  BY <1>1, <1>4, <1>10 DEF DeleteExecute, Return, Goto, Executes
<1>11. CASE DeleteCascade
  BY <1>1, <1>3, <1>11 DEF DeleteCascade, CascadeCall, Return, Ends
<1>12. CASE DeleteAfter
  BY <1>3, <1>12 DEF DeleteAfter, Ends
<1>13. CASE AllEnter
  BY <1>2, <1>13 DEF AllEnter, Begins
<1>14. CASE AllLoop
  BY <1>1, <1>3, <1>14 DEF AllLoop, AllCalls, Call, Goto, Return, Ends
<1> QED
  BY <1>5, <1>6, <1>7, <1>8, <1>9, <1>10, <1>11, <1>12, <1>13, <1>14,
     <1>15 DEF Model

(* Every use the script makes of the connection itself. *)
LEMMA ScriptConn ==
  ASSUME ConnInv, Script
  PROVE  ConnInv'
<1>1. AdapterInv(conn) /\ writes \in Nat
  BY DEF ConnInv
<1>2. CASE ScriptBegin
  BY <1>1, <1>2, MethodsKeep DEF ScriptBegin, Uses, ConnInv
<1>3. CASE ScriptBeginFails
  BY <1>1, <1>3, MethodsKeep DEF ScriptBeginFails, Uses, ConnInv
<1>4. CASE ScriptCommit
  BY <1>1, <1>4, MethodsKeep DEF ScriptCommit, Uses, ConnInv
<1>5. CASE ScriptRollback
  BY <1>1, <1>5, MethodsKeep DEF ScriptRollback, Uses, ConnInv
<1>6. CASE ScriptExecute
  BY <1>1, <1>6, MethodsKeep DEF ScriptExecute, Uses, ConnInv
<1>7. CASE ScriptClose
  BY <1>1, <1>7, MethodsKeep DEF ScriptClose, ClosedDown, Uses, ConnInv
<1>8. CASE ScriptConnect
  BY <1>1, <1>8, MethodsKeep DEF ScriptConnect, Reconnected, Uses, ConnInv
<1>9. CASE ScriptSetSavepoints
  <2>1. PICK on \in BOOLEAN : conn' = [conn EXCEPT !.savepoints = on]
    BY <1>9 DEF ScriptSetSavepoints, Uses
  <2>2. AdapterInv(conn')
    BY <1>1, <2>1, FlagKeeps
  <2> QED
    BY <1>1, <1>9, <2>2 DEF ScriptSetSavepoints, ConnInv
<1>10. CASE ScriptCalls
  BY <1>1, <1>10 DEF ScriptCalls, ConnInv
<1> QED
  BY <1>2, <1>3, <1>4, <1>5, <1>6, <1>7, <1>8, <1>9, <1>10 DEF Script

(* The invariant of every script.                                          *)
LEMMA ScriptInv == Spec => []ConnInv
<1>1. Init => ConnInv
  BY InitConn
<1>2. ConnInv /\ [Next]_vars => ConnInv'
  <2> SUFFICES ASSUME ConnInv, [Next]_vars
               PROVE  ConnInv'
    OBVIOUS
  <2>1. CASE Next
    BY <2>1, ModelConn, ScriptConn DEF Next
  <2>2. CASE UNCHANGED vars
    BY <2>2 DEF vars, ConnInv
  <2> QED
    BY <2>1, <2>2
<1> QED
  BY <1>1, <1>2, PTL DEF Spec

(* The level of the adapter and the transaction of the database agree      *)
(* (begin, commit, rollback, close and connect of pdo.c) in every script,  *)
(* for every set of records, relations and resultsets, at every depth of   *)
(* nesting, and whatever fails or throws in save() and delete().           *)
THEOREM LevelAlwaysAgrees == Spec => []LevelAgrees
<1>1. ConnInv => LevelAgrees
  BY LevelInvAgrees DEF ConnInv, AdapterInv, LevelAgrees
<1> QED
  BY <1>1, ScriptInv, PTL

(* In every script, for every set of records, relations and resultsets, at *)
(* every depth of nesting, with and without savepoints and whatever fails: *)
(* what the database has uncommitted is what the open levels have written, *)
(* so that a rollback (pdo.c:936-1022) undoes the writes of its own level  *)
(* and of what is nested in it, and nothing else, and a commit makes       *)
(* durable what the ended levels have passed on.                           *)
THEOREM RollbackUndoesItsOwn == Spec => []UndoesItsOwn
<1>1. ASSUME NEW k, AdapterInv(k) PROVE UndoesItsOwnOn(k)
  <2> SUFFICES ASSUME k.sound
               PROVE  /\ Range(k.work) = UNION {s.writes : s \in Range(k.scopes)}
                      /\ k.durable = k.kept
    BY DEF UndoesItsOwnOn
  <2>1. k.work \in Seq(Nat) /\ k.scopes \in Seq(Scope)
    BY <1>1 DEF AdapterInv, LevelInv, Shape, WorkInv, PointsInv, PointsType
  <2>2. /\ Before(k.work, Len(k.work)) = Upto(k.scopes, Len(k.scopes))
        /\ k.durable = k.kept
    BY <1>1 DEF AdapterInv, WorkInv, ScopesInv
  <2> QED
    BY <2>1, <2>2, WholeRanges
<1>2. ConnInv => UndoesItsOwn
  BY <1>1 DEF ConnInv, UndoesItsOwn
<1> QED
  BY <1>2, ScriptInv, PTL

-----------------------------------------------------------------------------
(***************************************************************************)
(* What a call has done when it returns.                                   *)
(***************************************************************************)

(* The j-th call in progress, counted from the outermost one. *)
Nth(c, j) == c[Len(c) + 1 - j]

InCascade(f) == f.op = "delete" /\ f.phase = "cascade"

(* A call that has begun a level and must end it, and how it names it. *)
Opened(f) == f.phase # "enter" /\ Owns(f)
Nests(f) == f.op \in All

(* A call that has called another one. *)
Waits(f) ==
  \/ f.op = "save" /\ f.phase \in {"before", "after"} /\ f.todo # <<>>
  \/ InCascade(f)
  \/ f.op \in All /\ f.phase = "loop" /\ f.todo # <<>>

(* The phases of each operation; only a save with related records has      *)
(* records to do before and after its own.                                 *)
FrameOK(f) ==
  /\ f \in Frames
  /\ f.op = "save" =>
       /\ f.phase \in {"enter", "before", "master", "failed", "after"}
       /\ f.phase \in {"enter", "master", "failed"} => f.todo = <<>>
       /\ f.phase = "before" \/ f.todo # <<>> => HasRelated(f.rec)
  /\ f.op = "delete" =>
       /\ f.phase \in {"enter", "execute", "cascade", "after"}
       /\ f.phase # "cascade" => f.todo = <<>>
  /\ f.op \in All => f.phase \in {"enter", "loop"}

(* Every call but the innermost waits, and the innermost does once the one *)
(* it has called is back; a save has called a save.                        *)
StackInv ==
  /\ calls \in Seq(Frames) /\ result \in Results
  /\ \A j \in 1 .. Len(calls) :
       /\ FrameOK(Nth(calls, j))
       /\ j < Len(calls) \/ result # "none" => Waits(Nth(calls, j))
  /\ \A j \in 1 .. Len(calls) - 1 :
       Nth(calls, j).op = "save" => Nth(calls, j + 1).op = "save"

(* The levels the calls in progress have open. *)
Depth(c) == IF c = <<>> THEN 0 ELSE IF Opened(Head(c)) THEN Len(c) ELSE Len(c) - 1

(* From the script's call to what the script does next. *)
Busy == calls # <<>> \/ result # "none"

(* Something of the outermost call may be undone: it has failed, or a      *)
(* delete or the loop of a resultset has, which no caller takes for        *)
(* success.  A save that another one has called has undone nothing when it *)
(* fails, the level it has rolled back was not the database's.             *)
Failures == {"false", "silent", "throw", "done"}
Cascades(c) == \E j \in 1 .. Len(c) : InCascade(Nth(c, j))
Doomed ==
  \/ Cascades(calls) \/ result = "throw"
  \/ result \in Failures /\ (calls = <<>> \/ Top.op # "save")

(* The writes that are in the database, committed or not. *)
Held(k) == k.durable \cup Range(k.work)

(* What was noted when the outermost call began. *)
EntryInv ==
  /\ entry \in [level : Nat, sound : BOOLEAN, own : BOOLEAN]
  /\ calls # <<>> => entry.own = Owns(Nth(calls, 1))

(* The statements so far, none of which the database has before it is      *)
(* executed; a save without related records has one of its own at most.    *)
CountInv ==
  /\ base \in Nat /\ base <= writes
  /\ Held(conn) \subseteq 1 .. writes
  /\ Len(calls) = 1 /\ ~Opened(Top) =>
       /\ writes <= base + 1
       /\ writes = base \/ Top.phase \in {"failed", "after"}
  /\ ~mute => result # "silent"

(* Nothing is lost of a call that can still report success. *)
KeptInv == Busy => Made \subseteq Held(conn) \/ Doomed

(* Without a connection no statement is executed. *)
OfflineInv ==
  Busy /\ ~conn.pdo =>
    /\ writes = base
    /\ entry.sound /\ result # "throw" => conn.level = entry.level /\ conn.sound

(* With one every open call has its level, ... *)
DepthInv == Busy /\ conn.pdo => conn.level >= entry.level + Depth(calls)

(* ... the database is in a transaction then, and nothing is committed     *)
(* while a level is open of a call outside a transaction.                  *)
OnlineInv ==
  Busy /\ conn.pdo /\ entry.sound =>
    /\ calls # <<>> /\ conn.level > 0 => conn.inTx
    /\ entry.level = 0 /\ conn.level > 0 => Made \cap conn.durable = {}

(* If failures have messages and no call throws these levels are the only  *)
(* ones, and the history has them as the calls will end them.              *)
MatchInv ==
  Busy /\ conn.pdo /\ entry.sound /\ ~mute /\ result # "throw" =>
    /\ conn.level = entry.level + Depth(calls) /\ conn.sound
    /\ \A j \in 1 .. Depth(calls) :
         conn.scopes[entry.level + j].real =
           Real(conn, entry.level + j, Nests(Nth(calls, j)))

(* A call outside a transaction has left all of its statements or none; a  *)
(* save that owns no transaction makes one.                                *)
RestInv ==
  Returned /\ Alone /\ conn.pdo /\ conn.level = 0 =>
    /\ Made \subseteq conn.durable \/ Made \cap conn.durable = {}
    /\ result \in {"false", "silent"} =>
         \/ Made \cap Held(conn) = {}
         \/ ~entry.own /\ writes <= base + 1

(* The inductive form of NoHalfSave and ReturnTellsOutcome. *)
CallInv ==
  /\ StackInv /\ EntryInv /\ CountInv /\ KeptInv /\ OfflineInv
  /\ DepthInv /\ OnlineInv /\ MatchInv /\ RestInv

-----------------------------------------------------------------------------
(* The stack.                                                              *)

(* A frame is pushed. *)
LEMMA PushIs ==
  ASSUME NEW c \in Seq(Frames), NEW f \in Frames
  PROVE  LET p == <<f>> \o c
         IN  /\ p \in Seq(Frames) /\ p # <<>> /\ Len(p) = Len(c) + 1
             /\ Head(p) = f /\ Nth(p, Len(p)) = f
             /\ \A j \in 1 .. Len(c) : Nth(p, j) = Nth(c, j)
<1> DEFINE p == <<f>> \o c
<1>1. /\ p \in Seq(Frames) /\ Len(p) = Len(c) + 1
      /\ p[1] = f /\ \A i \in 1 .. Len(c) : p[i + 1] = c[i]
  OBVIOUS
<1> HIDE DEF p
<1>2. p # <<>> /\ Head(p) = f
  BY <1>1
<1>3. Len(p) + 1 - Len(p) = 1
  BY <1>1
<1>4. ASSUME NEW j \in 1 .. Len(c) PROVE Nth(p, j) = Nth(c, j)
  <2>1. /\ Len(c) + 1 - j \in 1 .. Len(c)
        /\ Len(p) + 1 - j = (Len(c) + 1 - j) + 1
    BY <1>1
  <2> QED
    BY <1>1, <2>1 DEF Nth
<1> QED
  BY <1>1, <1>2, <1>3, <1>4 DEF p, Nth

(* A frame is popped. *)
LEMMA PopIs ==
  ASSUME NEW c \in Seq(Frames), c # <<>>
  PROVE  /\ Head(c) \in Frames /\ Head(c) = Nth(c, Len(c))
         /\ Len(c) \in Nat /\ Len(c) > 0
         /\ Tail(c) \in Seq(Frames) /\ Len(Tail(c)) = Len(c) - 1
         /\ \A j \in 1 .. Len(c) - 1 : Nth(Tail(c), j) = Nth(c, j)
         /\ Tail(c) # <<>> => Head(Tail(c)) = Nth(c, Len(c) - 1)
<1>1. /\ Head(c) \in Frames /\ Head(c) = c[1]
      /\ Len(c) \in Nat /\ Len(c) > 0
      /\ Tail(c) \in Seq(Frames) /\ Len(Tail(c)) = Len(c) - 1
      /\ \A i \in 1 .. Len(c) - 1 : Tail(c)[i] = c[i + 1]
  OBVIOUS
<1>2. Head(c) = Nth(c, Len(c))
  BY <1>1 DEF Nth
<1>3. ASSUME NEW j \in 1 .. Len(c) - 1 PROVE Nth(Tail(c), j) = Nth(c, j)
  <2>1. /\ Len(c) - j \in 1 .. Len(c) - 1 /\ Len(Tail(c)) + 1 - j = Len(c) - j
        /\ (Len(c) - j) + 1 = Len(c) + 1 - j
    BY <1>1
  <2> QED
    BY <1>1, <2>1 DEF Nth
<1>4. ASSUME Tail(c) # <<>> PROVE Head(Tail(c)) = Nth(c, Len(c) - 1)
  <2>1. Len(Tail(c)) > 0 /\ Head(Tail(c)) = Tail(c)[1]
    BY <1>1, <1>4
  <2>2. Len(c) - 1 \in 1 .. Len(c) - 1 /\ Len(Tail(c)) + 1 - (Len(c) - 1) = 1
    BY <1>1, <2>1
  <2> QED
    BY <1>3, <2>1, <2>2 DEF Nth
<1> QED
  BY <1>1, <1>2, <1>3, <1>4

(* A frame is replaced by one of the same operation. *)
LEMMA ReplaceIs ==
  ASSUME NEW c \in Seq(Frames), c # <<>>, NEW g \in Frames
  PROVE  LET p == <<g>> \o Tail(c)
         IN  /\ p \in Seq(Frames) /\ p # <<>> /\ Len(p) = Len(c)
             /\ Head(p) = g /\ Nth(p, Len(c)) = g
             /\ \A j \in 1 .. Len(c) - 1 : Nth(p, j) = Nth(c, j)
<1>1. /\ Len(c) \in Nat /\ Len(c) > 0
      /\ Tail(c) \in Seq(Frames) /\ Len(Tail(c)) = Len(c) - 1
      /\ \A j \in 1 .. Len(c) - 1 : Nth(Tail(c), j) = Nth(c, j)
  BY PopIs
<1>2. PICK p : p = <<g>> \o Tail(c)
  OBVIOUS
<1>3. /\ p \in Seq(Frames) /\ p # <<>> /\ Len(p) = Len(Tail(c)) + 1
      /\ Head(p) = g /\ Nth(p, Len(p)) = g
      /\ \A j \in 1 .. Len(Tail(c)) : Nth(p, j) = Nth(Tail(c), j)
  BY <1>1, <1>2, PushIs
<1>4. Len(p) = Len(c) /\ 1 .. Len(Tail(c)) = 1 .. Len(c) - 1
  BY <1>1, <1>3
<1> QED
  BY <1>1, <1>2, <1>3, <1>4

(* A call that waits has begun its level. *)
LEMMA WaitsOpened ==
  ASSUME NEW f, FrameOK(f), Waits(f)
  PROVE  Opened(f)
BY DEF FrameOK, Waits, Opened, Owns, InCascade, All

(* The calls that stay keep their operation and their record. *)
SameCalls(c, d) ==
  \A j \in 1 .. Len(c) :
    j <= Len(d) => Nth(d, j).op = Nth(c, j).op /\ Nth(d, j).rec = Nth(c, j).rec

(* What the calls in progress are. *)
LEMMA TopIs ==
  ASSUME StackInv, calls # <<>>
  PROVE  /\ calls \in Seq(Frames) /\ Len(calls) \in Nat /\ Len(calls) > 0
         /\ Top = Nth(calls, Len(calls)) /\ FrameOK(Top)
         /\ result # "none" => Waits(Top)
         /\ Waits(Top) => Opened(Top)
         /\ Depth(calls) = IF Opened(Top) THEN Len(calls) ELSE Len(calls) - 1
<1>0. calls \in Seq(Frames)
  BY DEF StackInv
<1>1. /\ Len(calls) \in Nat /\ Len(calls) > 0
      /\ Top = Nth(calls, Len(calls)) /\ Len(calls) \in 1 .. Len(calls)
  BY <1>0, PopIs DEF Top
<1>2. FrameOK(Top) /\ (result # "none" => Waits(Top))
  BY <1>1 DEF StackInv
<1>3. Waits(Top) => Opened(Top)
  BY <1>2, WaitsOpened
<1>4. Depth(calls) = IF Opened(Top) THEN Len(calls) ELSE Len(calls) - 1
  BY DEF Depth, Top
<1> QED
  BY <1>0, <1>1, <1>2, <1>3, <1>4

(* A call returns: the one around it has its level. *)
LEMMA Returning ==
  ASSUME StackInv, calls # <<>>, calls' = Tail(calls), result' \in Results \ {"none"}
  PROVE  /\ StackInv' /\ SameCalls(calls, calls')
         /\ Len(calls') = Len(calls) - 1 /\ Depth(calls') = Len(calls) - 1
         /\ calls' # <<>> => Opened(Head(calls'))
         /\ calls' # <<>> /\ Head(calls').op = "save" => Top.op = "save"
         /\ Cascades(calls) /\ ~InCascade(Top) => Cascades(calls')
<1>0. calls \in Seq(Frames)
  BY DEF StackInv
<1>1. /\ Len(calls) \in Nat /\ Len(calls) > 0 /\ Top = Nth(calls, Len(calls))
      /\ calls' \in Seq(Frames) /\ Len(calls') = Len(calls) - 1
      /\ \A j \in 1 .. Len(calls) - 1 : Nth(calls', j) = Nth(calls, j)
      /\ calls' # <<>> => Head(calls') = Nth(calls, Len(calls) - 1)
  BY <1>0, PopIs DEF Top
<1>2. \A j \in 1 .. Len(calls') : /\ FrameOK(Nth(calls', j)) /\ Waits(Nth(calls', j))
                                  /\ Nth(calls', j) = Nth(calls, j)
  BY <1>1 DEF StackInv
<1>3. StackInv'
  <2>1. \A j \in 1 .. Len(calls') - 1 :
          Nth(calls', j).op = "save" => Nth(calls', j + 1).op = "save"
    <3>1. \A j \in 1 .. Len(calls') - 1 :
            j \in 1 .. Len(calls) - 1 /\ j \in 1 .. Len(calls') /\ j + 1 \in 1 .. Len(calls')
      BY <1>1
    <3>2. \A j \in 1 .. Len(calls) - 1 :
            Nth(calls, j).op = "save" => Nth(calls, j + 1).op = "save"
      BY DEF StackInv
    <3> QED
      BY <1>2, <3>1, <3>2
  <2> QED
    BY <1>1, <1>2, <2>1 DEF StackInv
<1>8. calls' # <<>> /\ Head(calls').op = "save" => Top.op = "save"
  <2> SUFFICES ASSUME calls' # <<>>, Head(calls').op = "save" PROVE Top.op = "save"
    OBVIOUS
  <2>1. PICK j : j = Len(calls) - 1
    OBVIOUS
  <2>2. j \in 1 .. Len(calls) - 1 /\ j + 1 = Len(calls)
    BY <1>1, <2>1
  <2>3. Nth(calls, j).op = "save"
    BY <1>1, <2>1
  <2>4. Nth(calls, j + 1).op = "save"
    BY <2>2, <2>3 DEF StackInv
  <2> QED
    BY <1>1, <2>2, <2>4
<1>4. calls' # <<>> => Opened(Head(calls'))
  <2> SUFFICES ASSUME calls' # <<>> PROVE Opened(Head(calls'))
    OBVIOUS
  <2>1. Len(calls) - 1 \in 1 .. Len(calls')
    BY <1>1
  <2>2. FrameOK(Head(calls')) /\ Waits(Head(calls'))
    BY <1>1, <1>2, <2>1
  <2> QED
    BY <2>2, WaitsOpened
<1>5. Depth(calls') = Len(calls) - 1
  BY <1>1, <1>4 DEF Depth
<1>6. SameCalls(calls, calls')
  BY <1>1, <1>2 DEF SameCalls
<1>7. ASSUME Cascades(calls), ~InCascade(Top) PROVE Cascades(calls')
  <2>1. PICK j \in 1 .. Len(calls) : InCascade(Nth(calls, j))
    BY <1>7 DEF Cascades
  <2>2. j \in 1 .. Len(calls')
    BY <1>1, <1>7, <2>1
  <2> QED
    BY <1>2, <2>1, <2>2 DEF Cascades
<1> QED
  BY <1>1, <1>3, <1>4, <1>5, <1>6, <1>7, <1>8

(* A call goes on as g. *)
LEMMA Going ==
  ASSUME StackInv, calls # <<>>, NEW g, FrameOK(g), g.op = Top.op, g.rec = Top.rec,
         calls' = <<g>> \o Tail(calls), result' = "none"
  PROVE  /\ StackInv' /\ SameCalls(calls, calls')
         /\ Len(calls') = Len(calls) /\ calls' # <<>> /\ Head(calls') = g
         /\ Depth(calls') = IF Opened(g) THEN Len(calls) ELSE Len(calls) - 1
         /\ Cascades(calls) /\ ~InCascade(Top) => Cascades(calls')
<1>0. g \in Frames
  BY DEF FrameOK
<1>1. /\ calls \in Seq(Frames)
      /\ Len(calls) \in Nat /\ Len(calls) > 0 /\ Top = Nth(calls, Len(calls))
  BY TopIs
<1>2. /\ calls' \in Seq(Frames) /\ calls' # <<>> /\ Len(calls') = Len(calls)
      /\ Head(calls') = g /\ Nth(calls', Len(calls)) = g
      /\ \A j \in 1 .. Len(calls) - 1 : Nth(calls', j) = Nth(calls, j)
  BY <1>0, <1>1, ReplaceIs
<1>3. \A j \in 1 .. Len(calls) : j = Len(calls) \/ j \in 1 .. Len(calls) - 1
  BY <1>1
<1>4. StackInv'
  <2>1. result' \in Results /\ ~(result' # "none")
    BY DEF Results
  <2>2. \A j \in 1 .. Len(calls) - 1 : FrameOK(Nth(calls, j)) /\ Waits(Nth(calls, j))
    BY <1>1 DEF StackInv
  <2>3. \A j \in 1 .. Len(calls) : /\ FrameOK(Nth(calls', j))
                                   /\ j < Len(calls) => Waits(Nth(calls', j))
    <3>1. \A j \in 1 .. Len(calls) - 1 : FrameOK(Nth(calls', j)) /\ Waits(Nth(calls', j))
      BY <1>2, <2>2
    <3>2. FrameOK(Nth(calls', Len(calls)))
      BY <1>2
    <3> QED
      BY <1>1, <1>3, <3>1, <3>2
  <2>4. ASSUME NEW j \in 1 .. Len(calls) - 1, Nth(calls', j).op = "save"
        PROVE  Nth(calls', j + 1).op = "save"
    <3>1. Nth(calls, j + 1).op = "save"
      BY <1>2, <2>4 DEF StackInv
    <3>2. j + 1 = Len(calls) \/ j + 1 \in 1 .. Len(calls) - 1
      BY <1>1
    <3> QED
      BY <1>1, <1>2, <3>1, <3>2
  <2> QED
    BY <1>2, <2>1, <2>3, <2>4 DEF StackInv
<1>5. SameCalls(calls, calls')
  BY <1>1, <1>2, <1>3 DEF SameCalls
<1>6. ASSUME Cascades(calls), ~InCascade(Top) PROVE Cascades(calls')
  <2>1. PICK j \in 1 .. Len(calls) : InCascade(Nth(calls, j))
    BY <1>6 DEF Cascades
  <2>2. j \in 1 .. Len(calls) - 1
    BY <1>1, <1>3, <1>6, <2>1
  <2> QED
    BY <1>2, <2>1, <2>2 DEF Cascades
<1> QED
  BY <1>2, <1>4, <1>5, <1>6 DEF Depth

(* A call that waits has called f. *)
LEMMA Calling ==
  ASSUME StackInv, calls # <<>>, Waits(Top), NEW f, FrameOK(f), f.phase = "enter",
         Top.op = "save" => f.op = "save",
         calls' = <<f>> \o calls, result' = "none"
  PROVE  /\ StackInv' /\ SameCalls(calls, calls')
         /\ Len(calls') = Len(calls) + 1 /\ calls' # <<>>
         /\ Depth(calls') = Len(calls)
         /\ Cascades(calls) => Cascades(calls')
<1>0. f \in Frames /\ Opened(f) = FALSE
  BY DEF FrameOK, Opened
<1>1. /\ calls \in Seq(Frames)
      /\ Len(calls) \in Nat /\ Len(calls) > 0 /\ Top = Nth(calls, Len(calls))
  BY TopIs
<1>2. /\ calls' \in Seq(Frames) /\ calls' # <<>> /\ Len(calls') = Len(calls) + 1
      /\ Head(calls') = f /\ Nth(calls', Len(calls')) = f
      /\ \A j \in 1 .. Len(calls) : Nth(calls', j) = Nth(calls, j)
  BY <1>0, <1>1, PushIs
<1>3. \A j \in 1 .. Len(calls') : j = Len(calls') \/ j \in 1 .. Len(calls)
  BY <1>1, <1>2
<1>4. StackInv'
  <2>1. result' \in Results /\ ~(result' # "none")
    BY DEF Results
  <2>2. \A j \in 1 .. Len(calls) : FrameOK(Nth(calls, j)) /\ Waits(Nth(calls, j))
    BY <1>1 DEF StackInv
  <2>3. \A j \in 1 .. Len(calls') : /\ FrameOK(Nth(calls', j))
                                    /\ j < Len(calls') => Waits(Nth(calls', j))
    BY <1>1, <1>2, <1>3, <2>2
  <2>4. ASSUME NEW j \in 1 .. Len(calls') - 1, Nth(calls', j).op = "save"
        PROVE  Nth(calls', j + 1).op = "save"
    <3>1. j \in 1 .. Len(calls) /\ Nth(calls, j).op = "save"
      BY <1>1, <1>2, <2>4
    <3>2. CASE j = Len(calls)
      <4>1. j + 1 = Len(calls') /\ Nth(calls, j) = Top
        BY <1>1, <1>2, <3>2
      <4> QED
        BY <1>2, <3>1, <4>1
    <3>3. CASE j # Len(calls)
      <4>1. j \in 1 .. Len(calls) - 1 /\ j + 1 \in 1 .. Len(calls)
        BY <1>1, <3>1, <3>3
      <4> QED
        BY <1>2, <3>1, <4>1 DEF StackInv
    <3> QED
      BY <3>2, <3>3
  <2> QED
    BY <1>2, <2>1, <2>3, <2>4 DEF StackInv
<1>5. SameCalls(calls, calls')
  BY <1>1, <1>2 DEF SameCalls
<1>6. Cascades(calls) => Cascades(calls')
  BY <1>1, <1>2 DEF Cascades
<1> QED
  BY <1>0, <1>1, <1>2, <1>4, <1>5, <1>6 DEF Depth

-----------------------------------------------------------------------------
(* The connection.                                                         *)

(* begin(): the database is in a transaction, the levels around the new    *)
(* one are what they were.                                                 *)
LEMMA LevelBegins ==
  ASSUME NEW k, LevelInv(k), k.pdo, NEW nesting \in BOOLEAN
  PROVE  LET b == Begun(k, nesting)
             n == k.level + 1
         IN  /\ b.pdo /\ b.level = n /\ b.savepoints = k.savepoints
             /\ b.work = k.work /\ b.durable = k.durable /\ b.sound = k.sound
             /\ k.level = 0 \/ k.inTx => b.inTx
             /\ k.sound => /\ Len(k.scopes) = k.level
                           /\ \A j \in 1 .. k.level : b.scopes[j] = k.scopes[j]
                           /\ b.scopes[n].real = Real(k, n, nesting)
<1> DEFINE n == k.level + 1
           c == [real |-> Real(k, n, nesting), writes |-> {}]
           opened == ScopeOpened(k, nesting)
           up == [opened EXCEPT !.level = @ + 1]
           b == Begun(k, nesting)
<1>0. /\ c \in Scope /\ c.real = Real(k, n, nesting)
      /\ k.level \in Nat /\ DOMAIN k = Fields
      /\ k.sound => k.scopes \in Seq(Scope) /\ Len(k.scopes) = k.level
  BY DEF Scope, Real, LevelInv, Shape
<1>1. /\ DOMAIN opened = Fields /\ \A x \in Fields \ {"scopes"} : opened[x] = k[x]
      /\ k.sound => opened.scopes = Append(k.scopes, c)
  <2>1. opened = IF k.sound THEN [k EXCEPT !.scopes = Append(@, c)] ELSE k
    BY DEF ScopeOpened
  <2> HIDE DEF c, opened
  <2> QED
    BY <1>0, <2>1 DEF Fields
<1> HIDE DEF opened, c
<1>2. /\ DOMAIN up = Fields /\ \A x \in Fields \ {"scopes", "level"} : up[x] = k[x]
      /\ k.sound => up.scopes = Append(k.scopes, c)
      /\ up.level = n
  BY <1>0, <1>1 DEF Fields
<1>3. b = IF up.level = 1 THEN DbBegin(up)
          ELSE IF Real(k, up.level, nesting) THEN DbSavepoint(up, up.level)
          ELSE up
  BY DEF Begun, opened
<1> HIDE DEF up, b
<1>4. /\ \A x \in Fields \ {"points", "inTx"} : b[x] = up[x]
      /\ k.level = 0 \/ k.inTx => b.inTx
  <2>1. CASE up.level = 1
    <3>1. b = DbBegin(up)
      BY <1>3, <2>1
    <3> QED
      BY <1>2, <3>1 DEF DbBegin, Fields
  <2>2. CASE b = up /\ up.level # 1
    <3>1. up.inTx = k.inTx
      BY <1>2 DEF Fields
    <3> QED
      BY <1>0, <1>2, <2>2, <3>1
  <2>3. CASE b = DbSavepoint(up, up.level) /\ up.level # 1
    <3>1. PICK q : DbSavepoint(up, up.level) \in {up, [up EXCEPT !.points = q]}
      BY DEF DbSavepoint
    <3>2. up.inTx = k.inTx
      BY <1>2 DEF Fields
    <3>3. CASE b = up
      BY <1>0, <1>2, <2>3, <3>2, <3>3
    <3>4. CASE b = [up EXCEPT !.points = q]
      BY <1>0, <1>2, <2>3, <3>2, <3>4 DEF Fields
    <3> QED
      BY <2>3, <3>1, <3>3, <3>4
  <2> QED
    BY <1>3, <2>1, <2>2, <2>3
<1>5. /\ b.pdo /\ b.level = n /\ b.savepoints = k.savepoints
      /\ b.work = k.work /\ b.durable = k.durable /\ b.sound = k.sound
      /\ k.sound => b.scopes = Append(k.scopes, c)
  BY <1>2, <1>4 DEF Fields
<1>6. ASSUME k.sound
      PROVE  /\ Len(k.scopes) = k.level
             /\ \A j \in 1 .. k.level : b.scopes[j] = k.scopes[j]
             /\ b.scopes[n].real = Real(k, n, nesting)
  <2>1. /\ \A j \in 1 .. k.level : Append(k.scopes, c)[j] = k.scopes[j]
        /\ Append(k.scopes, c)[n] = c
    BY <1>0, <1>6
  <2> QED
    BY <1>0, <1>5, <1>6, <2>1
<1> QED
  BY <1>4, <1>5, <1>6 DEF b

(* begin() that throws. *)
LEMMA LevelFails ==
  ASSUME NEW k, LevelInv(k)
  PROVE  LET b == BeginFailed(k)
         IN  /\ b.pdo = k.pdo /\ b.level = k.level + 1 /\ b.inTx = k.inTx
             /\ b.work = k.work /\ b.durable = k.durable
<1>1. /\ DOMAIN Lost(k) = Fields /\ Lost(k).pdo = k.pdo /\ Lost(k).level = k.level
      /\ Lost(k).inTx = k.inTx /\ Lost(k).work = k.work /\ Lost(k).durable = k.durable
  BY DEF Lost, LevelInv, Shape, Fields
<1> QED
  BY <1>1 DEF BeginFailed, Fields

(* A statement: the database has its write, the levels are what they were. *)
LEMMA StatementIs ==
  ASSUME NEW k, LevelInv(k), WorkInv(k), NEW x \in Nat
  PROVE  LET d == Written(k, x)
         IN  /\ d.pdo = k.pdo /\ d.level = k.level /\ d.savepoints = k.savepoints
             /\ d.inTx = k.inTx /\ d.sound = k.sound
             /\ Held(d) = Held(k) \cup {x}
             /\ k.inTx => d.durable = k.durable
             /\ \A j \in 1 .. Len(k.scopes) : d.scopes[j].real = k.scopes[j].real
<1> DEFINE s == k.scopes
           last == Len(s)
           noted == IF ~k.sound THEN k
                    ELSE IF last = 0 THEN [k EXCEPT !.kept = @ \cup {x}]
                    ELSE [k EXCEPT !.scopes[last].writes = @ \cup {x}]
           d == Written(k, x)
<1>0. DOMAIN k = Fields /\ s \in Seq(Scope) /\ k.work \in Seq(Nat)
  BY DEF LevelInv, Shape, WorkInv, PointsInv, PointsType
<1>1. d = IF k.inTx THEN [noted EXCEPT !.work = Append(@, x)]
          ELSE [noted EXCEPT !.durable = @ \cup {x}]
  BY DEF Written
<1>2. /\ DOMAIN noted = Fields
      /\ \A f \in Fields \ {"kept", "scopes"} : noted[f] = k[f]
      /\ \A j \in 1 .. last : noted.scopes[j].real = s[j].real
  <2>1. CASE ~k.sound
    BY <1>0, <2>1
  <2>2. CASE k.sound /\ last = 0
    BY <1>0, <2>2 DEF Fields
  <2>3. CASE k.sound /\ last # 0
    <3> DEFINE scope == [s[last] EXCEPT !.writes = @ \cup {x}]
               grown == [s EXCEPT ![last] = scope]
    <3>1. last \in 1 .. Len(s) /\ DOMAIN s = 1 .. last
      BY <1>0, <2>3
    <3>2. scope.real = s[last].real
      <4>1. s[last] \in Scope
        BY <1>0, <3>1, ElementOfSeq
      <4> QED
        BY <4>1 DEF Scope
    <3>3. noted = [k EXCEPT !.scopes = grown]
      BY <2>3
    <3> HIDE DEF scope
    <3>4. \A j \in 1 .. last : grown[j].real = s[j].real
      BY <3>1, <3>2
    <3> HIDE DEF grown, noted
    <3>5. noted.scopes = grown
      BY <1>0, <3>3 DEF Fields
    <3> QED
      BY <1>0, <3>3, <3>4, <3>5 DEF Fields
  <2> QED
    BY <2>1, <2>2, <2>3
<1> HIDE DEF noted, d
<1>3. CASE k.inTx
  <2>1. /\ \A f \in Fields \ {"work"} : d[f] = noted[f]
        /\ d.work = Append(k.work, x)
    BY <1>1, <1>2, <1>3 DEF Fields
  <2>2. Range(Append(k.work, x)) = Range(k.work) \cup {x}
    <3>1. /\ DOMAIN Append(k.work, x) = DOMAIN k.work \cup {Len(k.work) + 1}
          /\ \A i \in DOMAIN k.work : Append(k.work, x)[i] = k.work[i]
          /\ Append(k.work, x)[Len(k.work) + 1] = x
      BY <1>0
    <3> QED
      BY <3>1 DEF Range
  <2>3. d.durable = k.durable
    BY <1>2, <2>1 DEF Fields
  <2>4. Held(d) = Held(k) \cup {x}
    BY <2>1, <2>2, <2>3 DEF Held
  <2> QED
    BY <1>2, <1>3, <2>1, <2>3, <2>4 DEF d, Fields
<1>4. CASE ~k.inTx
  <2>1. /\ \A f \in Fields \ {"durable"} : d[f] = noted[f]
        /\ d.durable = k.durable \cup {x}
    BY <1>1, <1>2, <1>4 DEF Fields
  <2>2. Held(d) = Held(k) \cup {x}
    BY <1>2, <2>1 DEF Held, Fields
  <2> QED
    BY <1>2, <1>4, <2>1, <2>2 DEF d, Fields
<1> QED
  BY <1>3, <1>4 DEF LevelInv, Shape

(* A level that ends as it was begun leaves a history. *)
LEMMA ScopeEndedSound ==
  ASSUME NEW k, LevelInv(k), k.level > 0, k.sound,
         NEW nesting \in BOOLEAN, NEW commits \in BOOLEAN,
         k.scopes[k.level].real = Real(k, k.level, nesting)
  PROVE  ScopeEnded(k, nesting, commits).sound
<1> DEFINE top == Last(k.scopes)
           w == IF commits \/ ~top.real THEN top.writes ELSE {}
<1>1. top = k.scopes[k.level] /\ top \in Scope
  BY DEF Last, LevelInv, Shape
<1>2. w \in SUBSET Nat
  BY <1>1 DEF Scope
<1>3. ScopeEnded(k, nesting, commits) = Passed(k, w)
  BY <1>1 DEF ScopeEnded
<1> HIDE DEF w
<1>4. Passed(k, w).sound
  BY <1>2, PassedLevel
<1> QED
  BY <1>3, <1>4

(* The first part of a sequence has some of its elements. *)
LEMMA CutRange ==
  ASSUME NEW w \in Seq(Nat), NEW a \in 0 .. Len(w)
  PROVE  Range(SubSeq(w, 1, a)) \subseteq Range(w)
<1>1. PICK v : v = SubSeq(w, 1, a)
  OBVIOUS
<1>2. v \in Seq(Nat) /\ Len(v) = a /\ \A i \in 1 .. a : v[i] = w[i]
  BY <1>1, CutIs
<1>3. DOMAIN v = 1 .. a /\ 1 .. a \subseteq DOMAIN w
  BY <1>2
<1> QED
  BY <1>1, <1>2, <1>3 DEF Range

(* commit() and rollback(), up to the point where the history may start    *)
(* again: what becomes of the writes, and of the levels around.            *)
LEMMA EndsAsHeld ==
  ASSUME NEW k, LevelInv(k), WorkInv(k), NEW nesting \in BOOLEAN, NEW commits \in BOOLEAN
  PROVE  LET e == EndsAs(k, nesting, commits)
             n == k.level
         IN  /\ DOMAIN e = Fields
             /\ e.pdo = k.pdo /\ e.savepoints = k.savepoints
             /\ Held(e) \subseteq Held(k) /\ (commits => Held(e) = Held(k))
             /\ n > 1 /\ ~nesting => Held(e) = Held(k)
             /\ ~k.pdo => e = k
             /\ k.pdo /\ n > 0 => e.level = n - 1
             /\ k.pdo /\ n > 1 => e.inTx = k.inTx /\ e.durable = k.durable
             /\ k.pdo /\ n = 1 /\ k.inTx =>
                  e.work = <<>> /\ (~commits => e.durable = k.durable)
             /\ k.pdo /\ n > 0 /\ k.sound /\ k.scopes[n].real = Real(k, n, nesting) =>
                  /\ e.sound
                  /\ \A j \in 1 .. n - 1 : e.scopes[j].real = k.scopes[j].real
<1> DEFINE s == k.scopes
           n == k.level
           se == ScopeEnded(k, nesting, commits)
           down == [se EXCEPT !.level = @ - 1]
           e == EndsAs(k, nesting, commits)
<1>1. e = IF ~k.pdo \/ n = 0 THEN k
          ELSE IF ~Real(k, n, nesting) \/ EndThrows(k, nesting) THEN down
          ELSE IF n = 1 THEN IF commits THEN DbCommit(down) ELSE DbRollback(down)
          ELSE IF commits THEN DbRelease(down, n) ELSE DbRollbackTo(down, n)
  BY DEF EndsAs
<1>2. n \in Nat /\ DOMAIN k = Fields /\ k.work \in Seq(Nat) /\ PointsInv(k.work, k.points)
  BY DEF LevelInv, Shape, WorkInv, PointsInv, PointsType
<1>3. CASE ~k.pdo \/ n = 0
  <2>1. e = k
    BY <1>1, <1>3
  <2> HIDE DEF e
  <2> QED
    BY <1>2, <1>3, <2>1 DEF e
<1>4. CASE k.pdo /\ n > 0
  <2>1. /\ DOMAIN se = Fields
        /\ \A x \in Fields \ {"scopes", "kept", "sound"} : se[x] = k[x]
        /\ se.sound /\ n > 1 =>
             /\ \A m \in 1 .. n - 2 : se.scopes[m] = s[m]
             /\ se.scopes[n - 1].real = s[n - 1].real
    BY <1>4, ScopeEndedIs
  <2>2. k.sound /\ s[n].real = Real(k, n, nesting) => se.sound
    BY <1>4, ScopeEndedSound
  <2> HIDE DEF se
  <2>3. /\ DOMAIN down = Fields /\ down.pdo = k.pdo /\ down.savepoints = k.savepoints
        /\ down.level = n - 1 /\ down.inTx = k.inTx /\ down.work = k.work
        /\ down.points = k.points /\ down.durable = k.durable
        /\ down.sound = se.sound /\ down.scopes = se.scopes
    BY <2>1 DEF Fields
  <2>4. \A j \in 1 .. n - 1 : se.sound => down.scopes[j].real = s[j].real
    <3>1. \A j \in 1 .. n - 1 : n > 1 /\ (j = n - 1 \/ j \in 1 .. n - 2)
      BY <1>2, <1>4
    <3> QED
      BY <2>1, <2>3, <3>1
  <2> HIDE DEF down, e
  <2>5. CASE ~Real(k, n, nesting) \/ EndThrows(k, nesting)
    <3>1. e = down
      BY <1>1, <1>4, <2>5
    <3>2. ~(n = 1 /\ k.inTx)
      BY <1>4, <2>5 DEF Real, EndThrows
    <3>3. Held(down) = Held(k)
      BY <2>3 DEF Held
    <3> QED
      BY <1>4, <2>2, <2>3, <2>4, <3>1, <3>2, <3>3 DEF e
  <2>6. CASE Real(k, n, nesting) /\ ~EndThrows(k, nesting) /\ n = 1
    <3> DEFINE saved == IF commits THEN Range(k.work) ELSE {}
    <3>1. e = Ended(down, saved)
      BY <1>1, <1>4, <2>3, <2>6 DEF DbCommit, DbRollback
    <3> HIDE DEF saved
    <3>2. /\ DOMAIN e = Fields /\ e.pdo = k.pdo /\ e.savepoints = k.savepoints
          /\ e.level = n - 1 /\ e.work = <<>> /\ e.durable = k.durable \cup saved
          /\ e.sound = se.sound /\ e.scopes = down.scopes
      BY <2>3, <3>1 DEF Ended, Fields
    <3>3. Held(e) = k.durable \cup saved
      BY <3>2 DEF Held, Range
    <3>4. /\ Held(e) \subseteq Held(k) /\ (commits => Held(e) = Held(k))
          /\ ~commits => e.durable = k.durable
      BY <3>2, <3>3 DEF Held, saved
    <3>5. k.sound /\ s[n].real = Real(k, n, nesting) => e.sound
      BY <2>2, <3>2
    <3>6. ~(n > 1) /\ 1 .. n - 1 = {}
      BY <2>6
    <3> QED
      BY <1>4, <3>2, <3>4, <3>5, <3>6 DEF e
  <2>7. CASE Real(k, n, nesting) /\ ~EndThrows(k, nesting) /\ n # 1
    <3>6. nesting
      BY <2>7 DEF Real
    <3>1. PICK i : i = IndexOf(down, n)
      OBVIOUS
    <3>2. /\ DOMAIN e = Fields
          /\ \A x \in Fields \ {"points", "work"} : e[x] = down[x]
          /\ e.work = IF commits THEN k.work ELSE SubSeq(k.work, 1, k.points[i].at)
      <4>1. CASE commits
        <5>1. e = DbRelease(down, n)
          BY <1>1, <1>4, <2>7, <4>1
        <5>2. PICK q : DbRelease(down, n) = [down EXCEPT !.points = q]
          BY DEF DbRelease
        <5> QED
          BY <2>3, <4>1, <5>1, <5>2 DEF Fields
      <4>2. CASE ~commits
        <5>1. e = DbRollbackTo(down, n)
          BY <1>1, <1>4, <2>7, <4>2
        <5>2. PICK v : v = SubSeq(k.work, 1, k.points[i].at)
          OBVIOUS
        <5>3. PICK q : DbRollbackTo(down, n) = [down EXCEPT !.work = v, !.points = q]
          BY <2>3, <3>1, <5>2 DEF DbRollbackTo
        <5> QED
          BY <2>3, <4>2, <5>1, <5>2, <5>3 DEF Fields
      <4> QED
        BY <4>1, <4>2
    <3>3. /\ e.pdo = k.pdo /\ e.savepoints = k.savepoints /\ e.level = n - 1
          /\ e.inTx = k.inTx /\ e.durable = k.durable
          /\ e.sound = se.sound /\ e.scopes = down.scopes
      BY <2>3, <3>2 DEF Fields
    <3>4. Range(e.work) \subseteq Range(k.work)
      <4>1. CASE commits
        BY <3>2, <4>1
      <4>2. CASE ~commits
        <5>1. Named(k, n) = Named(down, n)
          BY <2>3 DEF Named
        <5>2. Named(k, n) # {}
          BY <1>2, <1>4, <2>7 DEF Real, EndThrows
        <5>3. i \in DOMAIN k.points
          BY <3>1, <5>1, <5>2 DEF IndexOf, Named
        <5>4. k.points[i].at \in 0 .. Len(k.work)
          <6>1. k.points \in Seq([name : Nat, at : Nat])
            BY <1>2 DEF PointsInv, PointsType
          <6>2. i \in 1 .. Len(k.points) /\ k.points[i] \in [name : Nat, at : Nat]
            <7>1. DOMAIN k.points = 1 .. Len(k.points)
              BY <6>1
            <7> QED
              BY <5>3, <6>1, <7>1, ElementOfSeq
          <6>3. k.points[i].at <= Len(k.work)
            BY <1>2, <6>2 DEF PointsInv, PointsOrder
          <6> QED
            BY <1>2, <6>2, <6>3
        <5> QED
          BY <1>2, <3>2, <4>2, <5>4, CutRange
      <4> QED
        BY <4>1, <4>2
    <3>5. Held(e) \subseteq Held(k) /\ (commits => Held(e) = Held(k))
      BY <3>2, <3>3, <3>4 DEF Held
    <3> QED
      BY <1>4, <2>2, <2>4, <2>7, <3>2, <3>3, <3>5, <3>6 DEF e
  <2> QED
    BY <2>5, <2>6, <2>7
<1> QED
  BY <1>2, <1>3, <1>4

(* commit() and rollback(). *)
LEMMA LevelEnded ==
  ASSUME NEW k, LevelInv(k), WorkInv(k), NEW nesting \in BOOLEAN, NEW commits \in BOOLEAN
  PROVE  LET e == EndedBy(k, nesting, commits)
             n == k.level
         IN  /\ e.pdo = k.pdo /\ e.savepoints = k.savepoints
             /\ Held(e) \subseteq Held(k) /\ (commits => Held(e) = Held(k))
             /\ n > 1 /\ ~nesting => Held(e) = Held(k)
             /\ ~k.pdo /\ k.sound => e = k
             /\ k.pdo /\ n > 0 => e.level = n - 1
             /\ k.pdo /\ n > 1 => e.inTx = k.inTx /\ e.durable = k.durable
             /\ k.pdo /\ n = 1 /\ k.inTx =>
                  e.work = <<>> /\ (~commits => e.durable = k.durable)
             /\ k.pdo /\ n > 0 /\ k.sound /\ k.scopes[n].real = Real(k, n, nesting) =>
                  /\ e.sound
                  /\ \A j \in 1 .. n - 1 : e.scopes[j].real = k.scopes[j].real
<1>1. PICK m : m = EndsAs(k, nesting, commits)
  OBVIOUS
<1>2. PICK e : e = Settled(m)
  OBVIOUS
<1>3. EndedBy(k, nesting, commits) = e
  BY <1>1, <1>2, EndedByIs
<1>4. /\ DOMAIN m = Fields
      /\ m.pdo = k.pdo /\ m.savepoints = k.savepoints
      /\ Held(m) \subseteq Held(k) /\ (commits => Held(m) = Held(k))
      /\ k.level > 1 /\ ~nesting => Held(m) = Held(k)
      /\ ~k.pdo => m = k
      /\ k.pdo /\ k.level > 0 => m.level = k.level - 1
      /\ k.pdo /\ k.level > 1 => m.inTx = k.inTx /\ m.durable = k.durable
      /\ k.pdo /\ k.level = 1 /\ k.inTx =>
           m.work = <<>> /\ (~commits => m.durable = k.durable)
      /\ k.pdo /\ k.level > 0 /\ k.sound
           /\ k.scopes[k.level].real = Real(k, k.level, nesting) =>
           /\ m.sound
           /\ \A j \in 1 .. k.level - 1 : m.scopes[j].real = k.scopes[j].real
  BY <1>1, EndsAsHeld
<1>5. /\ \A x \in Fields \ {"sound", "kept"} : e[x] = m[x]
      /\ m.sound => e = m
  BY <1>2, <1>4 DEF Settled, Fields
<1>6. /\ e.pdo = m.pdo /\ e.savepoints = m.savepoints /\ e.level = m.level
      /\ e.inTx = m.inTx /\ e.durable = m.durable /\ e.work = m.work
  BY <1>5 DEF Fields
<1>7. Held(e) = Held(m)
  BY <1>6 DEF Held
<1>8. /\ e.pdo = k.pdo /\ e.savepoints = k.savepoints
      /\ Held(e) \subseteq Held(k) /\ (commits => Held(e) = Held(k))
      /\ k.level > 1 /\ ~nesting => Held(e) = Held(k)
      /\ ~k.pdo /\ k.sound => e = k
  BY <1>4, <1>5, <1>6, <1>7
<1>9. /\ k.pdo /\ k.level > 0 => e.level = k.level - 1
      /\ k.pdo /\ k.level > 1 => e.inTx = k.inTx /\ e.durable = k.durable
      /\ k.pdo /\ k.level = 1 /\ k.inTx =>
           e.work = <<>> /\ (~commits => e.durable = k.durable)
  BY <1>4, <1>6
<1>10. k.pdo /\ k.level > 0 /\ k.sound
         /\ k.scopes[k.level].real = Real(k, k.level, nesting) =>
         /\ e.sound
         /\ \A j \in 1 .. k.level - 1 : e.scopes[j].real = k.scopes[j].real
  BY <1>4, <1>5
<1> QED
  BY <1>3, <1>8, <1>9, <1>10

-----------------------------------------------------------------------------
(* The kinds of steps save(), delete() and the resultsets take.            *)

(* All of them keep the stack; a call that is doomed stays so, an          *)
(* exception leaves every function without any of the code behind the      *)
(* call, and only where failures may have no message is one silent.        *)
Keeps ==
  /\ calls # <<>> /\ StackInv' /\ SameCalls(calls, calls')
  /\ UNCHANGED <<entry, base, rigid>>
  /\ Doomed => Doomed'
  /\ result = "throw" => result' = "throw" /\ UNCHANGED conn
  /\ result' = "silent" => mute

(* No level begins or ends. *)
Stays ==
  /\ UNCHANGED <<conn, writes>> /\ Depth(calls') = Depth(calls)
  /\ Len(calls') = 1 /\ ~Opened(Head(calls')) =>
       Len(calls) = 1 /\ ~Opened(Top) /\ Top.phase \notin {"failed", "after"}

Leaving ==
  /\ Depth(calls') = Len(calls) - 1 /\ Len(calls') = Len(calls) - 1
  /\ calls' # <<>> => Opened(Head(calls'))

(* A call returns and leaves its level open. *)
Leaves ==
  /\ UNCHANGED <<conn, writes>> /\ Opened(Top) /\ Leaving
  /\ result' = "throw" \/ result = "silent"

(* A level begins ... *)
Begins ==
  /\ conn' = Begun(conn, Nests(Top)) /\ UNCHANGED writes
  /\ Top.phase = "enter" /\ result' = "none"
  /\ Len(calls') = Len(calls) /\ calls' # <<>>
  /\ Opened(Head(calls')) /\ Depth(calls') = Len(calls)

(* ... or begin() throws. *)
BeginFails ==
  /\ conn' = BeginFailed(conn) /\ conn.pdo /\ UNCHANGED writes
  /\ Top.phase = "enter" /\ result' = "throw" /\ Leaving

(* The level of the innermost call ends with it. *)
Ends(commits) ==
  /\ conn' = EndedBy(conn, Nests(Top), commits) /\ UNCHANGED writes
  /\ Opened(Top) /\ Leaving
  /\ commits => result = "none" /\ ~InCascade(Top) /\ result' \in {"true", "done", "throw"}
  /\ ~commits => result' \in Failures
  /\ calls' # <<>> /\ Head(calls').op = "save" => Top.op = "save"

(* A statement. *)
Executes ==
  /\ conn.pdo /\ writes' = writes + 1 /\ conn' = Written(conn, writes + 1)
  /\ Depth(calls') = Depth(calls) /\ Len(calls') = Len(calls) /\ calls' # <<>>
  /\ Head(calls').phase \in {"failed", "after"} /\ Top.phase \notin {"failed", "after"}
  /\ Opened(Head(calls')) <=> Opened(Top)
  /\ result' = "none"

(* A return keeps what Keeps asks for. *)
LEMMA ReturnKeeps ==
  ASSUME StackInv, calls # <<>>, calls' = Tail(calls), UNCHANGED <<entry, base, rigid>>,
         result' \in Results \ {"none"},
         InCascade(Top) => result' \in Failures,
         Top.op # "save" /\ result \in Failures => result' \in Failures,
         result = "throw" => result' = "throw" /\ UNCHANGED conn,
         result' = "silent" => mute
  PROVE  /\ Keeps /\ Leaving
         /\ calls' # <<>> /\ Head(calls').op = "save" => Top.op = "save"
<1>1. /\ StackInv' /\ SameCalls(calls, calls')
      /\ Len(calls') = Len(calls) - 1 /\ Depth(calls') = Len(calls) - 1
      /\ calls' # <<>> => Opened(Head(calls'))
      /\ calls' # <<>> /\ Head(calls').op = "save" => Top.op = "save"
      /\ Cascades(calls) /\ ~InCascade(Top) => Cascades(calls')
  BY Returning
<1>2. Doomed => Doomed'
  <2>1. CASE Top.op # "save" /\ result' \in Failures
    <3>1. calls' = <<>> \/ Head(calls').op # "save"
      BY <1>1, <2>1
    <3> QED
      BY <2>1, <3>1 DEF Doomed, Top
  <2>2. CASE Cascades(calls)
    <3>1. InCascade(Top) => Top.op # "save"
      BY DEF InCascade
    <3> QED
      BY <1>1, <2>1, <2>2, <3>1 DEF Doomed
  <2>3. CASE result = "throw"
    BY <2>3 DEF Doomed
  <2> QED
    BY <2>1, <2>2, <2>3 DEF Doomed
<1> QED
  BY <1>1, <1>2 DEF Keeps, Leaving

(* The frame of a call that goes on. *)
Moved(phase, todo) == [Top EXCEPT !.phase = phase, !.todo = todo]

(* So does a call that goes on. *)
LEMMA GotoKeeps ==
  ASSUME StackInv, calls # <<>>, UNCHANGED <<entry, base, rigid>>, result' = "none",
         NEW phase \in Phases, NEW todo \in Seq(Recs),
         calls' = <<Moved(phase, todo)>> \o Tail(calls),
         ~InCascade(Top), result # "throw", Top.op = "save" \/ result \notin Failures,
         \A g \in Frames :
           g.op = Top.op /\ g.rec = Top.rec /\ g.phase = phase /\ g.todo = todo => FrameOK(g)
  PROVE  /\ Keeps
         /\ Len(calls') = Len(calls) /\ calls' # <<>>
         /\ Head(calls').op = Top.op /\ Head(calls').rec = Top.rec
         /\ Head(calls').phase = phase /\ Head(calls').todo = todo
         /\ Depth(calls') = IF Opened(Head(calls')) THEN Len(calls) ELSE Len(calls) - 1
<1>1. Top \in Frames
  BY TopIs DEF FrameOK
<1>2. PICK f \in Frames : f = Top
  BY <1>1
<1>3. PICK g : g = [f EXCEPT !.phase = phase, !.todo = todo]
  OBVIOUS
<1>4. /\ g \in Frames /\ g.op = Top.op /\ g.rec = Top.rec
      /\ g.phase = phase /\ g.todo = todo
  BY <1>2, <1>3 DEF Frames
<1>5. FrameOK(g)
  BY <1>4
<1>6. calls' = <<g>> \o Tail(calls)
  BY <1>2, <1>3 DEF Moved
<1>7. /\ StackInv' /\ SameCalls(calls, calls')
      /\ Len(calls') = Len(calls) /\ calls' # <<>> /\ Head(calls') = g
      /\ Depth(calls') = IF Opened(g) THEN Len(calls) ELSE Len(calls) - 1
      /\ Cascades(calls) /\ ~InCascade(Top) => Cascades(calls')
  BY <1>4, <1>5, <1>6, Going
<1>8. Doomed => Doomed'
  BY <1>7 DEF Doomed
<1>9. Keeps
  BY <1>7, <1>8 DEF Keeps
<1> QED
  BY <1>4, <1>7, <1>9

(* And a call. *)
LEMMA CallKeeps ==
  ASSUME StackInv, calls # <<>>, result = "none", Waits(Top),
         NEW op \in Ops, NEW r \in Recs, NEW todo \in Seq(Recs), Call(Frame(op, r, todo)),
         op \in All \/ todo = <<>>, Top.op = "save" => op = "save"
  PROVE  Keeps /\ Stays
<1>1. PICK f : f = Frame(op, r, todo)
  OBVIOUS
<1>2. f \in Frames /\ f.op = op /\ f.phase = "enter" /\ f.todo = todo
  BY <1>1 DEF Frame, Frames, Phases
<1>3. FrameOK(f)
  BY <1>2 DEF FrameOK, Ops, All
<1>4. /\ calls' = <<f>> \o calls /\ result' = "none"
      /\ UNCHANGED <<conn, writes, entry, base, rigid>>
  BY <1>1 DEF Call
<1>5. /\ StackInv' /\ SameCalls(calls, calls')
      /\ Len(calls') = Len(calls) + 1 /\ calls' # <<>>
      /\ Depth(calls') = Len(calls)
      /\ Cascades(calls) => Cascades(calls')
  BY <1>2, <1>3, <1>4, Calling
<1>6. Depth(calls) = Len(calls) /\ Len(calls) \in Nat /\ Len(calls) > 0
  BY TopIs
<1>7. Doomed => Doomed'
  BY <1>5 DEF Doomed, Failures
<1>8. Keeps
  BY <1>4, <1>5, <1>7 DEF Keeps
<1>9. Stays
  BY <1>4, <1>5, <1>6 DEF Stays
<1> QED
  BY <1>8, <1>9

Step == Stays \/ Leaves \/ Begins \/ BeginFails \/ Ends(TRUE) \/ Ends(FALSE) \/ Executes

(* A call without a level of its own returns. *)
LEMMA PlainReturn ==
  ASSUME StackInv, calls # <<>>, ~Opened(Top), NEW value \in Results \ {"none"},
         Return(conn, value), value = "silent" => mute
  PROVE  Keeps /\ Stays
<1>1. result = "none" /\ ~InCascade(Top) /\ Depth(calls) = Len(calls) - 1
  <2>1. ~InCascade(Top)
    BY DEF InCascade, Opened, Owns
  <2> QED
    BY <2>1, TopIs
<1>2. /\ calls' = Tail(calls) /\ result' = value
      /\ UNCHANGED <<conn, writes, entry, base, rigid>>
  BY DEF Return
<1>3. Keeps /\ Leaving
  BY <1>1, <1>2, ReturnKeeps DEF Failures
<1>4. Stays
  <2>1. Len(calls') = 1 => Opened(Head(calls'))
    <3>1. Len(<<>>) = 0
      OBVIOUS
    <3> QED
      BY <1>3, <3>1 DEF Leaving
  <2> QED
    BY <1>1, <1>2, <1>3, <2>1 DEF Stays, Leaving
<1> QED
  BY <1>3, <1>4

(* An exception leaves a call. *)
LEMMA Throwing ==
  ASSUME StackInv, calls # <<>>, Return(conn, "throw")
  PROVE  Keeps /\ Step
<1>1. CASE ~Opened(Top)
  <2>1. PICK value : value = "throw"
    OBVIOUS
  <2>2. value \in Results \ {"none"} /\ Return(conn, value)
        /\ value # "silent"
    BY <2>1 DEF Results
  <2>3. Keeps /\ Stays
    BY <1>1, <2>2, PlainReturn
  <2> QED
    BY <2>3 DEF Step
<1>2. CASE Opened(Top)
  <2>1. /\ calls' = Tail(calls) /\ result' = "throw"
        /\ UNCHANGED <<conn, writes, entry, base, rigid>>
    BY DEF Return
  <2>2. Keeps /\ Leaving
    BY <2>1, ReturnKeeps DEF Failures, Results
  <2> QED
    BY <1>2, <2>1, <2>2 DEF Step, Leaves
<1> QED
  BY <1>1, <1>2

(* A call begins its level. *)
LEMMA Beginning ==
  ASSUME StackInv, calls # <<>>, Top.phase = "enter", NEW nesting, nesting = Nests(Top),
         NEW phase \in Phases \ {"enter"}, NEW todo \in Seq(Recs),
         Top.op = "save" => HasRelated(Top.rec),
         \A g \in Frames :
           g.op = Top.op /\ g.rec = Top.rec /\ g.phase = phase /\ g.todo = todo => FrameOK(g),
         BeginThen(nesting, phase, todo)
  PROVE  Keeps /\ Step
<1>1. ~InCascade(Top) /\ result = "none"
  <2>1. ~InCascade(Top) /\ ~Opened(Top)
    BY DEF InCascade, Opened
  <2> QED
    BY <2>1, TopIs
<1>2. CASE Goto(Begun(conn, nesting), phase, todo)
  <2>1. /\ calls' = <<Moved(phase, todo)>> \o Tail(calls)
        /\ result' = "none" /\ conn' = Begun(conn, Nests(Top))
        /\ UNCHANGED <<writes, entry, base, rigid>>
    BY <1>2 DEF Goto, Moved
  <2>2. /\ Keeps
        /\ Len(calls') = Len(calls) /\ calls' # <<>>
        /\ Head(calls').op = Top.op /\ Head(calls').rec = Top.rec
        /\ Head(calls').phase = phase
        /\ Depth(calls') = IF Opened(Head(calls')) THEN Len(calls) ELSE Len(calls) - 1
    <3>1. result \notin Failures
      BY <1>1 DEF Failures
    <3> QED
      BY <1>1, <2>1, <3>1, GotoKeeps
  <2>3. Opened(Head(calls'))
    BY <2>2 DEF Opened, Owns
  <2> QED
    BY <2>1, <2>2, <2>3 DEF Step, Begins
<1>3. CASE BeginMayFail(conn, nesting) /\ Return(BeginFailed(conn), "throw")
  <2>1. /\ calls' = Tail(calls) /\ result' = "throw" /\ conn' = BeginFailed(conn)
        /\ conn.pdo /\ UNCHANGED <<writes, entry, base, rigid>>
    BY <1>3 DEF Return, BeginMayFail
  <2>2. Keeps /\ Leaving
    BY <1>1, <2>1, ReturnKeeps DEF Failures, Results
  <2> QED
    BY <1>3, <2>1, <2>2 DEF Step, BeginFails
<1> QED
  BY <1>2, <1>3 DEF BeginThen

(* A call ends its level. *)
LEMMA Ending ==
  ASSUME StackInv, calls # <<>>, Opened(Top), NEW nesting, nesting = Nests(Top),
         NEW commits \in BOOLEAN, NEW value,
         commits => result = "none" /\ ~InCascade(Top) /\ value \in {"true", "done", "throw"},
         ~commits => value \in Failures,
         result # "throw", value = "silent" => mute,
         ReturnEnding(EndedBy(conn, nesting, commits), nesting, value)
  PROVE  Keeps /\ Step
<1>1. /\ calls' = Tail(calls) /\ conn' = EndedBy(conn, Nests(Top), commits)
      /\ result' \in {value, "throw"}
      /\ UNCHANGED <<writes, entry, base, rigid>>
  BY DEF ReturnEnding, Return
<1>2. /\ Keeps /\ Leaving
      /\ calls' # <<>> /\ Head(calls').op = "save" => Top.op = "save"
  BY <1>1, ReturnKeeps DEF Failures, Results
<1>3. Ends(commits)
  BY <1>1, <1>2 DEF Ends, Failures
<1>4. commits = TRUE \/ commits = FALSE
  OBVIOUS
<1> QED
  BY <1>2, <1>3, <1>4 DEF Step

(* A statement of a call. *)
LEMMA Executing ==
  ASSUME StackInv, calls # <<>>, ~InCascade(Top), result = "none",
         NEW phase \in {"failed", "after"}, NEW todo \in Seq(Recs),
         Top.phase \notin {"enter", "failed", "after"},
         \A g \in Frames :
           g.op = Top.op /\ g.rec = Top.rec /\ g.phase = phase /\ g.todo = todo => FrameOK(g),
         Execute(phase, todo)
  PROVE  Keeps /\ Step
<1>1. phase \in Phases /\ phase # "enter"
  BY DEF Phases
<1>2. /\ calls' = <<Moved(phase, todo)>> \o Tail(calls)
      /\ result' = "none" /\ conn' = Written(conn, writes + 1)
      /\ conn.pdo /\ writes' = writes + 1
      /\ UNCHANGED <<entry, base, rigid>>
  BY <1>1 DEF Execute, Moved
<1>3. /\ Keeps
      /\ Len(calls') = Len(calls) /\ calls' # <<>>
      /\ Head(calls').op = Top.op /\ Head(calls').rec = Top.rec
      /\ Head(calls').phase = phase
      /\ Depth(calls') = IF Opened(Head(calls')) THEN Len(calls) ELSE Len(calls) - 1
  <2>1. result \notin Failures
    BY DEF Failures
  <2> QED
    BY <1>1, <1>2, <2>1, GotoKeeps
<1>4. Opened(Head(calls')) <=> Opened(Top)
  BY <1>1, <1>3 DEF Opened, Owns
<1>5. Depth(calls') = Depth(calls)
  BY <1>3, <1>4, TopIs
<1> QED
  BY <1>1, <1>2, <1>3, <1>4, <1>5 DEF Step, Executes

(* A call with a level goes on without a statement. *)
LEMMA GoingOn ==
  ASSUME StackInv, calls # <<>>, ~InCascade(Top),
         result # "throw", Top.op = "save" \/ result \notin Failures,
         NEW phase \in Phases \ {"enter"}, NEW todo \in Seq(Recs),
         Opened(Top) \/ (~HasRelated(Top.rec) /\ Top.op = "save"),
         Opened(Top) \/ Top.phase \notin {"failed", "after"},
         \A g \in Frames :
           g.op = Top.op /\ g.rec = Top.rec /\ g.phase = phase /\ g.todo = todo => FrameOK(g),
         Goto(conn, phase, todo)
  PROVE  Keeps /\ Step
<1>1. /\ calls' = <<Moved(phase, todo)>> \o Tail(calls)
      /\ result' = "none" /\ UNCHANGED <<conn, writes, entry, base, rigid>>
      /\ UNCHANGED <<entry, base, rigid>> /\ phase \in Phases
  BY DEF Goto, Moved
<1>2. /\ Keeps
      /\ Len(calls') = Len(calls) /\ calls' # <<>>
      /\ Head(calls').op = Top.op /\ Head(calls').rec = Top.rec
      /\ Head(calls').phase = phase
      /\ Depth(calls') = IF Opened(Head(calls')) THEN Len(calls) ELSE Len(calls) - 1
  BY <1>1, GotoKeeps
<1>3. Opened(Head(calls')) <=> Opened(Top)
  BY <1>2 DEF Opened, Owns
<1>4. Depth(calls') = Depth(calls)
  BY <1>2, <1>3, TopIs
<1> QED
  BY <1>1, <1>2, <1>3, <1>4 DEF Step, Stays

(* What a save returns when a related record has failed. *)
LEMMA RefusalsFail ==
  /\ \A value \in Refusals \cup RelatedRefusals :
       /\ value \in Failures /\ value \in Results \ {"none"}
       /\ value = "silent" => mute
  /\ "throw" \in Failures
BY DEF Refusals, RelatedRefusals, Failures, Results

(* A related record: its save, or what comes of it. *)
LEMMA RelatedStep ==
  ASSUME StackInv, calls # <<>>, Top.op = "save", Top.phase \in {"before", "after"},
         Top.todo # <<>>, Related
  PROVE  Keeps /\ Step
<1>1. /\ FrameOK(Top) /\ Top \in Frames /\ Top.todo \in Seq(Recs)
      /\ Opened(Top) /\ ~InCascade(Top) /\ Waits(Top) /\ HasRelated(Top.rec)
  <2>1. FrameOK(Top) /\ Waits(Top) /\ ~InCascade(Top)
    BY TopIs DEF Waits, InCascade
  <2>2. Opened(Top)
    BY <2>1, TopIs
  <2>3. Top \in Frames /\ HasRelated(Top.rec)
    BY <2>1 DEF FrameOK
  <2>4. Top.todo \in Seq(Recs)
    BY <2>3 DEF Frames
  <2> QED
    BY <2>1, <2>2, <2>3, <2>4
<1>2. PICK nesting \in BOOLEAN : nesting = FALSE
  OBVIOUS
<1>3. nesting = Nests(Top)
  BY <1>2 DEF Nests, All
<1>4. CASE result = "none" /\ Call(Frame("save", Head(Top.todo), <<>>))
  <2>1. PICK r \in Recs, todo \in Seq(Recs) : r = Head(Top.todo) /\ todo = <<>>
    BY <1>1, HeadTailProperties, EmptySeq
  <2>2. PICK op \in Ops : op = "save"
    BY DEF Ops
  <2>3. Call(Frame(op, r, todo))
    BY <1>4, <2>1, <2>2
  <2>4. Keeps /\ Stays
    BY <1>1, <1>4, <2>1, <2>2, <2>3, CallKeeps
  <2> QED
    BY <2>4 DEF Step
<1>5. CASE \/ result = "none" /\ ReturnEnding(RolledBackBy(conn, FALSE), FALSE, "throw")
           \/ /\ result = "false"
              /\ \E value \in RelatedRefusals :
                   ReturnEnding(RolledBackBy(conn, FALSE), FALSE, value)
  <2>1. PICK value \in Failures :
          /\ ReturnEnding(RolledBackBy(conn, FALSE), FALSE, value)
          /\ result # "throw" /\ (value = "silent" => mute)
    BY <1>5, RefusalsFail
  <2>2. PICK commits \in BOOLEAN : commits = FALSE
    OBVIOUS
  <2>3. ReturnEnding(EndedBy(conn, nesting, commits), nesting, value)
    BY <1>2, <2>1, <2>2 DEF RolledBackBy
  <2> QED
    BY <1>1, <1>3, <2>1, <2>2, <2>3, Ending
<1>6. CASE result = "true" /\ Goto(conn, Top.phase, Tail(Top.todo))
  <2>1. PICK phase \in Phases \ {"enter"}, todo \in Seq(Recs) :
          phase = Top.phase /\ todo = Tail(Top.todo)
    BY <1>1, HeadTailProperties DEF Phases
  <2>2. Goto(conn, phase, todo) /\ result # "throw"
    BY <1>6, <2>1
  <2>3. \A g \in Frames :
          g.op = Top.op /\ g.rec = Top.rec /\ g.phase = phase /\ g.todo = todo => FrameOK(g)
    BY <1>1, <2>1 DEF FrameOK, All
  <2> QED
    BY <1>1, <2>2, <2>3, GoingOn
<1>7. CASE result = "throw" /\ Return(conn, "throw")
  BY <1>7, Throwing
<1> QED
  BY <1>4, <1>5, <1>6, <1>7 DEF Related

(* What the records of relations and resultsets are. *)
LEMMA RelationsTyped ==
  ASSUME NEW r \in Recs
  PROVE  /\ Parents[r] \in Seq(Recs) /\ Children[r] \in Seq(Recs)
         /\ <<>> \in Seq(Recs)
BY ModelSaveAssumption, EmptySeq

(* What is known of the innermost call. *)
LEMMA InIs ==
  ASSUME StackInv, NEW ops, NEW phase, In(ops, phase)
  PROVE  /\ calls # <<>> /\ Top.op \in ops /\ Top.phase = phase
         /\ FrameOK(Top) /\ Top.rec \in Recs /\ Top.todo \in Seq(Recs)
         /\ result # "none" => Waits(Top)
         /\ result = "none" \/ result \in Results
<1>1. calls # <<>> /\ Top.op \in ops /\ Top.phase = phase
  BY DEF In
<1>2. FrameOK(Top) /\ (result # "none" => Waits(Top))
  BY <1>1, TopIs
<1>3. Top \in Frames
  BY <1>2 DEF FrameOK
<1> QED
  BY <1>1, <1>2, <1>3 DEF Frames, StackInv

(* save() and delete() do not ask for nested transactions (model.c).       *)
LEMMA NestsNot ==
  ASSUME NEW f, f.op = "save" \/ f.op = "delete"
  PROVE  Nests(f) = FALSE
BY DEF Nests, All

(* save(). *)
LEMMA SaveEnterStep ==
  ASSUME StackInv, SaveEnter
  PROVE  Keeps /\ Step
<1>1. /\ calls # <<>> /\ Top.op = "save" /\ Top.phase = "enter" /\ Top.rec \in Recs
      /\ ~Opened(Top) /\ FrameOK(Top) /\ result = "none" /\ ~InCascade(Top)
  BY InIs DEF SaveEnter, Opened, Owns, InCascade, Waits, All
<1>2. CASE Return(conn, "throw")
  BY <1>1, <1>2, Throwing
<1>3. CASE \E value \in Refusals : Return(conn, value)
  <2>1. PICK value \in Results \ {"none"} :
          Return(conn, value) /\ (value = "silent" => mute)
    BY <1>3, RefusalsFail
  <2> QED
    BY <1>1, <2>1, PlainReturn DEF Step
<1>4. CASE HasRelated(Top.rec) /\ BeginThen(FALSE, "before", Parents[Top.rec])
  <2>1. PICK nesting \in BOOLEAN, phase \in Phases \ {"enter"}, todo \in Seq(Recs) :
          nesting = FALSE /\ phase = "before" /\ todo = Parents[Top.rec]
    BY <1>1, RelationsTyped DEF Phases
  <2>2. BeginThen(nesting, phase, todo) /\ nesting = Nests(Top)
    BY <1>1, <1>4, <2>1, NestsNot
  <2>3. \A g \in Frames :
          g.op = Top.op /\ g.rec = Top.rec /\ g.phase = phase /\ g.todo = todo => FrameOK(g)
    BY <1>1, <1>4, <2>1 DEF FrameOK, All
  <2> QED
    BY <1>1, <1>4, <2>2, <2>3, Beginning
<1>5. CASE ~HasRelated(Top.rec) /\ Goto(conn, "master", <<>>)
  <2>1. PICK phase \in Phases \ {"enter"}, todo \in Seq(Recs) :
          phase = "master" /\ todo = <<>>
    BY <1>1, RelationsTyped DEF Phases
  <2>2. Goto(conn, phase, todo) /\ result # "throw" /\ Top.phase \notin {"failed", "after"}
    BY <1>1, <1>5, <2>1
  <2>3. \A g \in Frames :
          g.op = Top.op /\ g.rec = Top.rec /\ g.phase = phase /\ g.todo = todo => FrameOK(g)
    BY <1>1, <2>1 DEF FrameOK, All
  <2> QED
    BY <1>1, <1>5, <2>2, <2>3, GoingOn
<1> QED
  BY <1>2, <1>3, <1>4, <1>5 DEF SaveEnter

(* The related records before the record itself. *)
LEMMA SaveBeforeStep ==
  ASSUME StackInv, SaveBefore
  PROVE  Keeps /\ Step
<1>1. /\ calls # <<>> /\ Top.op = "save" /\ Top.phase = "before" /\ Top.rec \in Recs
      /\ Opened(Top) /\ FrameOK(Top) /\ ~InCascade(Top)
      /\ result # "none" => Top.todo # <<>>
  BY InIs DEF SaveBefore, Opened, Owns, InCascade, Waits, FrameOK
<1>2. CASE (Top.todo = <<>> \/ result = "silent") /\ Goto(conn, "master", <<>>)
  <2>1. PICK phase \in Phases \ {"enter"}, todo \in Seq(Recs) :
          phase = "master" /\ todo = <<>>
    BY <1>1, RelationsTyped DEF Phases
  <2>2. Goto(conn, phase, todo) /\ result # "throw"
    BY <1>1, <1>2, <2>1 DEF Waits
  <2>3. \A g \in Frames :
          g.op = Top.op /\ g.rec = Top.rec /\ g.phase = phase /\ g.todo = todo => FrameOK(g)
    BY <1>1, <2>1 DEF FrameOK, All
  <2> QED
    BY <1>1, <2>2, <2>3, GoingOn
<1>3. CASE Top.todo # <<>> /\ Related
  BY <1>1, <1>3, RelatedStep
<1> QED
  BY <1>2, <1>3 DEF SaveBefore

(* The record itself fails, before or after its statement. *)
LEMMA MasterFailsStep ==
  ASSUME StackInv, calls # <<>>, Top.op = "save", Top.phase \in {"master", "failed"},
         MasterFails \/ Return(conn, "throw")
  PROVE  Keeps /\ Step
<1>1. /\ Opened(Top) <=> HasRelated(Top.rec)
      /\ result = "none" /\ ~InCascade(Top)
  BY TopIs DEF Opened, Owns, InCascade, Waits, All
<1>2. CASE HasRelated(Top.rec) /\ ReturnEnding(RolledBackBy(conn, FALSE), FALSE, Failed)
  <2>1. PICK nesting \in BOOLEAN, commits \in BOOLEAN, value \in Failures :
          nesting = FALSE /\ commits = FALSE /\ value = Failed /\ value # "silent"
    BY DEF Failed, Failures
  <2>2. ReturnEnding(EndedBy(conn, nesting, commits), nesting, value) /\ nesting = Nests(Top)
    BY <1>2, <2>1, NestsNot DEF RolledBackBy
  <2> QED
    BY <1>1, <1>2, <2>1, <2>2, Ending
<1>3. CASE ~HasRelated(Top.rec) /\ Return(conn, Failed)
  <2>1. PICK value \in Results \ {"none"} : value = Failed /\ value # "silent"
    BY DEF Failed, Results
  <2>2. Return(conn, value)
    BY <1>3, <2>1
  <2> QED
    BY <1>1, <1>3, <2>1, <2>2, PlainReturn DEF Step
<1>4. CASE Return(conn, "throw")
  BY <1>4, Throwing
<1> QED
  BY <1>2, <1>3, <1>4 DEF MasterFails

(* The record itself. *)
LEMMA SaveMasterStep ==
  ASSUME StackInv, SaveMaster
  PROVE  Keeps /\ Step
<1>1. /\ calls # <<>> /\ Top.op = "save" /\ Top.phase = "master" /\ Top.rec \in Recs
      /\ Opened(Top) <=> HasRelated(Top.rec)
      /\ FrameOK(Top) /\ result = "none" /\ ~InCascade(Top)
  BY InIs DEF SaveMaster, Opened, Owns, InCascade, Waits, All
<1>2. CASE MasterFails \/ Return(conn, "throw")
  BY <1>1, <1>2, MasterFailsStep
<1>3. ASSUME NEW phase \in {"failed", "after"}, NEW todo \in Seq(Recs),
             \/ phase = "failed" /\ todo = <<>>
             \/ phase = "after" /\ todo = Children[Top.rec],
             NEW g \in Frames,
             g.op = Top.op, g.rec = Top.rec, g.phase = phase, g.todo = todo
      PROVE  FrameOK(g)
  BY <1>1, <1>3 DEF FrameOK, All, HasRelated
<1>4. PICK none \in Seq(Recs), todo \in Seq(Recs) : none = <<>> /\ todo = Children[Top.rec]
  BY <1>1, RelationsTyped
<1>5. CASE Goto(conn, "after", Children[Top.rec])
  <2>1. PICK phase \in {"failed", "after"} : phase = "after"
    OBVIOUS
  <2>2. phase \in Phases \ {"enter"} /\ Goto(conn, phase, todo)
    BY <1>4, <1>5, <2>1 DEF Phases
  <2>3. \A g \in Frames :
          g.op = Top.op /\ g.rec = Top.rec /\ g.phase = phase /\ g.todo = todo => FrameOK(g)
    BY <1>3, <1>4, <2>1
  <2> QED
    BY <1>1, <2>2, <2>3, GoingOn
<1>6. CASE Execute("after", Children[Top.rec])
  <2>1. PICK phase \in {"failed", "after"} : phase = "after"
    OBVIOUS
  <2>2. Execute(phase, todo) /\ Top.phase \notin {"enter", "failed", "after"}
    BY <1>1, <1>4, <1>6, <2>1
  <2>3. \A g \in Frames :
          g.op = Top.op /\ g.rec = Top.rec /\ g.phase = phase /\ g.todo = todo => FrameOK(g)
    BY <1>3, <1>4, <2>1
  <2> QED
    BY <1>1, <2>2, <2>3, Executing
<1>7. CASE Execute("failed", <<>>)
  <2>1. PICK phase \in {"failed", "after"} : phase = "failed"
    OBVIOUS
  <2>2. Execute(phase, none) /\ Top.phase \notin {"enter", "failed", "after"}
    BY <1>1, <1>4, <1>7, <2>1
  <2>3. \A g \in Frames :
          g.op = Top.op /\ g.rec = Top.rec /\ g.phase = phase /\ g.todo = none => FrameOK(g)
    BY <1>3, <1>4, <2>1
  <2> QED
    BY <1>1, <2>2, <2>3, Executing
<1> QED
  BY <1>2, <1>5, <1>6, <1>7 DEF SaveMaster

(* There is no id of the record. *)
LEMMA SaveFailedStep ==
  ASSUME StackInv, SaveFailed
  PROVE  Keeps /\ Step
BY InIs, MasterFailsStep DEF SaveFailed

(* The related records after it, and the end of save(). *)
LEMMA SaveAfterStep ==
  ASSUME StackInv, SaveAfter
  PROVE  Keeps /\ Step
<1>1. /\ calls # <<>> /\ Top.op = "save" /\ Top.phase = "after" /\ Top.rec \in Recs
      /\ Opened(Top) <=> HasRelated(Top.rec)
      /\ Top.todo # <<>> => HasRelated(Top.rec)
      /\ ~InCascade(Top) /\ (result # "none" => Top.todo # <<>>)
  BY InIs DEF SaveAfter, Opened, Owns, InCascade, Waits, FrameOK
<1>2. CASE Return(conn, "throw")
  BY <1>1, <1>2, Throwing
<1>3. CASE Top.todo # <<>> /\ Related
  BY <1>1, <1>3, RelatedStep
<1>4. ASSUME result = "silent", NEW value \in {"true", "throw"}, Return(conn, value)
      PROVE  Keeps /\ Step
  <2>1. /\ calls' = Tail(calls) /\ result' \in {"true", "throw"} /\ Opened(Top)
        /\ UNCHANGED <<conn, writes, entry, base, rigid>>
    BY <1>1, <1>4 DEF Return
  <2>2. Keeps /\ Leaving
    BY <1>1, <1>4, <2>1, ReturnKeeps DEF Failures, Results
  <2> QED
    BY <1>4, <2>1, <2>2 DEF Step, Leaves
<1>5. ASSUME Top.todo = <<>>, HasRelated(Top.rec), NEW value \in {"true", "throw"},
             ReturnEnding(CommittedBy(conn, FALSE), FALSE, value)
      PROVE  Keeps /\ Step
  <2>1. PICK nesting \in BOOLEAN, commits \in BOOLEAN : nesting = FALSE /\ commits = TRUE
    OBVIOUS
  <2>2. /\ ReturnEnding(EndedBy(conn, nesting, commits), nesting, value)
        /\ nesting = Nests(Top) /\ result = "none"
    BY <1>1, <1>5, <2>1, NestsNot DEF CommittedBy
  <2> QED
    BY <1>1, <1>5, <2>1, <2>2, Ending
<1>6. ASSUME ~HasRelated(Top.rec), NEW value \in {"true", "throw"}, Return(conn, value)
      PROVE  Keeps /\ Step
  <2>1. value \in Results \ {"none"} /\ value # "silent"
    BY DEF Results
  <2> QED
    BY <1>1, <1>6, <2>1, PlainReturn DEF Step
<1> QED
  BY <1>2, <1>3, <1>4, <1>5, <1>6 DEF SaveAfter

(* delete(). *)
LEMMA DeleteEnterStep ==
  ASSUME StackInv, DeleteEnter
  PROVE  Keeps /\ Step
<1>1. /\ calls # <<>> /\ Top.op = "delete" /\ Top.phase = "enter" /\ Top.rec \in Recs
      /\ ~Opened(Top)
  BY InIs DEF DeleteEnter, Opened, Owns
<1>2. ASSUME NEW value \in {"false", "true", "throw"}, Return(conn, value)
      PROVE  Keeps /\ Step
  <2>1. value \in Results \ {"none"} /\ value # "silent"
    BY DEF Results
  <2> QED
    BY <1>1, <1>2, <2>1, PlainReturn DEF Step
<1>3. CASE BeginThen(FALSE, "execute", <<>>)
  <2>1. PICK nesting \in BOOLEAN, phase \in Phases \ {"enter"}, todo \in Seq(Recs) :
          nesting = FALSE /\ phase = "execute" /\ todo = <<>>
    BY <1>1, RelationsTyped DEF Phases
  <2>2. BeginThen(nesting, phase, todo) /\ nesting = Nests(Top)
    BY <1>1, <1>3, <2>1, NestsNot
  <2>3. \A g \in Frames :
          g.op = Top.op /\ g.rec = Top.rec /\ g.phase = phase /\ g.todo = todo => FrameOK(g)
    BY <1>1, <2>1 DEF FrameOK, All
  <2> QED
    BY <1>1, <2>2, <2>3, Beginning
<1> QED
  BY <1>2, <1>3 DEF DeleteEnter

(* The statement of delete(). *)
LEMMA DeleteExecuteStep ==
  ASSUME StackInv, DeleteExecute
  PROVE  Keeps /\ Step
<1>1. /\ calls # <<>> /\ Top.op = "delete" /\ Top.phase = "execute" /\ Top.rec \in Recs
      /\ Opened(Top) /\ result = "none" /\ ~InCascade(Top)
  BY InIs DEF DeleteExecute, Opened, Owns, InCascade, Waits, All
<1>2. CASE Execute("after", <<>>)
  <2>1. PICK phase \in {"failed", "after"}, todo \in Seq(Recs) : phase = "after" /\ todo = <<>>
    BY <1>1, RelationsTyped
  <2>2. Execute(phase, todo) /\ Top.phase \notin {"enter", "failed", "after"}
    BY <1>1, <1>2, <2>1
  <2>3. \A g \in Frames :
          g.op = Top.op /\ g.rec = Top.rec /\ g.phase = phase /\ g.todo = todo => FrameOK(g)
    BY <1>1, <2>1 DEF FrameOK, All
  <2> QED
    BY <1>1, <2>2, <2>3, Executing
<1>3. CASE Return(conn, "throw")
  BY <1>1, <1>3, Throwing
<1>4. CASE Goto(conn, "cascade", Children[Top.rec])
  <2>1. PICK phase \in Phases \ {"enter"}, todo \in Seq(Recs) :
          phase = "cascade" /\ todo = Children[Top.rec]
    BY <1>1, RelationsTyped DEF Phases
  <2>2. Goto(conn, phase, todo) /\ result \notin Failures
    BY <1>1, <1>4, <2>1 DEF Failures
  <2>3. \A g \in Frames :
          g.op = Top.op /\ g.rec = Top.rec /\ g.phase = phase /\ g.todo = todo => FrameOK(g)
    BY <1>1, <2>1 DEF FrameOK, All
  <2> QED
    BY <1>1, <2>2, <2>3, GoingOn DEF Failures
<1> QED
  BY <1>2, <1>3, <1>4 DEF DeleteExecute

(* One relation of the cascade. *)
LEMMA CascadeStep ==
  ASSUME StackInv, In({"delete"}, "cascade"), result # "throw",
         NEW m \in 1 .. Len(Top.todo), NEW n \in m .. Len(Top.todo), CascadeCall(m, n)
  PROVE  Keeps /\ Stays
<1>1. /\ calls # <<>> /\ Top.op = "delete" /\ Top.phase = "cascade"
      /\ Top.rec \in Recs /\ Top.todo \in Seq(Recs) /\ Top \in Frames
      /\ Opened(Top) /\ InCascade(Top) /\ calls \in Seq(Frames)
  <2>1. /\ calls # <<>> /\ Top.op = "delete" /\ Top.phase = "cascade" /\ FrameOK(Top)
        /\ Top.rec \in Recs /\ Top.todo \in Seq(Recs)
    BY InIs
  <2> QED
    BY <2>1 DEF Opened, Owns, InCascade, FrameOK, StackInv
<1>2. PICK todo \in Seq(Recs), rest \in Seq(Recs) :
        todo = SubSeq(Top.todo, m, n) /\ rest = SubSeq(Top.todo, n + 1, Len(Top.todo))
  <2>1. /\ \A i \in m .. n : i \in 1 .. Len(Top.todo)
        /\ \A i \in n + 1 .. Len(Top.todo) : i \in 1 .. Len(Top.todo)
    BY <1>1
  <2>2. /\ \A i \in m .. n : Top.todo[i] \in Recs
        /\ \A i \in n + 1 .. Len(Top.todo) : Top.todo[i] \in Recs
    BY <1>1, <2>1
  <2>3. SubSeq(Top.todo, m, n) \in Seq(Recs)
    BY <1>1, <2>2, SubSeqProperties
  <2>4. SubSeq(Top.todo, n + 1, Len(Top.todo)) \in Seq(Recs)
    BY <1>1, <2>2, SubSeqProperties
  <2> QED
    BY <2>3, <2>4
<1>3. PICK g, f :
        /\ g = [Top EXCEPT !.todo = SubSeq(@, n + 1, Len(@))]
        /\ f = Frame("deleteAll", Top.rec, SubSeq(Top.todo, m, n))
  OBVIOUS
<1>4. /\ g \in Frames /\ g.op = Top.op /\ g.rec = Top.rec /\ g.phase = Top.phase
      /\ g.todo = rest
  BY <1>1, <1>2, <1>3 DEF Frames
<1>5. f \in Frames /\ f.op = "deleteAll" /\ f.phase = "enter"
  BY <1>1, <1>2, <1>3 DEF Frame, Frames, Ops, Phases
<1>6. FrameOK(g) /\ FrameOK(f) /\ Waits(g) /\ InCascade(g) /\ Opened(f) = FALSE
  BY <1>1, <1>4, <1>5 DEF FrameOK, Waits, InCascade, Opened, All
<1>7. PICK c \in Seq(Frames) : c = <<g>> \o Tail(calls)
  BY <1>1, <1>4, ReplaceIs
<1>8. /\ c # <<>> /\ Len(c) = Len(calls) /\ Nth(c, Len(calls)) = g
      /\ \A j \in 1 .. Len(calls) - 1 : Nth(c, j) = Nth(calls, j)
  BY <1>1, <1>4, <1>7, ReplaceIs
<1>9. /\ calls' = <<f>> \o c /\ result' = "none"
      /\ UNCHANGED <<conn, writes, entry, base, rigid>>
  BY <1>3, <1>7 DEF CascadeCall
<1>10. /\ calls' \in Seq(Frames) /\ calls' # <<>> /\ Len(calls') = Len(calls) + 1
       /\ Head(calls') = f /\ Nth(calls', Len(calls) + 1) = f
       /\ \A j \in 1 .. Len(calls) : Nth(calls', j) = Nth(c, j)
  BY <1>5, <1>8, <1>9, PushIs
<1>11. Len(calls) \in Nat /\ Len(calls) > 0 /\ Top = Nth(calls, Len(calls))
  BY <1>1, PopIs DEF Top
<1>12. /\ Nth(calls', Len(calls)) = g
       /\ \A j \in 1 .. Len(calls) - 1 : Nth(calls', j) = Nth(calls, j)
  BY <1>8, <1>10, <1>11
<1>13. SameCalls(calls, calls')
  <2> SUFFICES ASSUME NEW j \in 1 .. Len(calls)
               PROVE  Nth(calls', j).op = Nth(calls, j).op /\ Nth(calls', j).rec = Nth(calls, j).rec
    BY DEF SameCalls
  <2>1. j = Len(calls) \/ j \in 1 .. Len(calls) - 1
    BY <1>11
  <2> QED
    BY <1>4, <1>11, <1>12, <2>1
<1>14. StackInv'
  <2>1. ASSUME NEW j \in 1 .. Len(calls')
        PROVE  /\ FrameOK(Nth(calls', j))
               /\ j < Len(calls') \/ result' # "none" => Waits(Nth(calls', j))
    <3>1. CASE j = Len(calls) + 1
      BY <1>6, <1>9, <1>10, <1>11, <3>1
    <3>2. CASE j = Len(calls)
      BY <1>6, <1>12, <3>2
    <3>3. CASE j \in 1 .. Len(calls) - 1
      <4>1. j \in 1 .. Len(calls) /\ j < Len(calls)
        BY <1>11, <3>3
      <4> QED
        BY <1>12, <3>3, <4>1 DEF StackInv
    <3> QED
      BY <1>10, <1>11, <3>1, <3>2, <3>3
  <2>2. ASSUME NEW j \in 1 .. Len(calls') - 1, Nth(calls', j).op = "save"
        PROVE  Nth(calls', j + 1).op = "save"
    <3>1. j \in 1 .. Len(calls) /\ (j = Len(calls) \/ j \in 1 .. Len(calls) - 1)
      BY <1>10, <1>11
    <3>2. j \in 1 .. Len(calls) - 1 /\ j + 1 \in 1 .. Len(calls)
      BY <1>1, <1>4, <1>11, <1>12, <2>2, <3>1
    <3>3. Nth(calls, j).op = "save"
      BY <1>12, <2>2, <3>2
    <3>4. Nth(calls, j + 1).op = "save"
      BY <3>2, <3>3 DEF StackInv
    <3> QED
      BY <1>10, <1>11, <1>13, <3>2, <3>4 DEF SameCalls
  <2> QED
    BY <1>9, <1>10, <2>1, <2>2 DEF StackInv, Results
<1>15. Cascades(calls')
  BY <1>6, <1>10, <1>11, <1>12 DEF Cascades
<1>16. Depth(calls') = Len(calls) /\ Depth(calls) = Len(calls)
  BY <1>1, <1>6, <1>10, <1>11 DEF Depth, Top
<1>17. Keeps
  BY <1>1, <1>9, <1>13, <1>14, <1>15 DEF Keeps, Doomed
<1>18. Stays
  BY <1>9, <1>10, <1>11, <1>16 DEF Stays
<1> QED
  BY <1>17, <1>18

(* The cascade of a delete() that failed. *)
LEMMA DeleteCascadeStep ==
  ASSUME StackInv, DeleteCascade
  PROVE  Keeps /\ Step
<1>1. /\ calls # <<>> /\ Top.op = "delete" /\ Top.phase = "cascade"
      /\ Top.rec \in Recs /\ Top.todo \in Seq(Recs)
      /\ Opened(Top) /\ InCascade(Top)
  BY InIs DEF DeleteCascade, Opened, Owns, InCascade
<1>2. CASE /\ result # "throw"
           /\ \E m \in 1 .. Len(Top.todo) : \E n \in m .. Len(Top.todo) : CascadeCall(m, n)
  BY <1>2, CascadeStep DEF DeleteCascade, Step
<1>3. CASE result = "throw" /\ Return(conn, "throw")
  BY <1>1, <1>3, Throwing
<1>4. CASE result # "throw" /\ ReturnEnding(RolledBackBy(conn, FALSE), FALSE, "false")
  <2>1. PICK nesting \in BOOLEAN, commits \in BOOLEAN, value \in Failures :
          nesting = FALSE /\ commits = FALSE /\ value = "false" /\ value # "silent"
    BY DEF Failures
  <2>2. /\ ReturnEnding(EndedBy(conn, nesting, commits), nesting, value)
        /\ nesting = Nests(Top) /\ result # "throw"
    BY <1>1, <1>4, <2>1, NestsNot DEF RolledBackBy
  <2> QED
    BY <1>1, <2>1, <2>2, Ending
<1> QED
  BY <1>2, <1>3, <1>4 DEF DeleteCascade

(* The end of delete(). *)
LEMMA DeleteAfterStep ==
  ASSUME StackInv, DeleteAfter
  PROVE  Keeps /\ Step
<1>1. /\ calls # <<>> /\ Top.op = "delete" /\ Top.phase = "after"
      /\ Opened(Top) /\ result = "none" /\ ~InCascade(Top)
  BY InIs DEF DeleteAfter, Opened, Owns, InCascade, Waits, All
<1>2. PICK value \in {"true", "throw"} : ReturnEnding(CommittedBy(conn, FALSE), FALSE, value)
  BY DEF DeleteAfter
<1>3. PICK nesting \in BOOLEAN, commits \in BOOLEAN : nesting = FALSE /\ commits = TRUE
  OBVIOUS
<1>4. /\ ReturnEnding(EndedBy(conn, nesting, commits), nesting, value)
      /\ nesting = Nests(Top)
  BY <1>1, <1>2, <1>3, NestsNot DEF CommittedBy
<1> QED
  BY <1>1, <1>3, <1>4, Ending

(* update() and delete() of a resultset. *)
LEMMA AllEnterStep ==
  ASSUME StackInv, AllEnter
  PROVE  Keeps /\ Step
<1>1. /\ calls # <<>> /\ Top.op \in All /\ Top.op # "save" /\ Top.op # "delete"
      /\ Top.phase = "enter" /\ Top.todo \in Seq(Recs)
  BY InIs DEF AllEnter, All
<1>2. PICK nesting \in BOOLEAN, phase \in Phases \ {"enter"}, todo \in Seq(Recs) :
        nesting = TRUE /\ phase = "loop" /\ todo = Top.todo
  BY <1>1 DEF Phases
<1>3. BeginThen(nesting, phase, todo) /\ nesting = Nests(Top)
  BY <1>1, <1>2 DEF AllEnter, Nests
<1>4. \A g \in Frames :
        g.op = Top.op /\ g.rec = Top.rec /\ g.phase = phase /\ g.todo = todo => FrameOK(g)
  BY <1>1, <1>2 DEF FrameOK
<1> QED
  BY <1>1, <1>3, <1>4, Beginning

(* Their loop. *)
LEMMA AllLoopStep ==
  ASSUME StackInv, AllLoop
  PROVE  Keeps /\ Step
<1>1. /\ calls # <<>> /\ Top.op \in All /\ Top.op # "save" /\ Top.op # "delete"
      /\ Top.phase = "loop" /\ Top.todo \in Seq(Recs)
      /\ Opened(Top) /\ ~InCascade(Top) /\ (result # "none" => Top.todo # <<>>)
  BY InIs DEF AllLoop, All, Opened, Owns, InCascade, Waits
<1>2. CASE Top.todo # <<>> /\ result = "none" /\ AllCalls(Head(Top.todo))
  <2>1. PICK op \in Ops, r \in Recs, todo \in Seq(Recs) :
          /\ op = (IF Top.op = "updateAll" THEN "save" ELSE "delete")
          /\ r = Head(Top.todo) /\ todo = <<>>
    BY <1>1, <1>2, HeadTailProperties, EmptySeq DEF Ops
  <2>2. Call(Frame(op, r, todo)) /\ Waits(Top)
    BY <1>1, <1>2, <2>1 DEF AllCalls, Waits
  <2> QED
    BY <1>1, <1>2, <2>1, <2>2, CallKeeps DEF Step
<1>3. CASE result = "true" /\ Goto(conn, "loop", Tail(Top.todo))
  <2>1. PICK phase \in Phases \ {"enter"}, todo \in Seq(Recs) :
          phase = "loop" /\ todo = Tail(Top.todo)
    BY <1>1, <1>3, HeadTailProperties DEF Phases
  <2>2. Goto(conn, phase, todo) /\ result # "throw" /\ result \notin Failures
    BY <1>3, <2>1 DEF Failures
  <2>3. \A g \in Frames :
          g.op = Top.op /\ g.rec = Top.rec /\ g.phase = phase /\ g.todo = todo => FrameOK(g)
    BY <1>1, <2>1 DEF FrameOK
  <2> QED
    BY <1>1, <2>2, <2>3, GoingOn
<1>4. CASE /\ result \in {"false", "silent"}
           /\ ReturnEnding(RolledBackBy(conn, TRUE), TRUE, "done")
  <2>1. PICK nesting \in BOOLEAN, commits \in BOOLEAN, value \in Failures :
          nesting = TRUE /\ commits = FALSE /\ value = "done" /\ value # "silent"
    BY DEF Failures
  <2>2. /\ ReturnEnding(EndedBy(conn, nesting, commits), nesting, value)
        /\ nesting = Nests(Top) /\ result # "throw"
    BY <1>1, <1>4, <2>1 DEF RolledBackBy, Nests
  <2> QED
    BY <1>1, <2>1, <2>2, Ending
<1>5. CASE result = "throw" /\ Return(conn, "throw")
  BY <1>1, <1>5, Throwing
<1>6. CASE /\ Top.todo = <<>> /\ result = "none"
           /\ ReturnEnding(CommittedBy(conn, TRUE), TRUE, "done")
  <2>1. PICK nesting \in BOOLEAN, commits \in BOOLEAN, value \in {"true", "done", "throw"} :
          nesting = TRUE /\ commits = TRUE /\ value = "done"
    OBVIOUS
  <2>2. /\ ReturnEnding(EndedBy(conn, nesting, commits), nesting, value)
        /\ nesting = Nests(Top)
    BY <1>1, <1>6, <2>1 DEF CommittedBy, Nests
  <2> QED
    BY <1>1, <1>6, <2>1, <2>2, Ending
<1> QED
  BY <1>2, <1>3, <1>4, <1>5, <1>6 DEF AllLoop

(* Every step of a call is one of these kinds. *)
LEMMA ModelStep ==
  ASSUME StackInv, Model
  PROVE  Keeps /\ Step
BY SaveEnterStep, SaveBeforeStep, SaveMasterStep, SaveFailedStep, SaveAfterStep,
   DeleteEnterStep, DeleteExecuteStep, DeleteCascadeStep, DeleteAfterStep,
   AllEnterStep, AllLoopStep DEF Model

-----------------------------------------------------------------------------
(* What the kinds of steps keep.                                           *)

(* What is known before a step of a call. *)
LEMMA BeforeStep ==
  ASSUME ConnInv, CallInv, Keeps
  PROVE  /\ calls # <<>> /\ Busy /\ Len(calls) \in Nat /\ Len(calls) > 0
         /\ LevelInv(conn) /\ WorkInv(conn) /\ conn.level \in Nat /\ conn.pdo \in BOOLEAN
         /\ writes \in Nat /\ base \in Nat /\ base <= writes
         /\ entry.level \in Nat /\ EntryInv'
         /\ entry' = entry /\ base' = base /\ mute' = mute
         /\ Depth(calls) = IF Opened(Top) THEN Len(calls) ELSE Len(calls) - 1
         /\ Nests(Top) \in BOOLEAN /\ Top = Nth(calls, Len(calls))
         /\ calls' \in Seq(Frames) /\ Len(calls') \in Nat
         /\ calls' = <<>> <=> Len(calls') = 0
         /\ Depth(calls') \in Nat /\ Depth(calls') <= Len(calls')
         /\ \A j \in 1 .. Len(calls) :
              j <= Len(calls') => Nests(Nth(calls', j)) = Nests(Nth(calls, j))
<1>1. calls # <<>> /\ Busy /\ StackInv /\ StackInv' /\ SameCalls(calls, calls')
  BY DEF Keeps, CallInv, Busy
<1>2. /\ Len(calls) \in Nat /\ Len(calls) > 0 /\ Top = Nth(calls, Len(calls))
      /\ Depth(calls) = IF Opened(Top) THEN Len(calls) ELSE Len(calls) - 1
  BY <1>1, TopIs
<1>3. /\ LevelInv(conn) /\ WorkInv(conn) /\ writes \in Nat
      /\ base \in Nat /\ base <= writes
      /\ EntryInv
  BY DEF ConnInv, AdapterInv, CallInv, CountInv
<1>4. conn.level \in Nat /\ conn.pdo \in BOOLEAN
  BY <1>3 DEF LevelInv, Shape
<1>5. entry' = entry /\ base' = base /\ mute' = mute
  BY DEF Keeps, rigid
<1>6. calls' \in Seq(Frames)
  BY <1>1 DEF StackInv
<1>7. Len(calls') \in Nat /\ (calls' = <<>> <=> Len(calls') = 0)
  BY <1>6
<1>8. Depth(calls') \in Nat /\ Depth(calls') <= Len(calls')
  BY <1>7 DEF Depth
<1>9. \A j \in 1 .. Len(calls) :
        j <= Len(calls') => Nests(Nth(calls', j)) = Nests(Nth(calls, j))
  BY <1>1 DEF SameCalls, Nests
<1>10. Nests(Top) \in BOOLEAN
  BY DEF Nests
<1>11. entry.level \in Nat /\ EntryInv'
  <2>1. ASSUME calls' # <<>> PROVE Owns(Nth(calls', 1)) = Owns(Nth(calls, 1))
    <3>1. 1 \in 1 .. Len(calls) /\ 1 <= Len(calls')
      BY <1>2, <1>7, <2>1
    <3> QED
      BY <1>1, <3>1 DEF SameCalls, Owns
  <2> QED
    BY <1>1, <1>3, <1>5, <2>1 DEF EntryInv
<1> QED
  BY <1>1, <1>2, <1>3, <1>4, <1>5, <1>6, <1>7, <1>8, <1>9, <1>10, <1>11

(* No level begins or ends. *)
LEMMA StaysKeeps ==
  ASSUME ConnInv, CallInv, Keeps, Stays
  PROVE  CallInv'
<1>0. /\ calls # <<>> /\ Busy /\ Len(calls) \in Nat /\ Len(calls) > 0
      /\ writes \in Nat /\ base \in Nat /\ base <= writes
      /\ entry' = entry /\ base' = base /\ mute' = mute
      /\ Depth(calls) = IF Opened(Top) THEN Len(calls) ELSE Len(calls) - 1
      /\ Depth(calls') \in Nat /\ Depth(calls') <= Len(calls')
      /\ calls' = <<>> <=> Len(calls') = 0
      /\ conn.level \in Nat /\ entry.level \in Nat
      /\ EntryInv' /\ Len(calls') \in Nat
  BY BeforeStep
<1>1. conn' = conn /\ writes' = writes /\ Depth(calls') = Depth(calls) /\ Made' = Made
  BY <1>0 DEF Stays, Made
<1>2. CountInv'
  <2>1. /\ Held(conn) \subseteq 1 .. writes
        /\ Len(calls) = 1 /\ ~Opened(Top) /\ Top.phase \notin {"failed", "after"} =>
             writes = base
    BY <1>0 DEF CallInv, CountInv
  <2>2. Len(calls') = 1 /\ ~Opened(Head(calls')) =>
          writes = base
    BY <2>1 DEF Stays
  <2>3. ~mute => result' # "silent"
    BY DEF Keeps
  <2> QED
    BY <1>0, <1>1, <2>1, <2>2, <2>3 DEF CountInv, Top
<1>3. KeptInv'
  BY <1>0, <1>1 DEF CallInv, KeptInv, Keeps
<1>4. OfflineInv'
  BY <1>0, <1>1 DEF CallInv, OfflineInv, Keeps
<1>9. DepthInv'
  BY <1>0, <1>1 DEF CallInv, DepthInv
<1>5. OnlineInv'
  BY <1>0, <1>1 DEF CallInv, OnlineInv
<1>6. MatchInv'
  <2> SUFFICES ASSUME conn.pdo, entry.sound, ~mute, result' # "throw"
               PROVE  /\ conn.level = entry.level + Depth(calls) /\ conn.sound
                      /\ \A j \in 1 .. Depth(calls) :
                           conn.scopes[entry.level + j].real =
                             Real(conn, entry.level + j, Nests(Nth(calls', j)))
    BY <1>0, <1>1 DEF MatchInv
  <2>1. result # "throw"
    BY DEF Keeps
  <2>2. /\ conn.level = entry.level + Depth(calls) /\ conn.sound
        /\ \A j \in 1 .. Depth(calls) :
             conn.scopes[entry.level + j].real =
               Real(conn, entry.level + j, Nests(Nth(calls, j)))
    BY <1>0, <2>1 DEF CallInv, MatchInv
  <2>3. \A j \in 1 .. Depth(calls) : Nests(Nth(calls', j)) = Nests(Nth(calls, j))
    <3>1. \A j \in 1 .. Depth(calls) : j \in 1 .. Len(calls) /\ j <= Len(calls')
      BY <1>0, <1>1
    <3> QED
      BY <3>1, BeforeStep
  <2> QED
    BY <2>2, <2>3
<1>7. RestInv'
  <2> DEFINE rest == \/ Made \subseteq conn.durable
                     \/ Made \cap conn.durable = {}
             none == \/ Made \cap Held(conn) = {}
                     \/ ~entry.own /\ writes <= base + 1
  <2> SUFFICES ASSUME calls' = <<>>
               PROVE  rest /\ (result' \in {"false", "silent"} => none)
    <3>1. rest' = rest /\ none' = none
      BY <1>0, <1>1
    <3> QED
      BY <3>1 DEF RestInv, Returned
  <2>1. Len(calls) = 1 /\ ~Opened(Top)
    <3>1. Len(calls') = 0 /\ Depth(calls) \in Nat /\ Depth(calls) <= 0
      BY <1>0, <1>1
    <3>2. Depth(calls) = 0
      BY <3>1
    <3> QED
      BY <1>0, <3>2
  <2>2. writes <= base + 1 /\ (writes = base \/ Top.phase \in {"failed", "after"})
    BY <2>1 DEF CallInv, CountInv
  <2>3. CASE writes # base
    <3>1. Made = {writes}
      BY <1>0, <2>2, <2>3 DEF Made
    <3>2. Owns(Top) = FALSE /\ Nth(calls, 1) = Top
      BY <2>1, <2>2, <2>3, BeforeStep DEF Opened, Owns
    <3>3. entry.own = FALSE
      BY <1>0, <3>2 DEF CallInv, EntryInv
    <3> QED
      BY <2>2, <3>1, <3>3
  <2>4. CASE writes = base
    <3>1. Made = {}
      BY <1>0, <2>4 DEF Made
    <3> QED
      BY <3>1
  <2> QED
    BY <2>3, <2>4
<1>8. StackInv'
  BY DEF Keeps
<1> QED
  BY <1>0, <1>2, <1>3, <1>4, <1>5, <1>6, <1>7, <1>8, <1>9 DEF CallInv

(* A call returns with its level open. *)
LEMMA LeavesKeeps ==
  ASSUME ConnInv, CallInv, Keeps, Leaves
  PROVE  CallInv'
<1>0. /\ calls # <<>> /\ Busy /\ Len(calls) \in Nat /\ Len(calls) > 0
      /\ writes \in Nat /\ base \in Nat /\ base <= writes
      /\ entry' = entry /\ base' = base /\ mute' = mute
      /\ Depth(calls) = IF Opened(Top) THEN Len(calls) ELSE Len(calls) - 1
      /\ calls' = <<>> <=> Len(calls') = 0
      /\ conn.level \in Nat /\ entry.level \in Nat
      /\ EntryInv' /\ Len(calls') \in Nat
  BY BeforeStep
<1>1. /\ conn' = conn /\ writes' = writes /\ Made' = Made
      /\ Depth(calls) = Len(calls) /\ Depth(calls') = Len(calls) - 1
      /\ calls' # <<>> => Opened(Head(calls'))
  BY <1>0 DEF Leaves, Leaving, Made
<1>2. CountInv'
  <2>1. Held(conn) \subseteq 1 .. writes
    BY DEF CallInv, CountInv
  <2>2. Len(calls') = 1 => Opened(Head(calls'))
    BY <1>0, <1>1
  <2>3. ~mute => result' # "silent"
    BY DEF Keeps
  <2> QED
    BY <1>0, <1>1, <2>1, <2>2, <2>3 DEF CountInv, Top
<1>3. KeptInv'
  BY <1>0, <1>1 DEF CallInv, KeptInv, Keeps
<1>4. OfflineInv'
  BY <1>0, <1>1 DEF CallInv, OfflineInv, Keeps
<1>9. DepthInv'
  <2> SUFFICES ASSUME conn.pdo PROVE conn.level >= entry.level + (Len(calls) - 1)
    BY <1>0, <1>1 DEF DepthInv
  <2>1. conn.level >= entry.level + Depth(calls)
    BY <1>0 DEF CallInv, DepthInv
  <2> QED
    BY <1>0, <1>1, <2>1
<1>5. OnlineInv'
  BY <1>0, <1>1 DEF CallInv, OnlineInv
<1>6. MatchInv'
  <2>1. mute \/ result' = "throw"
    BY DEF CallInv, CountInv, Leaves
  <2> QED
    BY <1>0, <2>1 DEF MatchInv
<1>7. RestInv'
  <2> SUFFICES ASSUME conn.pdo, entry.level = 0, entry.sound, conn.level = 0
               PROVE  FALSE
    BY <1>0, <1>1 DEF RestInv, Alone
  <2>1. conn.level >= entry.level + Depth(calls)
    BY <1>0 DEF CallInv, DepthInv
  <2> QED
    BY <1>0, <1>1, <2>1
<1>8. StackInv'
  BY DEF Keeps
<1> QED
  BY <1>0, <1>2, <1>3, <1>4, <1>5, <1>6, <1>7, <1>8, <1>9 DEF CallInv

(* A call that is alone and has not begun anything has made no statement. *)
LEMMA NothingMade ==
  ASSUME ConnInv, CallInv, Keeps, conn.pdo, conn.level = 0, Top.phase = "enter"
  PROVE  Len(calls) = 1 /\ writes = base /\ Made = {}
<1>0. /\ calls # <<>> /\ Busy /\ Len(calls) \in Nat /\ Len(calls) > 0
      /\ writes \in Nat /\ base \in Nat
      /\ Depth(calls) = IF Opened(Top) THEN Len(calls) ELSE Len(calls) - 1
      /\ conn.level \in Nat /\ entry.level \in Nat
  BY BeforeStep
<1>1. ~Opened(Top) /\ Top.phase \notin {"failed", "after"}
  BY DEF Opened
<1>2. conn.level >= entry.level + Depth(calls)
  BY <1>0 DEF CallInv, DepthInv
<1>3. Len(calls) = 1
  <2>1. Depth(calls) = Len(calls) - 1
    BY <1>0, <1>1
  <2>2. PICK e \in Nat, n \in Nat : e = entry.level /\ n = Len(calls)
    BY <1>0
  <2>3. n > 0 /\ 0 >= e + (n - 1)
    BY <1>0, <1>2, <2>1, <2>2
  <2>4. n = 1
    BY <2>3
  <2> QED
    BY <2>2, <2>4
<1>4. writes = base
  BY <1>0, <1>1, <1>3 DEF CallInv, CountInv
<1> QED
  BY <1>0, <1>3, <1>4 DEF Made

(* begin() throws. *)
LEMMA BeginFailsKeeps ==
  ASSUME ConnInv, CallInv, Keeps, BeginFails
  PROVE  CallInv'
<1>0. /\ calls # <<>> /\ Busy /\ Len(calls) \in Nat /\ Len(calls) > 0
      /\ writes \in Nat /\ base \in Nat /\ base <= writes
      /\ entry' = entry /\ base' = base /\ mute' = mute
      /\ Depth(calls) = IF Opened(Top) THEN Len(calls) ELSE Len(calls) - 1
      /\ calls' = <<>> <=> Len(calls') = 0
      /\ conn.level \in Nat /\ entry.level \in Nat /\ LevelInv(conn)
      /\ EntryInv' /\ Len(calls') \in Nat
  BY BeforeStep
<1>1. /\ conn' = BeginFailed(conn) /\ conn.pdo /\ writes' = writes /\ Made' = Made
      /\ result' = "throw" /\ Top.phase = "enter" /\ ~Opened(Top)
      /\ Depth(calls') = Len(calls) - 1 /\ Len(calls') = Len(calls) - 1
      /\ calls' # <<>> => Opened(Head(calls'))
      /\ Depth(calls) = Len(calls) - 1
  BY <1>0 DEF BeginFails, Leaving, Made, Opened
<1>2. /\ conn'.pdo = conn.pdo /\ conn'.level = conn.level + 1 /\ conn'.inTx = conn.inTx
      /\ conn'.work = conn.work /\ conn'.durable = conn.durable
  BY <1>0, <1>1, LevelFails
<1>3. Held(conn') = Held(conn)
  BY <1>2 DEF Held
<1>4. CountInv'
  <2>1. Held(conn') \subseteq 1 .. writes
    BY <1>3 DEF CallInv, CountInv
  <2>2. Len(calls') = 1 => Opened(Head(calls'))
    <3>1. calls' = <<>> <=> Len(calls') = 0
      BY <1>0
    <3>2. calls' # <<>> => Opened(Head(calls'))
      BY <1>1
    <3> QED
      BY <3>1, <3>2
  <2>3. result' # "silent"
    BY <1>1
  <2> QED
    BY <1>0, <1>1, <2>1, <2>2, <2>3 DEF CountInv, Top
<1>5. KeptInv'
  BY <1>1 DEF KeptInv, Doomed
<1>6. OfflineInv'
  BY <1>0, <1>1, <1>2 DEF CallInv, OfflineInv
<1>11. conn.level >= entry.level + (Len(calls) - 1)
  BY <1>0, <1>1 DEF CallInv, DepthInv
<1>12. DepthInv'
  BY <1>0, <1>1, <1>2, <1>11 DEF DepthInv
<1>7. OnlineInv'
  <2> SUFFICES ASSUME entry.sound
               PROVE  /\ calls' # <<>> => conn.inTx
                      /\ entry.level = 0 => Made \cap conn.durable = {}
    BY <1>0, <1>1, <1>2 DEF OnlineInv
  <2>1. conn.level = 0 => Len(calls) = 1 /\ Made = {}
    BY <1>1, NothingMade
  <2>2. /\ conn.level > 0 => conn.inTx
        /\ entry.level = 0 /\ conn.level > 0 => Made \cap conn.durable = {}
    BY <1>0, <1>1 DEF CallInv, OnlineInv
  <2> QED
    BY <1>0, <1>1, <2>1, <2>2
<1>8. MatchInv'
  BY <1>1 DEF MatchInv
<1>9. RestInv'
  BY <1>0, <1>2 DEF RestInv
<1>10. StackInv'
  BY DEF Keeps
<1> QED
  BY <1>0, <1>4, <1>5, <1>6, <1>7, <1>8, <1>9, <1>10, <1>12 DEF CallInv

(* A level begins. *)
LEMMA BeginsKeeps ==
  ASSUME ConnInv, CallInv, Keeps, Begins
  PROVE  CallInv'
<1>0. /\ calls # <<>> /\ Busy /\ Len(calls) \in Nat /\ Len(calls) > 0
      /\ writes \in Nat /\ base \in Nat /\ base <= writes
      /\ entry' = entry /\ base' = base /\ mute' = mute
      /\ Depth(calls) = IF Opened(Top) THEN Len(calls) ELSE Len(calls) - 1
      /\ conn.level \in Nat /\ entry.level \in Nat /\ LevelInv(conn)
      /\ Nests(Top) \in BOOLEAN /\ Top = Nth(calls, Len(calls)) /\ conn.pdo \in BOOLEAN
      /\ EntryInv'
  BY BeforeStep
<1>1. /\ writes' = writes /\ Made' = Made
      /\ result' = "none" /\ Top.phase = "enter" /\ ~Opened(Top)
      /\ Depth(calls') = Len(calls) /\ Len(calls') = Len(calls)
      /\ calls' # <<>> /\ Opened(Head(calls')) /\ Depth(calls) = Len(calls) - 1
      /\ Doomed => Doomed'
  BY <1>0 DEF Begins, Made, Opened, Keeps
<1>2. PICK nesting \in BOOLEAN : nesting = Nests(Top)
  BY <1>0
<1>3. conn' = Begun(conn, nesting)
  BY <1>2 DEF Begins
<1>4. conn.pdo =>
        /\ conn'.pdo /\ conn'.level = conn.level + 1 /\ conn'.savepoints = conn.savepoints
        /\ conn'.work = conn.work /\ conn'.durable = conn.durable
        /\ conn'.sound = conn.sound
        /\ conn.level = 0 \/ conn.inTx => conn'.inTx
        /\ conn.sound =>
             /\ \A j \in 1 .. conn.level : conn'.scopes[j] = conn.scopes[j]
             /\ conn'.scopes[conn.level + 1].real = Real(conn, conn.level + 1, nesting)
  BY <1>0, <1>3, LevelBegins
<1>5. ~conn.pdo => conn' = conn
  BY <1>3 DEF Begun
<1>6. conn'.pdo = conn.pdo /\ Held(conn') = Held(conn)
  <2>1. CASE conn.pdo
    <3>1. Held(conn') = Held(conn)
      BY <1>4, <2>1 DEF Held
    <3> QED
      BY <1>4, <2>1, <3>1, Zenon
  <2>2. CASE ~conn.pdo
    BY <1>5, <2>2
  <2> QED
    BY <2>1, <2>2
<1>7. CountInv'
  <2>1. Held(conn') \subseteq 1 .. writes
    BY <1>6 DEF CallInv, CountInv
  <2> QED
    BY <1>0, <1>1, <2>1 DEF CountInv, Top
<1>8. KeptInv'
  BY <1>0, <1>1, <1>6 DEF CallInv, KeptInv
<1>9. OfflineInv'
  BY <1>0, <1>1, <1>5, <1>6 DEF CallInv, OfflineInv, Keeps
<1>14. DepthInv'
  <2> SUFFICES ASSUME conn.pdo PROVE conn.level + 1 >= entry.level + Len(calls)
    BY <1>0, <1>1, <1>4, <1>6 DEF DepthInv
  <2>1. conn.level >= entry.level + (Len(calls) - 1)
    BY <1>0, <1>1 DEF CallInv, DepthInv
  <2> QED
    BY <1>0, <2>1
<1>10. OnlineInv'
  <2> SUFFICES ASSUME conn.pdo, entry.sound
               PROVE  /\ conn'.inTx
                      /\ entry.level = 0 => Made \cap conn'.durable = {}
    BY <1>0, <1>1, <1>6 DEF OnlineInv
  <2>1. /\ conn.level > 0 => conn.inTx
        /\ entry.level = 0 /\ conn.level > 0 => Made \cap conn.durable = {}
    BY <1>0 DEF CallInv, OnlineInv
  <2>2. conn.level = 0 => Made = {}
    BY <1>1, NothingMade
  <2> QED
    BY <1>0, <1>1, <1>4, <2>1, <2>2
<1>11. MatchInv'
  <2> SUFFICES ASSUME conn.pdo, entry.sound, ~mute
               PROVE  /\ conn'.level = entry.level + Depth(calls') /\ conn'.sound
                      /\ \A j \in 1 .. Depth(calls') :
                           conn'.scopes[entry.level + j].real =
                             Real(conn', entry.level + j, Nests(Nth(calls', j)))
    BY <1>0, <1>6 DEF MatchInv
  <2>1. /\ conn.level = entry.level + Depth(calls) /\ conn.sound
        /\ \A j \in 1 .. Depth(calls) :
             conn.scopes[entry.level + j].real =
               Real(conn, entry.level + j, Nests(Nth(calls, j)))
    BY <1>0, <1>1 DEF CallInv, MatchInv, Keeps
  <2>2. ASSUME NEW j \in 1 .. Len(calls)
        PROVE  conn'.scopes[entry.level + j].real =
                 Real(conn', entry.level + j, Nests(Nth(calls', j)))
    <3>1. Nests(Nth(calls', j)) = Nests(Nth(calls, j))
      BY <1>0, <1>1, <2>2, BeforeStep
    <3>2. Real(conn', entry.level + j, Nests(Nth(calls, j))) =
            Real(conn, entry.level + j, Nests(Nth(calls, j)))
      BY <1>4 DEF Real
    <3>3. CASE j = Len(calls)
      <4>1. entry.level + j = conn.level + 1 /\ Nests(Nth(calls, j)) = nesting
        BY <1>0, <1>1, <1>2, <2>1, <3>3
      <4> QED
        BY <1>4, <2>1, <3>1, <3>2, <4>1
    <3>4. CASE j # Len(calls)
      <4>1. j \in 1 .. Depth(calls) /\ entry.level + j \in 1 .. conn.level
        BY <1>0, <1>1, <2>1, <3>4
      <4> QED
        BY <1>4, <2>1, <3>1, <3>2, <4>1
    <3> QED
      BY <3>3, <3>4
  <2>3. conn'.level = conn.level + 1 /\ conn'.sound
    BY <1>4, <2>1
  <2>4. entry.level \in Nat /\ Len(calls) \in Nat /\ conn.level = entry.level + (Len(calls) - 1)
    BY <1>0, <1>1, <2>1
  <2>5. conn'.level = entry.level + Len(calls)
    BY <2>3, <2>4
  <2> QED
    BY <1>1, <2>2, <2>3, <2>5
<1>12. RestInv'
  BY <1>1 DEF RestInv, Returned
<1>13. StackInv'
  BY DEF Keeps
<1> QED
  BY <1>0, <1>7, <1>8, <1>9, <1>10, <1>11, <1>12, <1>13, <1>14 DEF CallInv

(* A level ends. *)
LEMMA EndsKeeps ==
  ASSUME ConnInv, CallInv, Keeps, NEW commits \in BOOLEAN, Ends(commits)
  PROVE  CallInv'
<1>0. /\ calls # <<>> /\ Busy /\ Len(calls) \in Nat /\ Len(calls) > 0
      /\ writes \in Nat /\ base \in Nat /\ base <= writes
      /\ entry' = entry /\ base' = base /\ mute' = mute
      /\ conn.level \in Nat /\ entry.level \in Nat
      /\ LevelInv(conn) /\ WorkInv(conn)
      /\ Nests(Top) \in BOOLEAN /\ Top = Nth(calls, Len(calls)) /\ conn.pdo \in BOOLEAN
      /\ calls' = <<>> <=> Len(calls') = 0
      /\ EntryInv'
  BY BeforeStep
<1>1. /\ writes' = writes /\ Made' = Made /\ Opened(Top)
      /\ Depth(calls') = Len(calls) - 1 /\ Len(calls') = Len(calls) - 1
      /\ calls' # <<>> => Opened(Head(calls'))
      /\ Depth(calls) = Len(calls)
  BY <1>0, BeforeStep DEF Ends, Leaving, Made
<1>13. /\ commits => result = "none" /\ ~InCascade(Top) /\ result' \notin {"false", "silent"}
       /\ ~commits => result' \in Failures
       /\ calls' # <<>> /\ Head(calls').op = "save" => Top.op = "save"
  BY DEF Ends
<1>2. PICK nesting \in BOOLEAN : nesting = Nests(Top)
  BY <1>0
<1>3. conn' = EndedBy(conn, nesting, commits)
  BY <1>2 DEF Ends
<1>4. /\ conn'.pdo = conn.pdo /\ conn'.savepoints = conn.savepoints
      /\ Held(conn') \subseteq Held(conn) /\ (commits => Held(conn') = Held(conn))
      /\ conn.level > 1 /\ ~nesting => Held(conn') = Held(conn)
      /\ ~conn.pdo /\ conn.sound => conn' = conn
      /\ conn.pdo /\ conn.level > 0 => conn'.level = conn.level - 1
      /\ conn.pdo /\ conn.level > 1 => conn'.inTx = conn.inTx /\ conn'.durable = conn.durable
      /\ conn.pdo /\ conn.level = 1 /\ conn.inTx =>
           conn'.work = <<>> /\ (~commits => conn'.durable = conn.durable)
      /\ conn.pdo /\ conn.level > 0 /\ conn.sound
           /\ conn.scopes[conn.level].real = Real(conn, conn.level, nesting) =>
           /\ conn'.sound
           /\ \A j \in 1 .. conn.level - 1 : conn'.scopes[j].real = conn.scopes[j].real
  BY <1>0, <1>3, LevelEnded
<1>5. CountInv'
  <2>1. Held(conn') \subseteq 1 .. writes
    BY <1>4 DEF CallInv, CountInv
  <2>2. Len(calls') = 1 => Opened(Head(calls'))
    <3>1. calls' = <<>> <=> Len(calls') = 0
      BY <1>0
    <3>2. calls' # <<>> => Opened(Head(calls'))
      BY <1>1
    <3> QED
      BY <3>1, <3>2
  <2>3. ~mute => result' # "silent"
    BY DEF Keeps
  <2> QED
    BY <1>0, <1>1, <2>1, <2>2, <2>3 DEF CountInv, Top
<1>6. KeptInv'
  <2>1. CASE commits
    <3>1. Made \subseteq Held(conn) \/ Doomed
      BY <1>0 DEF CallInv, KeptInv
    <3>2. Doomed => Doomed'
      BY DEF Keeps
    <3> QED
      BY <1>1, <1>4, <2>1, <3>1, <3>2 DEF KeptInv
  <2>2. CASE ~commits /\ (calls' = <<>> \/ Head(calls').op # "save")
    BY <1>13, <2>2 DEF KeptInv, Doomed, Top
  <2>3. CASE calls' # <<>> /\ Head(calls').op = "save"
    <3>1. nesting = FALSE
      BY <1>2, <1>13, <2>3, NestsNot
    <3>5. Len(calls) >= 2
      <4>1. Len(calls') # 0
        BY <1>0, <2>3
      <4>2. PICK n \in Nat : n = Len(calls) /\ n > 0
        BY <1>0
      <4>3. n - 1 # 0
        BY <1>1, <4>1, <4>2
      <4>4. n >= 2
        BY <4>2, <4>3
      <4> QED
        BY <4>2, <4>4
    <3>2. Made \subseteq Held(conn) \/ Doomed'
      BY <1>0 DEF CallInv, KeptInv, Keeps
    <3>3. CASE conn.pdo
      <4>1. conn.level >= entry.level + Len(calls)
        BY <1>0, <1>1, <3>3 DEF CallInv, DepthInv
      <4>2. conn.level > 1
        <5>1. PICK l \in Nat, e \in Nat, n \in Nat :
                l = conn.level /\ e = entry.level /\ n = Len(calls)
          BY <1>0
        <5>2. n >= 2 /\ l >= e + n
          BY <3>5, <4>1, <5>1
        <5>3. l > 1
          BY <5>2
        <5> QED
          BY <5>1, <5>3
      <4> QED
        BY <1>1, <1>4, <3>1, <3>2, <4>2 DEF KeptInv
    <3>4. CASE ~conn.pdo
      <4>1. writes = base
        BY <1>0, <3>4 DEF CallInv, OfflineInv
      <4>2. Made = {}
        BY <1>0, <4>1 DEF Made
      <4> QED
        BY <1>1, <4>2 DEF KeptInv
    <3> QED
      BY <3>3, <3>4
  <2> QED
    BY <2>1, <2>2, <2>3
<1>7. OfflineInv'
  <2> SUFFICES ASSUME ~conn.pdo
               PROVE  /\ writes = base
                      /\ entry.sound /\ result' # "throw" =>
                           conn'.level = entry.level /\ conn'.sound
    BY <1>0, <1>1, <1>4 DEF OfflineInv
  <2>1. /\ writes = base
        /\ entry.sound /\ result' # "throw" => conn.level = entry.level /\ conn.sound
    BY <1>0 DEF CallInv, OfflineInv, Keeps
  <2> QED
    BY <1>4, <2>1
<1>8. ASSUME conn.pdo, entry.sound
      PROVE  /\ conn.level >= entry.level + Len(calls) /\ conn.level > 0 /\ conn.inTx
             /\ entry.level = 0 => Made \cap conn.durable = {}
             /\ conn'.level = conn.level - 1
  <2>1. /\ conn.level > 0 => conn.inTx
        /\ entry.level = 0 /\ conn.level > 0 => Made \cap conn.durable = {}
    BY <1>0, <1>8 DEF CallInv, OnlineInv
  <2>2. conn.level >= entry.level + Len(calls)
    BY <1>0, <1>1, <1>8 DEF CallInv, DepthInv
  <2>3. conn.level > 0
    BY <1>0, <2>2
  <2> QED
    BY <1>4, <1>8, <2>1, <2>2, <2>3
<1>14. DepthInv'
  <2> SUFFICES ASSUME conn.pdo PROVE conn'.level >= entry.level + (Len(calls) - 1)
    BY <1>0, <1>1, <1>4 DEF DepthInv
  <2>1. conn.level >= entry.level + Len(calls)
    BY <1>0, <1>1 DEF CallInv, DepthInv
  <2>2. conn'.level = conn.level - 1
    BY <1>0, <1>4, <2>1
  <2> QED
    BY <1>0, <2>1, <2>2
<1>9. OnlineInv'
  <2> SUFFICES ASSUME conn.pdo, entry.sound
               PROVE  /\ conn'.level > 0 => conn'.inTx
                      /\ entry.level = 0 /\ conn'.level > 0 => Made \cap conn'.durable = {}
    BY <1>0, <1>1, <1>4 DEF OnlineInv
  <2>1. /\ conn.level >= entry.level + Len(calls) /\ conn.level > 0 /\ conn.inTx
        /\ entry.level = 0 => Made \cap conn.durable = {}
        /\ conn'.level = conn.level - 1
    BY <1>8
  <2>3. conn'.level > 0 => conn'.inTx /\ conn'.durable = conn.durable
    <3>1. conn'.level > 0 => conn.level > 1
      BY <1>0, <2>1
    <3> QED
      BY <1>4, <2>1, <3>1
  <2> QED
    BY <2>1, <2>3
<1>10. MatchInv'
  <2> SUFFICES ASSUME conn.pdo, entry.sound, ~mute, result' # "throw"
               PROVE  /\ conn'.level = entry.level + Depth(calls') /\ conn'.sound
                      /\ \A j \in 1 .. Depth(calls') :
                           conn'.scopes[entry.level + j].real =
                             Real(conn', entry.level + j, Nests(Nth(calls', j)))
    BY <1>0, <1>4 DEF MatchInv
  <2>1. result # "throw"
    BY DEF Keeps
  <2>2. /\ conn.level = entry.level + Depth(calls) /\ conn.sound
        /\ \A j \in 1 .. Depth(calls) :
             conn.scopes[entry.level + j].real =
               Real(conn, entry.level + j, Nests(Nth(calls, j)))
    BY <1>0, <2>1 DEF CallInv, MatchInv
  <2>3. conn.level = entry.level + Len(calls) /\ Len(calls) \in 1 .. Depth(calls)
    BY <1>0, <1>1, <2>2
  <2>4. conn.scopes[conn.level].real = Real(conn, conn.level, nesting)
    BY <1>0, <1>2, <2>2, <2>3
  <2>5. /\ conn'.sound /\ conn'.level = conn.level - 1
        /\ \A j \in 1 .. conn.level - 1 : conn'.scopes[j].real = conn.scopes[j].real
    BY <1>4, <1>8, <2>2, <2>4
  <2>6. ASSUME NEW j \in 1 .. Len(calls) - 1
        PROVE  conn'.scopes[entry.level + j].real =
                 Real(conn', entry.level + j, Nests(Nth(calls', j)))
    <3>1. /\ j \in 1 .. Depth(calls) /\ entry.level + j \in 1 .. conn.level - 1
          /\ j \in 1 .. Len(calls) /\ j <= Len(calls')
      BY <1>0, <1>1, <2>3
    <3>2. Nests(Nth(calls', j)) = Nests(Nth(calls, j))
      BY <3>1, BeforeStep
    <3>3. Real(conn', entry.level + j, Nests(Nth(calls, j))) =
            Real(conn, entry.level + j, Nests(Nth(calls, j)))
      BY <1>4 DEF Real
    <3> QED
      BY <2>2, <2>5, <3>1, <3>2, <3>3
  <2>7. conn'.level = entry.level + (Len(calls) - 1)
    BY <1>0, <2>3, <2>5
  <2> QED
    BY <1>1, <2>5, <2>6, <2>7
<1>11. RestInv'
  <2> SUFFICES ASSUME calls' = <<>>, entry.level = 0, entry.sound, conn.pdo, conn'.level = 0
               PROVE  /\ Made \subseteq conn'.durable \/ Made \cap conn'.durable = {}
                      /\ result' \in {"false", "silent"} => Made \cap Held(conn') = {}
    BY <1>0, <1>1, <1>4 DEF RestInv, Returned, Alone
  <2>1. /\ conn.inTx /\ conn.level = 1 /\ Made \cap conn.durable = {}
    BY <1>0, <1>8
  <2>2. conn'.work = <<>> /\ (~commits => conn'.durable = conn.durable)
    BY <1>4, <2>1
  <2>3. Held(conn') = conn'.durable
    BY <2>2 DEF Held, Range
  <2>4. CASE commits
    <3>1. ~Doomed
      <4>1. result = "none" /\ ~InCascade(Top) /\ Len(calls) = 1
        BY <1>0, <1>1, <1>13, <2>4
      <4>2. \A j \in 1 .. Len(calls) : Nth(calls, j) = Top
        BY <1>0, <4>1
      <4> QED
        BY <4>1, <4>2 DEF Doomed, Cascades, Failures
    <3>2. Made \subseteq Held(conn)
      BY <1>0, <3>1 DEF CallInv, KeptInv
    <3> QED
      BY <1>4, <1>13, <2>3, <2>4, <3>2
  <2>5. CASE ~commits
    BY <2>1, <2>2, <2>3, <2>5
  <2> QED
    BY <2>4, <2>5
<1>12. StackInv'
  BY DEF Keeps
<1> QED
  BY <1>0, <1>5, <1>6, <1>7, <1>9, <1>10, <1>11, <1>12, <1>14 DEF CallInv

(* A statement. *)
LEMMA ExecutesKeeps ==
  ASSUME ConnInv, CallInv, Keeps, Executes
  PROVE  CallInv'
<1>0. /\ calls # <<>> /\ Busy /\ Len(calls) \in Nat /\ Len(calls) > 0
      /\ writes \in Nat /\ base \in Nat /\ base <= writes
      /\ entry' = entry /\ base' = base /\ mute' = mute
      /\ conn.level \in Nat /\ entry.level \in Nat
      /\ LevelInv(conn) /\ WorkInv(conn)
      /\ Depth(calls') \in Nat /\ Depth(calls') <= Len(calls')
      /\ EntryInv'
  BY BeforeStep
<1>1. /\ conn.pdo /\ writes' = writes + 1 /\ conn' = Written(conn, writes')
      /\ Depth(calls') = Depth(calls) /\ Len(calls') = Len(calls) /\ calls' # <<>>
      /\ Head(calls').phase \in {"failed", "after"} /\ Top.phase \notin {"failed", "after"}
      /\ Opened(Head(calls')) <=> Opened(Top)
      /\ result' = "none" /\ (Doomed => Doomed')
  BY DEF Executes, Keeps
<1>2. PICK x \in Nat : x = writes + 1
  BY <1>0
<1>3. conn' = Written(conn, x) /\ writes' = x
  BY <1>1, <1>2
<1>4. /\ conn'.pdo = conn.pdo /\ conn'.level = conn.level
      /\ conn'.savepoints = conn.savepoints
      /\ conn'.inTx = conn.inTx /\ conn'.sound = conn.sound
      /\ Held(conn') = Held(conn) \cup {x}
      /\ conn.inTx => conn'.durable = conn.durable
      /\ \A j \in 1 .. Len(conn.scopes) : conn'.scopes[j].real = conn.scopes[j].real
  BY <1>0, <1>3, StatementIs
<1>5. /\ Made' = Made \cup {x} /\ x \notin Held(conn)
      /\ Held(conn') \subseteq 1 .. x
  <2>1. Held(conn) \subseteq 1 .. writes
    BY DEF CallInv, CountInv
  <2>3. base + 1 .. x = (base + 1 .. writes) \cup {x}
    BY <1>0, <1>2
  <2>4. x \notin Held(conn)
    BY <1>0, <1>2, <2>1
  <2>5. Held(conn) \cup {x} \subseteq 1 .. x
    BY <1>0, <1>2, <2>1
  <2> QED
    BY <1>0, <1>3, <1>4, <2>3, <2>4, <2>5 DEF Made
<1>6. CountInv'
  <2>1. Len(calls) = 1 /\ ~Opened(Top) => writes = base
    BY <1>1 DEF CallInv, CountInv
  <2>2. base <= x /\ (writes = base => x <= base + 1)
    BY <1>0, <1>2
  <2> QED
    BY <1>0, <1>1, <1>3, <1>5, <2>1, <2>2 DEF CountInv, Top
<1>7. KeptInv'
  BY <1>0, <1>1, <1>4, <1>5 DEF CallInv, KeptInv
<1>8. OfflineInv'
  BY <1>1, <1>4 DEF OfflineInv
<1>13. DepthInv'
  BY <1>0, <1>1, <1>4 DEF CallInv, DepthInv
<1>9. OnlineInv'
  <2> SUFFICES ASSUME entry.sound
               PROVE  /\ conn.level > 0 => conn.inTx
                      /\ entry.level = 0 /\ conn.level > 0 =>
                           Made' \cap conn'.durable = {}
    BY <1>0, <1>1, <1>4 DEF OnlineInv
  <2>1. /\ conn.level > 0 => conn.inTx
        /\ entry.level = 0 /\ conn.level > 0 => Made \cap conn.durable = {}
    BY <1>0, <1>1 DEF CallInv, OnlineInv
  <2>2. x \notin conn.durable
    BY <1>5 DEF Held
  <2> QED
    BY <1>4, <1>5, <2>1, <2>2
<1>10. MatchInv'
  <2> SUFFICES ASSUME entry.sound, ~mute
               PROVE  /\ conn.level = entry.level + Depth(calls) /\ conn.sound
                      /\ \A j \in 1 .. Depth(calls) :
                           conn'.scopes[entry.level + j].real =
                             Real(conn', entry.level + j, Nests(Nth(calls', j)))
    BY <1>0, <1>1, <1>4 DEF MatchInv
  <2>1. /\ conn.level = entry.level + Depth(calls) /\ conn.sound
        /\ \A j \in 1 .. Depth(calls) :
             conn.scopes[entry.level + j].real =
               Real(conn, entry.level + j, Nests(Nth(calls, j)))
    BY <1>0, <1>1 DEF CallInv, MatchInv, Keeps
  <2>2. Len(conn.scopes) = conn.level
    BY <1>0, <2>1 DEF LevelInv
  <2>3. ASSUME NEW j \in 1 .. Depth(calls)
        PROVE  conn'.scopes[entry.level + j].real =
                 Real(conn', entry.level + j, Nests(Nth(calls', j)))
    <3>1. /\ entry.level + j \in 1 .. Len(conn.scopes)
          /\ j \in 1 .. Len(calls) /\ j <= Len(calls')
      BY <1>0, <1>1, <2>1, <2>2
    <3>2. Nests(Nth(calls', j)) = Nests(Nth(calls, j))
      BY <3>1, BeforeStep
    <3>3. Real(conn', entry.level + j, Nests(Nth(calls, j))) =
            Real(conn, entry.level + j, Nests(Nth(calls, j)))
      BY <1>4 DEF Real
    <3> QED
      BY <1>4, <2>1, <3>1, <3>2, <3>3
  <2> QED
    BY <2>1, <2>3
<1>11. RestInv'
  BY <1>1 DEF RestInv, Returned
<1>12. StackInv'
  BY DEF Keeps
<1> QED
  BY <1>0, <1>6, <1>7, <1>8, <1>9, <1>10, <1>11, <1>12, <1>13 DEF CallInv

(* Every step of save(), delete() and the resultsets. *)
LEMMA ModelCall ==
  ASSUME ConnInv, CallInv, Model
  PROVE  CallInv'
<1>1. Keeps /\ Step
  BY ModelStep DEF CallInv
<1>2. CASE Ends(TRUE) \/ Ends(FALSE)
  <2>1. PICK commits \in BOOLEAN : Ends(commits)
    BY <1>2
  <2> QED
    BY <1>1, <2>1, EndsKeeps
<1> QED
  BY <1>1, <1>2, StaysKeeps, LeavesKeeps, BeginsKeeps, BeginFailsKeeps, ExecutesKeeps DEF Step

-----------------------------------------------------------------------------
(* The script between its calls.                                           *)

(* Every method of the adapter but execute() leaves the database with no   *)
(* write it did not have.                                                  *)
LEMMA MethodsHold ==
  ASSUME NEW k, LevelInv(k), WorkInv(k)
  PROVE  /\ Held(BeginFailed(k)) \subseteq Held(k)
         /\ \A x \in BOOLEAN : /\ Held(Begun(k, x)) \subseteq Held(k)
                               /\ Held(CommittedBy(k, x)) \subseteq Held(k)
                               /\ Held(RolledBackBy(k, x)) \subseteq Held(k)
                               /\ Held(PdoReplaced(k, x)) \subseteq Held(k)
<1>1. Held(BeginFailed(k)) \subseteq Held(k)
  BY LevelFails DEF Held
<1>2. ASSUME NEW x \in BOOLEAN PROVE Held(Begun(k, x)) \subseteq Held(k)
  <2>1. CASE k.pdo
    BY <2>1, LevelBegins DEF Held
  <2>2. CASE ~k.pdo
    BY <2>2 DEF Begun
  <2> QED
    BY <2>1, <2>2
<1>3. \A x, y \in BOOLEAN : Held(EndedBy(k, x, y)) \subseteq Held(k)
  BY LevelEnded
<1>4. ASSUME NEW x \in BOOLEAN PROVE Held(PdoReplaced(k, x)) \subseteq Held(k)
  <2> DEFINE kept == IF k.level = 0 THEN k ELSE Lost(k)
             d == PdoReplaced(k, x)
  <2>1. DOMAIN kept = Fields /\ kept.durable = k.durable
    BY DEF LevelInv, Shape, Lost, Fields
  <2>2. d = [Ended(kept, {}) EXCEPT !.pdo = x]
    BY DEF PdoReplaced, DbRollback
  <2> HIDE DEF kept, d
  <2>3. d.durable = k.durable /\ d.work = <<>>
    BY <2>1, <2>2 DEF Ended, Fields
  <2> QED
    BY <2>3 DEF Held, Range, d
<1> QED
  BY <1>1, <1>2, <1>3, <1>4 DEF CommittedBy, RolledBackBy

(* The script uses the connection. *)
LEMMA UsesKeeps ==
  ASSUME CallInv, writes' \in Nat, writes <= writes', writes \in Nat, Uses(conn'),
         Held(conn') \subseteq 1 .. writes'
  PROVE  CallInv'
<1>1. /\ calls = <<>> /\ calls' = <<>> /\ result' = "none"
      /\ entry' = entry /\ base' = base /\ mute' = mute
  BY DEF Uses, rigid
<1>2. ~Busy' /\ ~Returned'
  BY <1>1 DEF Busy, Returned
<1>3. StackInv'
  BY <1>1, EmptySeq DEF StackInv, Results
<1>4. CountInv'
  <2>1. Len(calls') = 0
    BY <1>1
  <2>2. base \in Nat /\ base <= writes
    BY DEF CallInv, CountInv
  <2> QED
    BY <1>1, <2>1, <2>2 DEF CountInv
<1>5. EntryInv'
  BY <1>1 DEF CallInv, EntryInv
<1>6. KeptInv' /\ OfflineInv' /\ DepthInv' /\ OnlineInv' /\ MatchInv' /\ RestInv'
  BY <1>2 DEF KeptInv, OfflineInv, DepthInv, OnlineInv, MatchInv, RestInv
<1> QED
  BY <1>3, <1>4, <1>5, <1>6 DEF CallInv

(* The script calls save() or delete(). *)
LEMMA CallsKeeps ==
  ASSUME ConnInv, CallInv, ScriptCalls
  PROVE  CallInv'
<1>0. /\ LevelInv(conn) /\ writes \in Nat /\ Held(conn) \subseteq 1 .. writes
      /\ conn.level \in Nat /\ conn.sound \in BOOLEAN
  BY DEF ConnInv, AdapterInv, LevelInv, Shape, CallInv, CountInv
<1>1. PICK op \in Ops, r \in Recs, todo \in Seq(Recs) :
        calls' = <<Frame(op, r, todo)>> /\ (op \in All \/ todo = <<>>)
  <2>1. CASE \E r \in Recs, op \in {"save", "delete"} : calls' = <<Frame(op, r, <<>>)>>
    BY <2>1, EmptySeq DEF Ops
  <2>2. CASE \E s \in Resultsets, op \in All : calls' = <<Frame(op, s[1], s)>>
    <3>1. PICK s \in Resultsets, op \in All : calls' = <<Frame(op, s[1], s)>>
      BY <2>2
    <3>2. s \in Seq(Recs) /\ s # <<>>
      BY ModelSaveAssumption
    <3>3. s[1] \in Recs
      BY <3>2
    <3> QED
      BY <3>1, <3>2, <3>3 DEF Ops, All
  <2> QED
    BY <2>1, <2>2 DEF ScriptCalls
<1>2. PICK f : f = Frame(op, r, todo)
  OBVIOUS
<1>3. f \in Frames /\ f.op = op /\ f.phase = "enter" /\ f.todo = todo
  BY <1>2 DEF Frame, Frames, Phases
<1>4. FrameOK(f) /\ ~Opened(f)
  BY <1>1, <1>3 DEF FrameOK, Opened, Ops, All
<1>5. /\ calls' = <<f>> /\ result' = "none" /\ conn' = conn /\ writes' = writes
      /\ entry' = Mark(conn, Owns(f)) /\ base' = writes /\ mute' = mute
  BY <1>1, <1>2 DEF ScriptCalls, rigid
<1>6. /\ calls' \in Seq(Frames) /\ calls' # <<>> /\ Len(calls') = 1
      /\ Head(calls') = f /\ calls'[1] = f
  BY <1>3, <1>5
<1>7. Depth(calls') = 0
  BY <1>4, <1>6 DEF Depth
<1>8. Made' = {}
  BY <1>0, <1>5 DEF Made
<1>9. entry'.level = conn.level /\ entry'.sound = conn.sound /\ entry'.own = Owns(f)
  BY <1>5 DEF Mark
<1>10. StackInv'
  <2>1. Nth(calls', 1) = f
    BY <1>6 DEF Nth
  <2>2. \A j \in 1 .. Len(calls') : j = 1 /\ ~(j < Len(calls'))
    BY <1>6
  <2> QED
    BY <1>4, <1>5, <1>6, <2>1, <2>2 DEF StackInv, Results
<1>11. CountInv'
  BY <1>0, <1>3, <1>5, <1>6 DEF CountInv, Top
<1>12. KeptInv'
  BY <1>8 DEF KeptInv
<1>13. OfflineInv'
  BY <1>5, <1>9 DEF OfflineInv
<1>18. DepthInv'
  BY <1>0, <1>5, <1>7, <1>9 DEF DepthInv
<1>14. OnlineInv'
  BY <1>0, <1>5, <1>7, <1>8, <1>9 DEF OnlineInv, LevelInv
<1>15. MatchInv'
  BY <1>0, <1>5, <1>7, <1>9 DEF MatchInv
<1>16. RestInv'
  BY <1>5 DEF RestInv, Returned
<1>17. EntryInv'
  <2>1. Nth(calls', 1) = f
    BY <1>6 DEF Nth
  <2>2. Owns(f) \in BOOLEAN
    BY DEF Owns
  <2>3. entry' \in [level : Nat, sound : BOOLEAN, own : BOOLEAN]
    BY <1>0, <1>5, <2>2 DEF Mark
  <2> QED
    BY <1>9, <2>1, <2>3 DEF EntryInv
<1> QED
  BY <1>10, <1>11, <1>12, <1>13, <1>14, <1>15, <1>16, <1>17, <1>18 DEF CallInv

(* Every step of the script. *)
LEMMA ScriptCall ==
  ASSUME ConnInv, CallInv, Script
  PROVE  CallInv'
<1>0. /\ LevelInv(conn) /\ WorkInv(conn) /\ writes \in Nat /\ Held(conn) \subseteq 1 .. writes
  BY DEF ConnInv, AdapterInv, CallInv, CountInv
<1>1. ASSUME UNCHANGED writes, Uses(conn'), Held(conn') \subseteq Held(conn)
      PROVE  CallInv'
  BY <1>0, <1>1, UsesKeeps
<1>2. CASE ScriptBegin \/ ScriptBeginFails \/ ScriptCommit \/ ScriptRollback
             \/ ScriptClose \/ ScriptConnect
  <2>1. Uses(conn') /\ UNCHANGED writes
    BY <1>2 DEF ScriptBegin, ScriptBeginFails, ScriptCommit, ScriptRollback,
                ScriptClose, ScriptConnect, Uses
  <2>2. Held(conn') \subseteq Held(conn)
    BY <1>0, <1>2, MethodsHold DEF ScriptBegin, ScriptBeginFails, ScriptCommit,
         ScriptRollback, ScriptClose, ScriptConnect, ClosedDown, Reconnected, Uses
  <2> QED
    BY <1>1, <2>1, <2>2
<1>3. CASE ScriptExecute
  <2>1. PICK x \in Nat : x = writes + 1
    BY <1>0
  <2>2. conn' = Written(conn, x) /\ writes' = x /\ Uses(conn')
    BY <1>3, <2>1 DEF ScriptExecute, Uses
  <2>3. Held(conn') = Held(conn) \cup {x}
    BY <1>0, <2>2, StatementIs
  <2>4. Held(conn') \subseteq 1 .. x /\ writes <= x
    BY <1>0, <2>1, <2>3
  <2> QED
    BY <1>0, <2>2, <2>4, UsesKeeps
<1>4. CASE ScriptSetSavepoints
  <2>1. PICK on \in BOOLEAN : conn' = [conn EXCEPT !.savepoints = on]
    BY <1>4 DEF ScriptSetSavepoints, Uses
  <2>2. conn'.durable = conn.durable /\ conn'.work = conn.work
    BY <1>0, <2>1 DEF LevelInv, Shape, Fields
  <2>3. Uses(conn') /\ UNCHANGED writes
    BY <1>4 DEF ScriptSetSavepoints, Uses
  <2> QED
    BY <1>1, <2>2, <2>3 DEF Held
<1>5. CASE ScriptCalls
  BY <1>5, CallsKeeps
<1> QED
  BY <1>2, <1>3, <1>4, <1>5 DEF Script

(* The script starts without a call. *)
LEMMA InitCall == Init => CallInv
<1> SUFFICES ASSUME Init PROVE CallInv
  OBVIOUS
<1>1. calls = <<>> /\ result = "none" /\ writes = 0 /\ base = 0
  BY DEF Init
<1>2. ~Busy /\ ~Returned
  BY <1>1 DEF Busy, Returned
<1>3. StackInv
  BY <1>1, EmptySeq DEF StackInv, Results
<1>4. CountInv
  <2>1. Held(conn) = {}
    BY DEF Init, Connected, Held, Range
  <2>2. Len(calls) = 0
    BY <1>1
  <2> QED
    BY <1>1, <2>1, <2>2 DEF CountInv
<1>5. EntryInv
  BY <1>1 DEF Init, Mark, Connected, EntryInv
<1>6. KeptInv /\ OfflineInv /\ DepthInv /\ OnlineInv /\ MatchInv /\ RestInv
  BY <1>2 DEF KeptInv, OfflineInv, DepthInv, OnlineInv, MatchInv, RestInv
<1> QED
  BY <1>3, <1>4, <1>5, <1>6 DEF CallInv

(* The invariant of the calls. *)
LEMMA CallsInv == Spec => [](ConnInv /\ CallInv)
<1>1. Init => CallInv
  BY InitCall
<1>2. ConnInv /\ CallInv /\ [Next]_vars => CallInv'
  <2> SUFFICES ASSUME ConnInv, CallInv, [Next]_vars
               PROVE  CallInv'
    OBVIOUS
  <2>1. CASE Next
    BY <2>1, ModelCall, ScriptCall DEF Next
  <2>2. CASE UNCHANGED vars
    <3>1. /\ conn' = conn /\ writes' = writes /\ calls' = calls /\ result' = result
          /\ entry' = entry /\ base' = base /\ mute' = mute
      BY <2>2 DEF vars
    <3>2. StackInv' /\ EntryInv' /\ CountInv'
      BY <3>1 DEF CallInv, StackInv, EntryInv, CountInv, Top
    <3>3. Made' = Made /\ Busy' = Busy /\ Doomed' = Doomed /\ Returned' = Returned /\ Alone' = Alone
      BY <3>1 DEF Made, Busy, Doomed, Top, Returned, Alone
    <3>4. KeptInv' /\ OfflineInv' /\ DepthInv' /\ OnlineInv' /\ MatchInv' /\ RestInv'
      BY <3>1, <3>3 DEF CallInv, KeptInv, OfflineInv, DepthInv, OnlineInv, MatchInv, RestInv
    <3> QED
      BY <3>1, <3>2, <3>4 DEF CallInv
  <2> QED
    BY <2>1, <2>2
<1> QED
  BY <1>1, <1>2, ScriptInv, PTL DEF Spec

(* A call that has returned has no frame left. *)
LEMMA ReturnedCall ==
  ASSUME ConnInv, CallInv, Returned
  PROVE  /\ Busy /\ Depth(calls) = 0
         /\ Doomed => result # "true"
         /\ conn.level \in Nat /\ conn.pdo \in BOOLEAN
         /\ writes \in Nat /\ base \in Nat
         /\ entry.level \in Nat
         /\ Held(conn) = conn.durable \cup Range(conn.work)
<1>1. calls = <<>> /\ Busy
  BY DEF Returned, Busy
<1>2. Depth(calls) = 0
  BY <1>1 DEF Depth
<1>3. Len(calls) = 0
  BY <1>1
<1>4. ~Cascades(calls)
  BY <1>3 DEF Cascades
<1>5. conn.level \in Nat /\ conn.pdo \in BOOLEAN
  BY DEF ConnInv, AdapterInv, LevelInv, Shape
<1>6. writes \in Nat /\ base \in Nat /\ entry.level \in Nat
  BY DEF ConnInv, CallInv, CountInv, EntryInv
<1> QED
  BY <1>1, <1>2, <1>4, <1>5, <1>6 DEF Doomed, Failures, Held

(* Without a connection a call has executed nothing. *)
LEMMA ReturnedOffline ==
  ASSUME ConnInv, CallInv, Returned, ~conn.pdo
  PROVE  /\ Made = {}
         /\ entry.sound /\ result # "throw" => conn.level = entry.level /\ conn.sound
<1>1. /\ writes = base
      /\ entry.sound /\ result # "throw" => conn.level = entry.level /\ conn.sound
  BY ReturnedCall DEF CallInv, OfflineInv
<1>2. Made = {}
  BY <1>1, ReturnedCall DEF Made
<1> QED
  BY <1>1, <1>2

(* For every set of records, relations and resultsets, at every depth of   *)
(* related records and whatever fails or throws, with a message or         *)
(* without: save() and delete() (model.c) and the resultset's methods      *)
(* (resultset.c), called outside a transaction, leave all of several       *)
(* writes in the database or none, and none when they report a failure.    *)
THEOREM NothingHalfSaved == Spec => []NoHalfSave
<1>1. ASSUME ConnInv, CallInv, Returned, Alone, Cardinality(Made) > 1
      PROVE  /\ Made \cap conn.durable \in {{}, Made}
             /\ result \in {"false", "silent"} => Made \cap conn.durable = {}
  <2>1. CASE ~conn.pdo
    <3>1. Made = {}
      BY <1>1, <2>1, ReturnedOffline
    <3> QED
      BY <3>1
  <2>2. CASE conn.pdo /\ conn.level > 0
    <3>1. Made \cap conn.durable = {}
      BY <1>1, <2>2, ReturnedCall DEF CallInv, OnlineInv, Alone
    <3> QED
      BY <3>1
  <2>3. CASE conn.pdo /\ conn.level = 0
    <3>1. /\ Made \subseteq conn.durable \/ Made \cap conn.durable = {}
          /\ result \in {"false", "silent"} =>
               Made \cap Held(conn) = {} \/ writes <= base + 1
      BY <1>1, <2>3 DEF CallInv, RestInv
    <3>2. ASSUME writes <= base + 1 PROVE FALSE
      <4>1. Made = {} \/ Made = {writes}
        BY <1>1, <3>2, ReturnedCall DEF Made
      <4>2. Cardinality(Made) = 0 \/ Cardinality(Made) = 1
        BY <4>1, FS_EmptySet, FS_Singleton
      <4> QED
        BY <1>1, <4>2
    <3> QED
      BY <3>1, <3>2 DEF Held
  <2> QED
    BY <1>1, <2>1, <2>2, <2>3, ReturnedCall
<1>2. ConnInv /\ CallInv => NoHalfSave
  BY <1>1 DEF NoHalfSave
<1> QED
  BY <1>2, CallsInv, PTL

(* For every set of records, relations and resultsets: what a save or      *)
(* delete returns is what has become of its writes, and unless it throws   *)
(* it leaves the count of the connection as it was, provided that a record *)
(* that fails has a message that says why.                                 *)
THEOREM ReturnsTell == Spec => []ReturnTellsOutcome
<1>1. ASSUME ConnInv, CallInv, Returned, entry.sound, ~mute
      PROVE  /\ result = "true" => Made \subseteq conn.durable \cup Range(conn.work)
             /\ result = "false" /\ Alone /\ entry.own =>
                  Made \cap (conn.durable \cup Range(conn.work)) = {}
             /\ result # "throw" => conn.level = entry.level /\ conn.sound
  <2>1. result = "true" => Made \subseteq Held(conn)
    BY <1>1, ReturnedCall DEF CallInv, KeptInv
  <2>2. result # "throw" => conn.level = entry.level /\ conn.sound
    <3>1. CASE ~conn.pdo
      BY <1>1, <3>1, ReturnedOffline
    <3>2. CASE conn.pdo
      BY <1>1, <3>2, ReturnedCall DEF CallInv, MatchInv
    <3> QED
      BY <1>1, <3>1, <3>2, ReturnedCall
  <2>3. ASSUME result = "false", Alone, entry.own
        PROVE  Made \cap Held(conn) = {}
    <3>1. CASE ~conn.pdo
      BY <1>1, <3>1, ReturnedOffline
    <3>2. CASE conn.pdo
      <4>1. conn.level = 0
        BY <2>2, <2>3 DEF Alone
      <4> QED
        BY <1>1, <2>3, <3>2, <4>1 DEF CallInv, RestInv
    <3> QED
      BY <1>1, <3>1, <3>2, ReturnedCall
  <2> QED
    BY <1>1, <2>1, <2>2, <2>3, ReturnedCall
<1>2. ConnInv /\ CallInv => ReturnTellsOutcome
  BY <1>1 DEF ReturnTellsOutcome
<1> QED
  BY <1>2, CallsInv, PTL
==============================================================================
