----------------------------- MODULE PdoAdapter -----------------------------
(***************************************************************************)
(* Transactions of Phalcon\Db\Adapter\Pdo (ext/db/adapter/pdo.c) and the   *)
(* savepoints of Phalcon\Db\Adapter (ext/db/adapter.c).                    *)
(*                                                                         *)
(* The adapter counts nested begins in _transactionLevel.  Only the first  *)
(* level is a transaction of the database; a deeper one is a savepoint     *)
(* named after the level, if the caller asks for nesting and the adapter   *)
(* is set to use savepoints, and otherwise nothing but the count.          *)
(*                                                                         *)
(* A connection is a record, and an operation is an operator from the      *)
(* record before to the record after, so that callers (ModelSave) can run  *)
(* several in one step.  The fields:                                       *)
(*   pdo         _pdo is an object                                         *)
(*   level       _transactionLevel                                         *)
(*   savepoints  _transactionsWithSavepoints                               *)
(*   inTx        the database is in a transaction                          *)
(*   work        its writes, the oldest first                              *)
(*   points      its savepoints: level named, length of work when set      *)
(*   durable     the writes that are committed                             *)
(*   scopes      history: per level, whether the database knows it and     *)
(*               the writes it answers for; what nested transactions mean  *)
(*   kept        history: what is committed if they mean that              *)
(*   sound       history: every begin has reached the database and is      *)
(*               ended the way it was begun                                *)
(***************************************************************************)
EXTENDS Integers, SequencesExt

Scope == [real : BOOLEAN, writes : SUBSET Nat]

Connection ==
  [pdo : BOOLEAN, level : Nat, savepoints : BOOLEAN,
   inTx : BOOLEAN, work : Seq(Nat), points : Seq([name : Nat, at : Nat]),
   durable : SUBSET Nat,
   scopes : Seq(Scope), kept : SUBSET Nat, sound : BOOLEAN]

Connected ==
  [pdo |-> TRUE, level |-> 0, savepoints |-> FALSE,
   inTx |-> FALSE, work |-> <<>>, points |-> <<>>, durable |-> {},
   scopes |-> <<>>, kept |-> {}, sound |-> TRUE]

-----------------------------------------------------------------------------
(* The database, as the adapter uses it.                                   *)

DbBegin(k) == [k EXCEPT !.inTx = TRUE]

Ended(k, saved) ==
  [k EXCEPT !.inTx = FALSE, !.work = <<>>, !.points = <<>>, !.durable = @ \cup saved]

DbCommit(k) == Ended(k, Range(k.work))
DbRollback(k) == Ended(k, {})

Named(k, n) == {i \in DOMAIN k.points : k.points[i].name = n}
IndexOf(k, n) == CHOOSE i \in Named(k, n) : TRUE

(* SAVEPOINT: an older one of the same name is deleted; outside a          *)
(* transaction there is none.                                              *)
DbSavepoint(k, n) ==
  LET others == IF Named(k, n) = {} THEN k.points ELSE RemoveAt(k.points, IndexOf(k, n))
  IN  IF ~k.inTx THEN k
      ELSE [k EXCEPT !.points = Append(others, [name |-> n, at |-> Len(k.work)])]

(* RELEASE: the savepoint and those set after it are gone. *)
DbRelease(k, n) == [k EXCEPT !.points = SubSeq(@, 1, IndexOf(k, n) - 1)]

(* ROLLBACK TO: the savepoint stays, those set after it are gone. *)
DbRollbackTo(k, n) ==
  LET i == IndexOf(k, n)
  IN  [k EXCEPT !.work = SubSeq(@, 1, k.points[i].at), !.points = SubSeq(@, 1, i)]

-----------------------------------------------------------------------------
(* What nested transactions mean: the history.                             *)

(* A level the database knows of. *)
Real(k, n, nesting) == n = 1 \/ (nesting /\ k.savepoints)

(* From here on the history says nothing. *)
Lost(k) == [k EXCEPT !.sound = FALSE, !.scopes = <<>>, !.kept = {}]

ScopeOpened(k, nesting) ==
  LET scope == [real |-> Real(k, k.level + 1, nesting), writes |-> {}]
  IN  IF k.sound THEN [k EXCEPT !.scopes = Append(@, scope)] ELSE k

(* The last scope ends, and the writes w pass to the one around it. *)
Passed(k, w) ==
  LET outer == Front(k.scopes)
      last == Len(outer)
  IN  IF outer = <<>> THEN [k EXCEPT !.scopes = <<>>, !.kept = @ \cup w]
      ELSE [k EXCEPT !.scopes = [outer EXCEPT ![last].writes = @ \cup w]]

(* A rollback takes the writes of a level the database knows; at any other *)
(* level it takes nothing.                                                 *)
ScopeEnded(k, nesting, commits) ==
  LET top == Last(k.scopes)
  IN  IF ~k.sound THEN k
      ELSE IF top.real # Real(k, k.level, nesting) THEN Lost(k)
      ELSE Passed(k, IF commits \/ ~top.real THEN top.writes ELSE {})

(* Once the count is back at zero a new history begins. *)
Settled(k) ==
  IF k.sound \/ k.level # 0 THEN k
  ELSE [k EXCEPT !.sound = TRUE, !.kept = k.durable]

-----------------------------------------------------------------------------
(* The methods of the adapter.                                             *)

(* begin($nesting): the count goes up first. *)
Begun(k, nesting) ==
  LET up == [ScopeOpened(k, nesting) EXCEPT !.level = @ + 1]
  IN  IF ~k.pdo THEN k
      ELSE IF up.level = 1 THEN DbBegin(up)
      ELSE IF Real(k, up.level, nesting) THEN DbSavepoint(up, up.level)
      ELSE up

(* beginTransaction() may throw, and so may the SAVEPOINT statement ... *)
BeginMayFail(k, nesting) == k.pdo /\ Real(k, k.level + 1, nesting)

(* ... and the count stays up. *)
BeginFailed(k) == [Lost(k) EXCEPT !.level = @ + 1]

(* "There is no active transaction"; or the statement for a savepoint that *)
(* the database does not have fails, and the count is down.                *)
EndThrows(k, nesting) ==
  k.pdo /\ \/ k.level = 0
           \/ k.level = 1 /\ ~k.inTx
           \/ k.level > 1 /\ nesting /\ k.savepoints /\ Named(k, k.level) = {}

(* Mutant: the level is taken down before it names the savepoint. *)
EndedByLateName(k, nesting, commits) ==
  LET down == [ScopeEnded(k, nesting, commits) EXCEPT !.level = @ - 1]
      n == down.level
      ends == IF ~k.pdo \/ k.level = 0 THEN k
              ELSE IF k.level = 1 THEN IF commits THEN DbCommit(down) ELSE DbRollback(down)
              ELSE IF ~Real(k, k.level, nesting) \/ Named(k, n) = {} THEN down
              ELSE IF commits THEN DbRelease(down, n) ELSE DbRollbackTo(down, n)
  IN  Settled(ends)

(* Mutant: a nested commit or rollback ends the transaction. *)
EndedByAtAnyLevel(k, nesting, commits) ==
  LET down == [ScopeEnded(k, nesting, commits) EXCEPT !.level = @ - 1]
      ends == IF ~k.pdo \/ k.level = 0 THEN k
              ELSE IF commits THEN DbCommit(down) ELSE DbRollback(down)
  IN  Settled(ends)

(* commit($nesting) and rollback($nesting) *)
EndedBy(k, nesting, commits) ==
  LET down == [ScopeEnded(k, nesting, commits) EXCEPT !.level = @ - 1]
      n == k.level
      ends == IF ~k.pdo \/ n = 0 THEN k
              ELSE IF ~Real(k, n, nesting) \/ EndThrows(k, nesting) THEN down
              ELSE IF n = 1 THEN IF commits THEN DbCommit(down) ELSE DbRollback(down)
              ELSE IF commits THEN DbRelease(down, n) ELSE DbRollbackTo(down, n)
  IN  Settled(ends)

CommittedBy(k, nesting) == EndedBy(k, nesting, TRUE)
RolledBackBy(k, nesting) == EndedBy(k, nesting, FALSE)

(* execute(): the statement of write w.  Outside a transaction the         *)
(* database commits it at once.                                            *)
Written(k, w) ==
  LET last == Len(k.scopes)
      noted == IF ~k.sound THEN k
               ELSE IF last = 0 THEN [k EXCEPT !.kept = @ \cup {w}]
               ELSE [k EXCEPT !.scopes[last].writes = @ \cup {w}]
  IN  IF k.inTx THEN [noted EXCEPT !.work = Append(@, w)]
      ELSE [noted EXCEPT !.durable = @ \cup {w}]

(* _pdo gets another value: the database rolls back what the old object    *)
(* had open, the count stays.                                              *)
PdoReplaced(k, object) ==
  [DbRollback(IF k.level = 0 THEN k ELSE Lost(k)) EXCEPT !.pdo = object]

(* close() and connect() *)
ClosedDown(k) == PdoReplaced(k, FALSE)
Reconnected(k) == PdoReplaced(k, TRUE)

-----------------------------------------------------------------------------
(* A database in a transaction has a caller that will end it, and unless a *)
(* begin failed or the connection was closed under its callers, whoever    *)
(* counts on a transaction has one: after every sequence of begins,        *)
(* commits, rollbacks and failures, nested or not.                         *)
LevelAgreesOn(k) ==
  /\ k.inTx => k.level > 0
  /\ k.level > 0 /\ k.sound => k.inTx /\ Len(k.scopes) = k.level

(* What is uncommitted in the database is what the open levels have        *)
(* written, and what is committed is what the ended ones passed on: a      *)
(* rollback to a savepoint undoes the writes of its own level, with        *)
(* everything nested in it, and nothing else; savepoints left behind by    *)
(* earlier rollbacks are never mistaken for those of a later level.        *)
UndoesItsOwnOn(k) ==
  k.sound => /\ Range(k.work) = UNION {s.writes : s \in Range(k.scopes)}
             /\ k.durable = k.kept
=============================================================================
