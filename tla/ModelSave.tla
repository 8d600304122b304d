------------------------------ MODULE ModelSave ------------------------------
(***************************************************************************)
(* The implicit transactions of the ORM over one connection: save() and    *)
(* delete() of Phalcon\Mvc\Model (ext/mvc/model.c) with their related      *)
(* records, update() and delete() of a resultset                           *)
(* (ext/mvc/model/resultset.c), in a script that also uses the connection  *)
(* itself.                                                                 *)
(*                                                                         *)
(* The calls in progress are a stack of frames.  A call that fails returns *)
(* false or throws; an exception leaves every C function on the stack at   *)
(* the call that raised it, without any of the code behind that call.      *)
(***************************************************************************)
EXTENDS PdoAdapter, FiniteSets

CONSTANTS
  Recs,         \* model instances
  Parents,      \* those assigned to a record's belongs-to relations ...
  Children,     \* ... and to its has-one, has-many and many-to-many ones,
                \* the records of the intermediate models included
  Resultsets,   \* resultsets of update() and delete(), with a record at least
  MaxLevel,     \* bound: the script starts something below this level only
  MaxWrites     \* bound on the statements executed

ASSUME ModelSaveAssumption ==
  /\ IsFiniteSet(Recs)
  /\ Parents \in [Recs -> Seq(Recs)] /\ Children \in [Recs -> Seq(Recs)]
  /\ Resultsets \subseteq Seq(Recs) \ {<<>>}
  /\ MaxLevel \in Nat /\ MaxWrites \in Nat

VARIABLES
  conn,      \* the connection
  writes,    \* number of statements executed
  calls,     \* the calls in progress, the innermost first
  result,    \* what the call that ended last has returned, or "none"
  entry,     \* when the outermost call began: level and sound of the
             \* connection; and whether its statement is in a transaction
             \* that it begins itself
  base,      \* writes when it began
  raises,    \* rigid: orm.exception_on_failed_save
  mute       \* rigid: a record that fails may have no message that says why

vars == <<conn, writes, calls, result, entry, base, raises, mute>>
rigid == <<raises, mute>>

Ops == {"save", "delete", "updateAll", "deleteAll"}
Phases == {"enter", "before", "master", "failed", "after", "execute", "cascade", "loop"}
Frames == [op : Ops, rec : Recs, phase : Phases, todo : Seq(Recs)]
(* "silent": false from a record that has no array of messages *)
Results == {"none", "true", "false", "silent", "done", "throw"}

ModelTypeOK ==
  /\ conn \in Connection
  /\ entry \in [level : Nat, sound : BOOLEAN, own : BOOLEAN]
  /\ writes \in 0 .. MaxWrites /\ base \in 0 .. writes
  /\ calls \in Seq(Frames)
  /\ result \in Results
  /\ raises \in BOOLEAN /\ mute \in BOOLEAN

Mark(k, own) == [level |-> k.level, sound |-> k.sound, own |-> own]

Init ==
  /\ conn = Connected /\ entry = Mark(Connected, FALSE)
  /\ writes = 0 /\ base = 0
  /\ calls = <<>> /\ result = "none"
  /\ raises \in BOOLEAN /\ mute \in BOOLEAN

-----------------------------------------------------------------------------
(* The stack.                                                              *)

Top == Head(calls)
HasRelated(r) == Parents[r] # <<>> \/ Children[r] # <<>>
Frame(op, r, todo) == [op |-> op, rec |-> r, phase |-> "enter", todo |-> todo]

(* Every call but a save without related records begins a transaction. *)
Owns(f) == f.op = "save" => HasRelated(f.rec)

In(ops, phase) == calls # <<>> /\ Top.op \in ops /\ Top.phase = phase

Return(k, value) ==
  /\ calls' = Tail(calls)
  /\ conn' = k /\ result' = value
  /\ UNCHANGED <<writes, entry, base, rigid>>

Goto(k, phase, todo) ==
  /\ calls' = <<[Top EXCEPT !.phase = phase, !.todo = todo]>> \o Tail(calls)
  /\ conn' = k /\ result' = "none"
  /\ UNCHANGED <<writes, entry, base, rigid>>

Call(frame) ==
  /\ calls' = <<frame>> \o calls
  /\ result' = "none"
  /\ UNCHANGED <<conn, writes, entry, base, rigid>>

(* Failed saves throw when exception_on_failed_save is set. *)
Failed == IF raises THEN "throw" ELSE "false"

(* The last call of a function is a commit or a rollback, which may throw. *)
ReturnEnding(k, nesting, value) ==
  Return(k, IF EndThrows(conn, nesting) THEN "throw" ELSE value)

(* begin(), or its exception. *)
BeginThen(nesting, phase, todo) ==
  \/ Goto(Begun(conn, nesting), phase, todo)
  \/ BeginMayFail(conn, nesting) /\ Return(BeginFailed(conn), "throw")

(* A statement that succeeds; without a PDO object it throws. *)
Execute(phase, todo) ==
  /\ conn.pdo
  /\ writes' = writes + 1
  /\ conn' = Written(conn, writes')
  /\ calls' = <<[Top EXCEPT !.phase = phase, !.todo = todo]>> \o Tail(calls)
  /\ result' = "none"
  /\ UNCHANGED <<entry, base, rigid>>

-----------------------------------------------------------------------------
(* Phalcon\Mvc\Model::save                                                 *)

(* A save that fails before it has emptied the array of messages has one   *)
(* only if something appended a message, now or in an earlier save.        *)
Refusals == {"false"} \cup (IF mute THEN {"silent"} ELSE {})

(* exists() throws, beforeOperation cancels, or the implicit transaction   *)
(* of a record with related ones begins.                                   *)
SaveEnter ==
  /\ In({"save"}, "enter")
  /\ \/ Return(conn, "throw")
     \/ \E value \in Refusals : Return(conn, value)
     \/ HasRelated(Top.rec) /\ BeginThen(FALSE, "before", Parents[Top.rec])
     \/ ~HasRelated(Top.rec) /\ Goto(conn, "master", <<>>)

(* What this save returns when a related record has failed: before the     *)
(* master record it has the messages of that record, if there are any.     *)
RelatedRefusals == IF Top.phase = "before" THEN Refusals ELSE {"false"}

(* Mutant: the failure of a related record is returned without a rollback. *)
RelatedKeepsWork ==
  \/ result = "none" /\ Call(Frame("save", Head(Top.todo), <<>>))
  \/ result = "none" /\ ReturnEnding(RolledBackBy(conn, FALSE), FALSE, "throw")
  \/ result = "true" /\ Goto(conn, Top.phase, Tail(Top.todo))
  \/ result = "false" /\ \E value \in RelatedRefusals : Return(conn, value)
  \/ result = "throw" /\ Return(conn, "throw")

(* Mutant: what was saved before a related record failed is committed. *)
RelatedCommits ==
  \/ result = "none" /\ Call(Frame("save", Head(Top.todo), <<>>))
  \/ result = "true" /\ Goto(conn, Top.phase, Tail(Top.todo))
  \/ /\ result = "false"
     /\ \E value \in RelatedRefusals : ReturnEnding(CommittedBy(conn, FALSE), FALSE, value)
  \/ result = "throw" /\ Return(conn, "throw")

(* The next related record is saved; or it is no object, or the relation   *)
(* cannot be followed: the only exception with a rollback.                 *)
Related ==
  \/ result = "none" /\ Call(Frame("save", Head(Top.todo), <<>>))
  \/ result = "none" /\ ReturnEnding(RolledBackBy(conn, FALSE), FALSE, "throw")
  \/ result = "true" /\ Goto(conn, Top.phase, Tail(Top.todo))
  \/ /\ result = "false"
     /\ \E value \in RelatedRefusals : ReturnEnding(RolledBackBy(conn, FALSE), FALSE, value)
  \/ result = "throw" /\ Return(conn, "throw")

(* _preSaveRelatedRecords.  When the messages of the record that failed    *)
(* are no array it returns null, which save() does not take for a failure. *)
SaveBefore ==
  /\ In({"save"}, "before")
  /\ \/ (Top.todo = <<>> \/ result = "silent") /\ Goto(conn, "master", <<>>)
     \/ Top.todo # <<>> /\ Related

(* Validation fails, or the statement does. *)
MasterFails ==
  \/ HasRelated(Top.rec) /\ ReturnEnding(RolledBackBy(conn, FALSE), FALSE, Failed)
  \/ ~HasRelated(Top.rec) /\ Return(conn, Failed)

(* _preSave, then _doLowInsert or _doLowUpdate, which executes nothing     *)
(* when no field has changed, then _postSave.                              *)
SaveMaster ==
  /\ In({"save"}, "master")
  /\ \/ MasterFails
     \/ Return(conn, "throw")
     \/ Goto(conn, "after", Children[Top.rec])
     \/ Execute("after", Children[Top.rec])
     \/ Execute("failed", <<>>)

(* The INSERT has been executed, but there is no id of the new record. *)
SaveFailed ==
  /\ In({"save"}, "failed")
  /\ MasterFails \/ Return(conn, "throw")

(* The handlers of afterSave may throw; then _postSaveRelatedRecords, if   *)
(* there are related records, and null again; the handlers of              *)
(* afterOperation may throw too.                                           *)
SaveAfter ==
  /\ In({"save"}, "after")
  /\ \/ result = "none" /\ Return(conn, "throw")
     \/ Top.todo # <<>> /\ Related
     \/ result = "silent" /\ \E value \in {"true", "throw"} : Return(conn, value)
     \/ /\ Top.todo = <<>>
        /\ \E value \in {"true", "throw"} :
             \/ HasRelated(Top.rec) /\ ReturnEnding(CommittedBy(conn, FALSE), FALSE, value)
             \/ ~HasRelated(Top.rec) /\ Return(conn, value)

-----------------------------------------------------------------------------
(* Phalcon\Mvc\Model::delete                                               *)

(* A handler or a foreign key says no, the record is skipped, ... *)
DeleteEnter ==
  /\ In({"delete"}, "enter")
  /\ \/ \E value \in {"false", "true", "throw"} : Return(conn, value)
     \/ BeginThen(FALSE, "execute", <<>>)

(* The statement; when it fails the cascade follows, if virtual foreign    *)
(* keys are on.                                                            *)
DeleteExecute ==
  /\ In({"delete"}, "execute")
  /\ \/ Execute("after", <<>>)
     \/ Return(conn, "throw")
     \/ Goto(conn, "cascade", Children[Top.rec])

(* The next relation that cascades has the records from the m-th to the    *)
(* n-th in its resultset; those before the m-th belong to relations that   *)
(* do not cascade.                                                         *)
CascadeCall(m, n) ==
  /\ LET rest == [Top EXCEPT !.todo = SubSeq(@, n + 1, Len(@))]
     IN  calls' = <<Frame("deleteAll", Top.rec, SubSeq(Top.todo, m, n))>>
                    \o (<<rest>> \o Tail(calls))
  /\ result' = "none"
  /\ UNCHANGED <<conn, writes, entry, base, rigid>>

(* _checkForeignKeysReverseCascade deletes the resultset of one relation   *)
(* after the other; in the end the failed delete is rolled back.           *)
DeleteCascade ==
  /\ In({"delete"}, "cascade")
  /\ \/ /\ result # "throw"
        /\ \E m \in 1 .. Len(Top.todo) : \E n \in m .. Len(Top.todo) : CascadeCall(m, n)
     \/ result # "throw" /\ ReturnEnding(RolledBackBy(conn, FALSE), FALSE, "false")
     \/ result = "throw" /\ Return(conn, "throw")

(* The handlers of afterDelete may throw. *)
DeleteAfter ==
  /\ In({"delete"}, "after")
  /\ \E value \in {"true", "throw"} : ReturnEnding(CommittedBy(conn, FALSE), FALSE, value)

-----------------------------------------------------------------------------
(* Phalcon\Mvc\Model\Resultset::update and ::delete                        *)

All == {"updateAll", "deleteAll"}

(* The first record begins the transaction.  The methods return true       *)
(* whatever happens, which says nothing: "done".                           *)
AllEnter ==
  /\ In(All, "enter")
  /\ BeginThen(TRUE, "loop", Top.todo)

AllCalls(r) == Call(Frame(IF Top.op = "updateAll" THEN "save" ELSE "delete", r, <<>>))

(* A record that fails ends the loop with a rollback. *)
AllLoop ==
  /\ In(All, "loop")
  /\ \/ Top.todo # <<>> /\ result = "none" /\ AllCalls(Head(Top.todo))
     \/ result = "true" /\ Goto(conn, "loop", Tail(Top.todo))
     \/ /\ result \in {"false", "silent"}
        /\ ReturnEnding(RolledBackBy(conn, TRUE), TRUE, "done")
     \/ result = "throw" /\ Return(conn, "throw")
     \/ /\ Top.todo = <<>> /\ result = "none"
        /\ ReturnEnding(CommittedBy(conn, TRUE), TRUE, "done")

-----------------------------------------------------------------------------
(* The script.                                                             *)

Uses(k) ==
  /\ calls = <<>>
  /\ conn' = k
  /\ result' = "none"
  /\ UNCHANGED <<calls, entry, base, rigid>>

ScriptBegin == conn.level < MaxLevel /\ Uses(Begun(conn, TRUE)) /\ UNCHANGED writes
ScriptBeginFails ==
  /\ conn.level < MaxLevel /\ BeginMayFail(conn, TRUE)
  /\ Uses(BeginFailed(conn)) /\ UNCHANGED writes
ScriptCommit == conn.level > 0 /\ Uses(CommittedBy(conn, TRUE)) /\ UNCHANGED writes
ScriptRollback == conn.level > 0 /\ Uses(RolledBackBy(conn, TRUE)) /\ UNCHANGED writes
ScriptExecute ==
  /\ conn.pdo /\ writes < MaxWrites
  /\ Uses(Written(conn, writes + 1)) /\ writes' = writes + 1
ScriptClose == Uses(ClosedDown(conn)) /\ UNCHANGED writes
ScriptConnect == Uses(Reconnected(conn)) /\ UNCHANGED writes

(* setNestedTransactionsWithSavepoints throws while a transaction is open. *)
ScriptSetSavepoints ==
  /\ conn.level = 0
  /\ \E on \in BOOLEAN : Uses([conn EXCEPT !.savepoints = on])
  /\ UNCHANGED writes

ScriptCalls ==
  /\ calls = <<>> /\ conn.level < MaxLevel
  /\ writes + Cardinality(Recs) <= MaxWrites
  /\ \/ \E r \in Recs, op \in {"save", "delete"} : calls' = <<Frame(op, r, <<>>)>>
     \/ \E s \in Resultsets, op \in All : calls' = <<Frame(op, s[1], s)>>
  /\ result' = "none"
  /\ entry' = Mark(conn, Owns(calls'[1])) /\ base' = writes
  /\ UNCHANGED <<conn, writes, rigid>>

-----------------------------------------------------------------------------
Script ==
  \/ ScriptBegin \/ ScriptBeginFails \/ ScriptCommit \/ ScriptRollback
  \/ ScriptExecute \/ ScriptClose \/ ScriptConnect \/ ScriptSetSavepoints
  \/ ScriptCalls

Model ==
  \/ SaveEnter \/ SaveBefore \/ SaveMaster \/ SaveFailed \/ SaveAfter
  \/ DeleteEnter \/ DeleteExecute \/ DeleteCascade \/ DeleteAfter
  \/ AllEnter \/ AllLoop

Next == Script \/ Model

Spec == Init /\ [][Next]_vars

-----------------------------------------------------------------------------
(* See PdoAdapter: the count and the database agree on what is open, in    *)
(* every script and at every point of the ORM's calls.                     *)
LevelAgrees == LevelAgreesOn(conn)

(* See PdoAdapter: rollbacks undo the writes of their own level only.      *)
UndoesItsOwn == UndoesItsOwnOn(conn)

(* The statements of the outermost call, once it has returned. *)
Made == base + 1 .. writes
Returned == calls = <<>> /\ result # "none"
Alone == entry.level = 0 /\ entry.sound

(* A call outside a transaction that makes several writes leaves all of    *)
(* them in the database or none, and none when it reports a failure,       *)
(* whichever related record, statement, handler or begin() fails at        *)
(* whatever depth, and whether a failure is false or an exception.         *)
NoHalfSave ==
  Returned /\ Alone /\ Cardinality(Made) > 1 =>
    /\ Made \cap conn.durable \in {{}, Made}
    /\ result \in {"false", "silent"} => Made \cap conn.durable = {}

(* Provided that a record that fails has a message that says why: a save   *)
(* or delete that returns true has left its writes in the database or in   *)
(* the transaction of the script; one that returns false outside a         *)
(* transaction has undone them, if its statement was in a transaction of   *)
(* its own; both leave the count of the connection as it was.  Without     *)
(* messages a related record's failure is taken for success, and save()    *)
(* returns true with the implicit transaction still open.                  *)
ReturnTellsOutcome ==
  Returned /\ entry.sound /\ ~mute =>
    /\ result = "true" => Made \subseteq conn.durable \cup Range(conn.work)
    /\ result = "false" /\ Alone /\ entry.own =>
         Made \cap (conn.durable \cup Range(conn.work)) = {}
    /\ result # "throw" => conn.level = entry.level /\ conn.sound
=============================================================================
