---------------------------- MODULE MCSyncEvent ----------------------------
(* Instances of SyncEvent for TLC. *)
EXTENDS SyncEvent, TLC

(* Scripts without deadlines, all that Event::wait can ask for, and with    *)
(* the polling writelock(0) of a Readerwriter.                              *)
AllKindSets == {{"infinite"}, {"timed", "infinite"}, {"zero", "timed", "infinite"}}
MethodKinds == {{"timed", "infinite"}}

ThreadSymmetry == Permutations(Threads)
=============================================================================
