----------------------------- MODULE MCSyncMutex -----------------------------
(* Instances of SyncMutex for TLC. *)
EXTENDS SyncMutex, TLC

MutexSymmetry == Permutations(Threads) \cup Permutations(Objects)
=============================================================================
