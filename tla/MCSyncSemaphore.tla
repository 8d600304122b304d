--------------------------- MODULE MCSyncSemaphore ---------------------------
(* Instances of SyncSemaphore for TLC. *)
EXTENDS SyncSemaphore, TLC

ThreadSymmetry == Permutations(Threads)
=============================================================================
