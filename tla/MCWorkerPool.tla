---------------------------- MODULE MCWorkerPool ----------------------------
(* Instances of WorkerPool for TLC. *)
EXTENDS WorkerPool, TLC

CONSTANTS main, w1, w2

TwoWorkers == {w1, w2}
TwoWorkersThreads == {main, w1, w2}

WorkerSymmetry == Permutations(TwoWorkers)
=============================================================================
