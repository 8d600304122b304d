--------------------------- MODULE MCReaderWriter ---------------------------
(* Instances of ReaderWriter for TLC. *)
EXTENDS ReaderWriter, TLC

ProcSymmetry == Permutations(Procs)
=============================================================================
