----------------------------- MODULE MCNamedMem -----------------------------
(* Instances of NamedMem for TLC. *)
EXTENDS NamedMem, TLC

ProcSymmetry == Permutations(Procs)
=============================================================================
