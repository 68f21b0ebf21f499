----------------------------- MODULE MCShmInit ------------------------------
(* Small instances of ShmInit for TLC. *)
EXTENDS ShmInit, TLC

ProcSymmetry == Permutations(Procs)
=============================================================================
