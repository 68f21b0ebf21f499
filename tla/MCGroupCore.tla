---------------------------- MODULE MCGroupCore ----------------------------
(* Small instances of GroupCore for TLC. *)
EXTENDS GroupCore, TLC

BackendSymmetry == Permutations(BackendTypes)
=============================================================================
