--------------------------- MODULE MCSessionSync ---------------------------
(* Small instances of SessionSync for TLC. *)
EXTENDS SessionSync, TLC

SessionSymmetry == Permutations(Sessions)
=============================================================================
