----------------------------- MODULE MCLoopback -----------------------------
(* A small instance of Loopback for TLC: one backend, the loopback. *)
EXTENDS Loopback, TLC
=============================================================================
