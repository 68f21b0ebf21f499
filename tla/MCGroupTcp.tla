----------------------------- MODULE MCGroupTcp -----------------------------
(* A small instance of GroupTcp for TLC: the group's one backend is TCP. *)
EXTENDS GroupTcp, TLC
=============================================================================
