----------------------------- MODULE MCTcpLocal -----------------------------
(* A small instance of TcpLocal for TLC: three processes. *)
EXTENDS TcpLocal, TLC
=============================================================================
