------------------------------ MODULE MCTcpSend ------------------------------
(* Small instances of TcpSend for TLC.  BUFFSIZE divides Modulus, as 2^13 does *)
(* 2^32.                                                                    *)
EXTENDS TcpSend

HeaderLengths  == 18 .. 22 \cup 54 .. 59
PayloadLengths == {0, 1, 34, 35, 36, 64, 96, 97, 98, 99, 100, 128, 200, 225, 228}
=============================================================================
