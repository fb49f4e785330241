---------------------------- MODULE MCTcpClient ----------------------------
(* Two names, one of them with two addresses.                              *)
EXTENDS TcpClient

CONSTANTS hostA, hostB, a1, a2

MCHost    == {hostA, hostB}
MCAddrsOf == [h \in MCHost |-> IF h = hostA THEN <<a1, a2>> ELSE <<a2>>]
=============================================================================
