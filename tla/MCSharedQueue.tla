--------------------------- MODULE MCSharedQueue ---------------------------
(* Small instances of SharedQueue.                                         *)
EXTENDS SharedQueue

\* messages of two sizes in a ring of 4 bytes, with and without notification
Mixed == [sizes |-> {1, 3}, flags |-> BOOLEAN, requests |-> {0, 4}]
\* empty messages between others
Empty == [sizes |-> {0, 2}, flags |-> BOOLEAN, requests |-> {4}]
\* messages of one size in a ring that holds more of them than the pipe does
\* notifications; the reader may also read without being woken up
Even  == [sizes |-> {2}, flags |-> {TRUE}, requests |-> {6, 8}]

MCUsages == {Mixed, Empty, Even}
=============================================================================
