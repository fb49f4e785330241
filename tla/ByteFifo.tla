------------------------------ MODULE ByteFifo ------------------------------
(***************************************************************************)
(* What a ring buffer promises its single writer and its single reader: a  *)
(* bounded first-in first-out queue of bytes.  A write appends a prefix of *)
(* the caller's bytes in one step, a read removes the oldest bytes in one  *)
(* step and hands over exactly those.                                      *)
(***************************************************************************)
EXTENDS Integers, Sequences

CONSTANTS Byte,    \* the byte values
          MaxLen   \* the longest buffer a caller passes

VARIABLES cap,     \* bytes the queue can hold; 0 while it has no storage
          queue,   \* the bytes written and not yet read, oldest first
          out      \* the bytes the last read handed to its caller

fifoVars == <<cap, queue, out>>

FifoInit == cap = 0 /\ queue = << >> /\ out = << >>

\* storage appears or goes away; the queue is empty afterwards
Open  == cap = 0 /\ cap' \in Nat \ {0} /\ queue' = << >> /\ UNCHANGED out
Close == cap' = 0 /\ queue' = << >> /\ UNCHANGED out
Clear == queue' = << >> /\ UNCHANGED <<cap, out>>

\* the caller's bytes that fit are appended, all at once
Put == \E n \in 0 .. MaxLen : \E bytes \in [1 .. n -> Byte] :
          /\ Len(queue) + n <= cap
          /\ queue' = queue \o bytes
          /\ UNCHANGED <<cap, out>>

\* the n oldest bytes leave the queue and are what the caller gets
Get == \E n \in 0 .. Len(queue) :
          /\ out' = SubSeq(queue, 1, n)
          /\ queue' = SubSeq(queue, n + 1, Len(queue))
          /\ UNCHANGED cap

FifoNext == Open \/ Close \/ Clear \/ Put \/ Get

FifoSpec == FifoInit /\ [][FifoNext]_fifoVars

=============================================================================
