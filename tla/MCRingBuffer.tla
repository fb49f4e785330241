---------------------------- MODULE MCRingBuffer ----------------------------
(* A small instance of RingBuffer; the byte values are interchangeable.    *)
EXTENDS RingBuffer, TLC

Symmetry == Permutations(Byte)
=============================================================================
