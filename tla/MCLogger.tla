------------------------------ MODULE MCLogger ------------------------------
(* A small instance of Logger; threads are interchangeable.                *)
EXTENDS Logger, TLC

\* nothing, a number below zero, one above the largest
MCSizes   == {0, -1, 2}
MCIndices == {0, -1, 2}

Symmetry == Permutations(Thread)
=============================================================================
