--------------------------- MODULE MCTimerManager ---------------------------
(* A small instance of TimerManager; nodes are interchangeable, and so are *)
(* callbacks.                                                              *)
EXTENDS TimerManager

Symmetry == Permutations(Node) \cup Permutations(Callback)
=============================================================================
