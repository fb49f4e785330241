------------------------- MODULE MCProtoDispatcher -------------------------
(* A small instance of ProtoDispatcher; ids are interchangeable, and so    *)
(* are handlers.                                                           *)
EXTENDS ProtoDispatcher, TLC

Symmetry == Permutations(ProtoId) \cup Permutations(Handler)
=============================================================================
