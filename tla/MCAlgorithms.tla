---------------------------- MODULE MCAlgorithms ----------------------------
(* Every 8-bit word, every short text over an alphabet of lead and         *)
(* following bytes, of digits, or of what paths are made of, and every     *)
(* short listing.                                                          *)
EXTENDS Algorithms

MCAlphabets == {{65, 128, 191, 192, 195, 224, 240, 248}, {0, 48, 49, 57, 65}, {46, 47, 97}}

w == <<119>>
a == <<97>>
MCCwd == <<w>>

\* a file or a directory of the name a, in the root and below
MCTrees ==
    LET Kind(t) == [p \in t[1] \cup t[2] \cup {<< >>, MCCwd} |-> IF p \in t[2] THEN "file" ELSE "dir"]
    IN  {Kind(t) : t \in {<<{}, {}>>, <<{<<w, a>>}, {}>>, <<{}, {<<w, a>>}>>, <<{}, {<<a>>}>>,
                          <<{<<w, a>>}, {<<w, a, a>>}>>, <<{<<a>>, <<w, a>>, <<w, a, a>>}, {<<a, a>>}>>}}

MCEntries == {[type |-> ty, size |-> sz] : ty \in {"DT_REG", "DT_DIR"}, sz \in {-1, 0, 3}}
                \cup {[type |-> "DT_UNKNOWN", size |-> 1]}
=============================================================================
