--------------------------- MODULE MCPluginLoader ---------------------------
(* Three objects that compete for protocols; two paths lead to the first,  *)
(* and the last has neither unregister_proto nor uninit.                   *)
EXTENDS PluginLoader

CONSTANTS pathA, linkA, pathB, pathC, soA, soB, soC, p1, p2, p3

MCPath   == {pathA, linkA, pathB, pathC}
MCSo     == {soA, soB, soC}
MCProtoId == {p1, p2, p3}
MCSoOf   == [p \in MCPath |-> IF p = pathB THEN soB ELSE IF p = pathC THEN soC ELSE soA]
MCProtos == [s \in MCSo |-> IF s = soA THEN {p1, p2} ELSE IF s = soB THEN {p2, p3} ELSE {p3}]
MCComplete == {soA, soB}
=============================================================================
