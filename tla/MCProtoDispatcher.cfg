\* Three protocols, two handlers: a handler may serve several protocols.
SPECIFICATION Spec
CONSTANTS
    ProtoId = {p1, p2, p3}
    Handler = {h1, h2}
    Null = Null
    End = End
    Dead = Dead
    MaxDepth = 2
SYMMETRY Symmetry
INVARIANTS InitBalance
