SPECIFICATION Spec
CONSTANTS
    Node = {n1, n2, n3, n4}
    End = End
    Callback = {c1, c2}
    Interval = {1, 2}
    Clock = {2, 3, 4}
    MAX_TIME_ENVET_COUNT = 3
SYMMETRY Symmetry
INVARIANTS IteratorValid NothingDueIsLeft
