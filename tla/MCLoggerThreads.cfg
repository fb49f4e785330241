\* Messages only, no rotation asked for and no open that fails.
SPECIFICATION Spec
CONSTANTS
    Thread = {t1, t2}
    Grave = {TRUE}
    Sizes = {}
    Indices <- MCIndices
    TopSize = 1
    TopIndex = 1
    DefaultIndex = 1
    MaxCalls = 3
    MaxTime = 2
    MaxFd = 8
    MaxFile = 8
    MaxFails = 0
    Nobody = Nobody
SYMMETRY Symmetry
CHECK_DEADLOCK FALSE
INVARIANT ThreadSafe
