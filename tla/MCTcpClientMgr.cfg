SPECIFICATION MgrSpec
CONSTANTS
    IndexWord = 8
    MaxConns = 4
INVARIANT BoundedWait
PROPERTY FailureExplained
