\* One naming of the file and two messages or rotations, or two namings and one
\* message; the log is full with one message, one old file is kept.
SPECIFICATION Spec
CONSTANTS
    Thread = {t1, t2}
    Grave = {TRUE}
    Sizes <- MCSizes
    Indices <- MCIndices
    TopSize = 1
    TopIndex = 1
    DefaultIndex = 1
    MaxCalls = 3
    MaxTime = 2
    MaxFd = 8
    MaxFile = 8
    MaxFails = 1
    Nobody = Nobody
SYMMETRY Symmetry
CHECK_DEADLOCK FALSE
INVARIANTS MessagesArrive WrittenSurvives ArchiveLimit NoFdLeak
