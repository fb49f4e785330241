\* A block of 4 (or 2) bytes with 3-bit indices, so that both indices wrap
\* around several times; transfers of up to 3 bytes straddle the block's end.
SPECIFICATION Spec
CONSTANTS
    WordBits = 3
    Byte = {b0, b1}
    Junk = Junk
    Requests = {0, 3, 4}
    MaxLen = 3
SYMMETRY Symmetry
INVARIANTS TypeOK Inv WriteInFreeCells NoNullAccess FreeMatchesAlloc
PROPERTY ImplementsFifo
