\* Three programs; what a byte is does not matter here.
SPECIFICATION FairSpec
CONSTANTS
    WordBits = 4
    Byte = {b}
    Junk = Junk
    Requests = {0, 4, 6, 8}
    MaxLen = 3
    Usages <- MCUsages
    PipeCap = 2
INVARIANTS AllOrNothing PipeMatchesBlock NoLostWakeup PollIsExact
PROPERTY Delivery
