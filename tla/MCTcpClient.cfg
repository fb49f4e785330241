SPECIFICATION FairSpec
CONSTANTS
    hostA = hostA  hostB = hostB  a1 = a1  a2 = a2
    Host <- MCHost
    Addr = {a1, a2}
    NoHost = NoHost
    NoAddr = NoAddr
    addrs_of <- MCAddrsOf
    Fd = {3, 4}
    PacketLen = 3
    MaxErrors = 1
INVARIANTS NoFdLeak StreamsInStep
PROPERTIES ReconnectEndsCloseWait Recovers
