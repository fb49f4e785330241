\* Two attempts of each process to get the lock, one shortage of memory.
SPECIFICATION FairSpec
CONSTANTS
    app = app
    appChild = appChild
    one = one
    other = other
    oneChild = oneChild
    Pid <- MCPid
    Threaded <- MCThreaded
    Starts <- MCStarts
    Nobody = Nobody
    MaxFds = 2
    MaxShort = 1
CHECK_DEADLOCK FALSE
INVARIANTS OneDaemon OneInstance
PROPERTY CallsReturn
