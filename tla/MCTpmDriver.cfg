SPECIFICATION FairSpec
CONSTANTS
    FIFO_MAX_AMT = 20
    DigestLen = 2
    PcrCount = 2
    BurstCount = 9
    MaxCalls = 3
    SHA1 <- MCHash
    Requests <- MCRequests
    MaxLengths <- MCMaxLengths
INVARIANTS
    BuffersSafe
    CommandArrived
PROPERTIES
    ImplementsRpc
    EveryCallReturns
CHECK_DEADLOCK FALSE
