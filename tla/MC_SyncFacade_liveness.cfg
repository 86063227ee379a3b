\* t1 calls the blocking sendRequest, t2 the asynchronous one; one write
\* error (which reconnects): every accepted blocking call returns.
CONSTANTS
    t1 = t1
    t2 = t2
    Threads <- MCThreads
    SyncThreads <- MCSyncThreads
    MaxRequests = 3
    QueueCapacity = 2
    Faults = {"write"}
    MaxFaults = 1
    NoItem = NoItem

SPECIFICATION SyncSpec
PROPERTY SyncRequestReturns
