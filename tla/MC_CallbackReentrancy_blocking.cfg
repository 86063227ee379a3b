\* No faults, two requests: t1's callback calls the blocking sendRequest on
\* the I/O thread, which then never returns from wg.wait(). The system stops
\* there, so deadlock is not reported separately.
CONSTANTS
    t1 = t1
    io = io
    Threads <- MCThreads
    SyncThreads <- MCSyncThreads
    IOThread = io
    ReentrantOwners <- MCReentrantOwners
    MaxRequests = 2
    QueueCapacity = 2
    Faults = {}
    MaxFaults = 0
    NoItem = NoItem

SPECIFICATION ReSpec
PROPERTY SyncRequestReturns
CHECK_DEADLOCK FALSE
