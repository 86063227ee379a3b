\* One failed resolve (no reconnect) leaves a request in _writeQueue; the
\* destructor then cancels only the message store.
CONSTANTS
    t1 = t1
    t2 = t2
    Threads <- MCThreads
    MaxRequests = 2
    QueueCapacity = 2
    Faults = {"resolve"}
    MaxFaults = 1
    NoItem = NoItem

SPECIFICATION LifeSpec
INVARIANT NoRequestOutlivesConnection
