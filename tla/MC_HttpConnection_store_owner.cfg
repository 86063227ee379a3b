\* No faults, two requests: spec 5 says only the reactor thread mutates the
\* message store.
CONSTANTS
    t1 = t1
    t2 = t2
    Threads <- MCThreads
    MaxRequests = 2
    QueueCapacity = 2
    Faults = {}
    MaxFaults = 0
    NoItem = NoItem

SPECIFICATION Spec
PROPERTY StoreOnlyChangedByReactor
