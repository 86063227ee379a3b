\* A failed TCP connect: are the queued requests ever answered?
CONSTANTS
    t1 = t1
    t2 = t2
    Threads <- MCThreads
    MaxRequests = 3
    QueueCapacity = 2
    NoItem = NoItem
    Faults = {"connect"}
    MaxFaults = 1
SPECIFICATION Spec
PROPERTY RequestEventuallyAnswered
CHECK_DEADLOCK FALSE
