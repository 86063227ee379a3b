\* A write error racing a second thread's sendRequest.
CONSTANTS
    t1 = t1
    t2 = t2
    Threads <- MCThreads
    MaxRequests = 3
    QueueCapacity = 2
    NoItem = NoItem
    Faults = {"write"}
    MaxFaults = 1
SPECIFICATION Spec
INVARIANT StartWritingWhileConnected
