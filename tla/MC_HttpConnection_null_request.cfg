\* A socket error while a response is awaited: restartConnection runs the
\* HTTP shutdownConnection after cancelAll has taken the in-flight request.
CONSTANTS
    t1 = t1
    t2 = t2
    Threads <- MCThreads
    MaxRequests = 2
    QueueCapacity = 2
    NoItem = NoItem
    Faults = {"read"}
    MaxFaults = 1
SPECIFICATION Spec
INVARIANT NoNullRequestDereference
