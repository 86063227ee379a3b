\* Failures before and during the write (resolve, connect, TLS handshake,
\* write), two per behaviour: the connection refines RequestChannel.
CONSTANTS
    t1 = t1
    t2 = t2
    Threads <- MCThreads
    MaxRequests = 3
    QueueCapacity = 2
    Faults = {"resolve", "connect", "handshake", "write"}
    MaxFaults = 2
    NoItem = NoItem

SPECIFICATION Spec
PROPERTY ChannelRefinement
