\* Every kind of transport failure, up to two per behaviour; both SSL settings.
CONSTANTS
    t1 = t1
    t2 = t2
    Threads <- MCThreads
    MaxRequests = 4
    QueueCapacity = 2
    Faults = {"resolve", "connect", "handshake", "write", "read", "protocol"}
    MaxFaults = 2
    NoItem = NoItem
SYMMETRY ThreadSymmetry
SPECIFICATION Spec
INVARIANT TypeOK
INVARIANT HalfDuplex
INVARIANT IOOnlyWhenConnected
INVARIANT QueueCountMatchesQueue
INVARIANT RequestAccounted
INVARIANT WireOrderPerThread
