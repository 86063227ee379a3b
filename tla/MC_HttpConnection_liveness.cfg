\* Write errors, which restart the connection (read and protocol errors end
\* in the null dereference of the null_request run): every accepted request
\* is eventually answered.
CONSTANTS
    t1 = t1
    t2 = t2
    Threads <- MCThreads
    MaxRequests = 3
    QueueCapacity = 2
    Faults = {"write"}
    MaxFaults = 1
    NoItem = NoItem
SPECIFICATION Spec
PROPERTY RequestEventuallyAnswered
