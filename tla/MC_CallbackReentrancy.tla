------------------------- MODULE MC_CallbackReentrancy -------------------------
(* An asynchronous caller t1 whose callback calls the blocking sendRequest *)
(* on the I/O thread io.                                                    *)
EXTENDS CallbackReentrancy, TLC

CONSTANTS t1, io

MCThreads == {t1, io}
MCSyncThreads == {io}
MCReentrantOwners == {t1}
====
