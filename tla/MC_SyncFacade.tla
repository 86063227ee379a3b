---------------------------- MODULE MC_SyncFacade ----------------------------
(* One blocking caller and one asynchronous caller on one connection.      *)
EXTENDS SyncFacade, TLC

CONSTANTS t1, t2

MCThreads == {t1, t2}
MCSyncThreads == {t1}
====
