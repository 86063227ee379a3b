-------------------------- MODULE MC_HttpConnection --------------------------
(* Instantiates HttpConnection for TLC: two application threads; the cfgs *)
(* set the requests, the queue capacity and the failures, so that a push *)
(* can find the queue full while the connection is being established.    *)
EXTENDS HttpConnection, TLC

CONSTANTS t1, t2

MCThreads == {t1, t2}

ThreadSymmetry == Permutations(MCThreads)
====
