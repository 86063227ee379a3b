------------------------ MODULE MC_ConnectionLifetime ------------------------
EXTENDS ConnectionLifetime, TLC

CONSTANTS t1, t2

MCThreads == {t1, t2}
====
