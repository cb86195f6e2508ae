---------------------------- MODULE MCRedisLock ----------------------------
\* Instances of RedisLock for TLC: three callers, two of them in one process.
EXTENDS RedisLock

CONSTANTS c1, c2, c3, j1, j2

Clients == {c1, c2, c3}
Jvms    == {j1, j2}

TwoHosts  == [c \in Clients |-> IF c = c3 THEN j2 ELSE j1]
=============================================================================
