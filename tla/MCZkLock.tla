------------------------------ MODULE MCZkLock ------------------------------
\* Instances of ZkLock for TLC: up to three callers, of one lock name or two.
EXTENDS ZkLock

CONSTANTS c1, c2, c3

Clients == {c1, c2, c3}
OneName == [c \in Clients |-> 1]
TwoNames == [c \in Clients |-> IF c = c2 THEN 1 ELSE 2]
=============================================================================
