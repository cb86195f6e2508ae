-------------------------- MODULE MCOrderService --------------------------
\* Instances of OrderService for TLC: the three calls LockTest makes for each
\* order (nine tasks on three orders), in one process or in two.
EXTENDS OrderService

CONSTANTS c1, c2, c3, j1, j2

Clients  == {c1, c2, c3}
Jvms     == {j1, j2}
TwoHosts == [c \in Clients |-> IF c = c3 THEN j2 ELSE j1]
=============================================================================
