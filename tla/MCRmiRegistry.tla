--------------------------- MODULE MCRmiRegistry ---------------------------
\* Instances of RmiRegistry for TLC: two providers and one consumer.
EXTENDS RmiRegistry

CONSTANTS p1, p2
=============================================================================
