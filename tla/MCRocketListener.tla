-------------------------- MODULE MCRocketListener --------------------------
\* Instances of RocketListener for TLC: one or two consuming threads.
EXTENDS RocketListener

CONSTANTS t1, t2
=============================================================================
