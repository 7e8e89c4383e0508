------------------------- MODULE MCClientProjection -------------------------
EXTENDS ClientProjection

CONSTANTS t1, t2

\* A Run in each of two Threads.
TwoThreads == <<t1, t2>>
=============================================================================
