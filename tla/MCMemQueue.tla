----------------------------- MODULE MCMemQueue ------------------------------
EXTENDS SingleConsumer

CONSTANTS p, q, r, w1
==============================================================================
