----------------------------- MODULE MCSession ------------------------------
\* One browser with two tabs and two requests in flight.
EXTENDS Session

CONSTANTS t1, t2, r1, r2
=============================================================================
