----------------------------- MODULE MCAccounts ------------------------------
\* Three accounts, one custom role, one key, two requests at a time.
EXTENDS Accounts, TLC

CONSTANTS p1, p2, p3, k1, r1, r2

OneMore == [k \in Keys |-> FreeSeats + 1]

Symmetry == Permutations(Requests) \cup Permutations(People)
=============================================================================
