------------------------------ MODULE MCRingtone -----------------------------
\* Three plays of a tone at a time: one that rings, two left over.
EXTENDS Ringtone, TLC

CONSTANTS p1, p2, p3

Symmetry == Permutations(Plays)
=============================================================================
