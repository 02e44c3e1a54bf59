------------------------------- MODULE MCPush --------------------------------
\* Two people share a browser and a phone.
EXTENDS Push, TLC

CONSTANTS ann, bob, laptop, phone

Symmetry == Permutations(Users)
=============================================================================
