---------------------------- MODULE MCCallClient -----------------------------
\* Ann calls Bob or Cat and adds the other; Cat has two devices, and
\* answers from a notification.
EXTENDS CallClient

CONSTANTS ann, bob, cat, a1, b1, c2, c1

Signed == [d \in Devices |-> CASE d = a1 -> ann [] d \in {c1, c2} -> cat [] OTHER -> bob]
=============================================================================

