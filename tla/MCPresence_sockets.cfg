CONSTANTS
    ann = ann
    bob = bob
    a1 = a1
    a2 = a2
    a3 = a3
    a4 = a4
    b1 = b1
    Users <- MCUsers
    Sockets <- MCSockets
    Owner <- MCOwner
SPECIFICATION FairSpec
CHECK_DEADLOCK FALSE
INVARIANTS
    NoGhost
    NeverOvercounts
    CountedIsOnline
PROPERTY LastCloseEndsPresence
