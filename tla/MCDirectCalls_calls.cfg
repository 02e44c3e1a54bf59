CONSTANTS
    ann = ann  bob = bob  eve = eve  a1 = a1  b1 = b1  c1 = c1  c2 = c2  h1 = h1  h2 = h2  None = None
    Sockets <- TwoSockets
    Owner <- TwoOwner
    Users <- TwoUsers
    CallIds <- OneCall
    Handlers = {h1}
    Messages = {"invite", "accept", "cancel", "hangup"}
    Faults = {"record", "drop", "throw"}
SPECIFICATION FairSpec
CHECK_DEADLOCK FALSE
INVARIANTS OneVerdict KeysExpire
PROPERTIES DropEndsTheCall PromiseSpec RingIsResolved RingingEnds
