CONSTANTS
    ann = ann  bob = bob  eve = eve  a1 = a1  b1 = b1  c1 = c1  c2 = c2  h1 = h1  h2 = h2  None = None
    Sockets <- TwoSockets
    Owner <- TwoOwner
    Users <- GroupUsers
    CallIds <- TwoCalls
    Handlers = {h1, h2}
    Messages = {"invite", "accept", "add"}
    Faults = {}
SPECIFICATION Spec
CHECK_DEADLOCK FALSE
SYMMETRY HandlerSymmetry
INVARIANTS TypeOK OneLiveCallPerPair InvitedFromInside
