SPECIFICATION FairSpec
CONSTANTS
    host = host  gus = gus  s1 = s1  s2 = s2  h1 = h1  h2 = h2  view = view
    Host = host
    Guests <- OneGuest
    Sockets <- NoSockets
    Owner <- NoOwner
    Handlers = {h1}
    Viewer = view
    None = None
    Gates = {FALSE}
    Messages = {"join", "cancel", "end", "delete", "remove"}
    Faults = {"sfu", "repeat", "expiry"}
    MaxInbox = 1
    MaxHooks = 2
    Joiners <- OneGuest
INVARIANTS TypeOK FinishedIsEmpty
PROPERTY LiveIsHonest
