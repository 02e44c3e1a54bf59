SPECIFICATION FairJourney
CONSTANTS
    host = host  gus = gus  s1 = s1  h1 = h1  h2 = h2  view = view
    Host = host
    Guests <- OneGuest
    Sockets <- OneSocket
    Owner <- OneOwner
    Handlers = {h1, h2}
    Viewer = view
    None = None
    Gates = {TRUE}
    Messages = {"join", "knock", "withdraw", "admit", "deny", "remove", "watch"}
    Faults = {"drop", "sfu"}
    MaxInbox = 1
    MaxHooks = 0
    Joiners <- OneGuest
INVARIANTS NobodyWaitsUnseen NoGhostKnock NoStranger OneDecision KickHolds
CHECK_DEADLOCK FALSE
PROPERTIES AdmittedGetsIn
