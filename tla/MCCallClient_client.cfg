SPECIFICATION Spec
CONSTANTS
    ann = ann  bob = bob  cat = cat
    a1 = a1  b1 = b1  c2 = c2  c1 = c1
    Users = {ann, bob, cat}
    Devices = {a1,b1,c1,c2}
    Owner <- Signed
    Callers = {a1}
    Contacts = {bob}
    Hands = {a1,b1,c1}
    Cuttable = {b1}
    Notified = {c1}
    Refusals = TRUE
    MaxCalls = 2
    MaxQueue = 2
INVARIANTS TypeOK ScreenMirrors CallHasScreens
CHECK_DEADLOCK FALSE
