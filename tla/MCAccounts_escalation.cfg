SPECIFICATION Spec
CONSTANTS
    p1 = p1  p2 = p2  p3 = p3  k1 = k1  r1 = r1  r2 = r2
    People = {p1, p2, p3}
    Designated = {}
    Roles = {o1}
    Keys = {k1}
    Seats <- OneMore
    FreeSeats = 3
    Requests = {r1}
    NONE = NONE
    KEEP = KEEP
    MaxRequests = 3
PROPERTIES CustomRoleNeverEscalates
CHECK_DEADLOCK FALSE
