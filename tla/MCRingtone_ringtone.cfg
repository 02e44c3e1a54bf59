SPECIFICATION Spec
CONSTANTS
    p1 = p1  p2 = p2  p3 = p3
    None = None
    Plays = {p1, p2, p3}
    Faults = {"idb"}
INVARIANTS TypeOK SoundFollowsTheRing
SYMMETRY Symmetry
CHECK_DEADLOCK FALSE
