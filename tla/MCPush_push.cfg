SPECIFICATION Spec
CONSTANTS
    ann = ann  bob = bob
    laptop = laptop  phone = phone
    None = None
    Users = {ann, bob}
    Browsers = {laptop}
    Phones = {phone}
    Faults = {"network"}
    MaxEnds = 2
    MaxCalls = 1
INVARIANTS TypeOK SwitchTellsTheTruth
SYMMETRY Symmetry
CHECK_DEADLOCK FALSE
