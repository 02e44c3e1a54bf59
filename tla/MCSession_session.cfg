SPECIFICATION FairSpec
CONSTANTS
    t1 = t1  t2 = t2  r1 = r1  r2 = r2
    Tabs = {t1, t2}
    Requests = {r1, r2}
    NoTab = NoTab
    Faults = {"network", "server", "close"}
    MaxPairs = 3
INVARIANTS TypeOK SingleUse StoreIsLive
PROPERTIES SignedOutForACause LoadingEnds
CHECK_DEADLOCK FALSE
