SPECIFICATION FairSpec
CONSTANTS
    c1 = c1
    c2 = c2
    t1 = t1
    t2 = t2
    Clients = {c1, c2}
    Pool = {t1, t2}
    MaxFailures = 1
    NoClient = noclient
CHECK_DEADLOCK FALSE
INVARIANTS UsedWhileLive KeepsListening
PROPERTY WorkEnds
