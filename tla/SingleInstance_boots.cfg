SPECIFICATION FairSpec
CONSTANTS
    Proc = {p1, p2, p3}
    NoOne = NoOne
    NoLock = NoLock
    MaxTries = 3
INVARIANTS
    OneHolder
    LockNamesHolder
PROPERTIES
    AloneGetsIn
CHECK_DEADLOCK FALSE
