SPECIFICATION FairSpec
CONSTANTS
    d1 = d1 d2 = d2 p = p c = c
    Nobody = Nobody
    Device = {d1, d2}
    Path = {p}
    Content = {c}
    ContentOf <- OneContent
    Holders = {d1}
    Actions <- FleetOrHere
    MaxInputs = 2
INVARIANTS
    NothingMadeUp
PROPERTIES
    OnlyWhereAsked
    AbsenceLiftsNothing
    ReachesEveryone
    LedgersAgree
