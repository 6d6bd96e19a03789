SPECIFICATION FairSpec
CONSTANTS
    d1 = d1 d2 = d2
    Absent = Absent
    Holders = {{d1}}
    Device = {d1, d2}
    Profile <- TwoProfiles
    MaxInputs = 2
PROPERTIES
    SpeaksForItself
    NeverGoesBack
    WithdrawalTravels
    HolderIsKnown
    Settles
