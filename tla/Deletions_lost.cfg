SPECIFICATION Spec
CONSTANTS
    d1 = d1 d2 = d2 p = p c = c
    Nobody = Nobody
    Device = {d1, d2}
    Path = {p}
    Content = {c}
    ContentOf <- OneContent
    Holders = {d1}
    Actions <- FleetOrHere
    MaxInputs = 2
PROPERTIES
    InstructionStands
