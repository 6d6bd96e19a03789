CONSTANTS
    s1 = s1
    s2 = s2
    tree = tree
    q1 = q1
    q2 = q2
    q3 = q3
    None = None
    Storage = {s1, s2}
    Tree = {tree}
    Repo = {repo}
    Request = {q1, q2}
    TreeOf <- MCTreeOf
    Holds <- MCHolds
    Calls <- MCApart
    Attempts = 2
    MaxWrites = 3
SPECIFICATION FairSpec
INVARIANTS
    NobodyWaitsForNothing
    NothingForgotten
PROPERTIES
    LandsBetweenCycles
    MirrorSettles
CHECK_DEADLOCK FALSE
