CONSTANTS
    s1 = s1
    s2 = s2
    tree = tree
    q1 = q1
    q2 = q2
    q3 = q3
    None = None
    Storage = {s1, s2}
    Tree = {tree}
    Repo = {}
    Request = {q1, q2, q3}
    TreeOf <- MCTreeOf
    Holds <- MCHolds
    Calls <- MCShared
    Attempts = 2
    MaxWrites = 0
SPECIFICATION FairSpec
INVARIANTS
    OneCyclePerTree
    Delivered
PROPERTIES
    Answered
CHECK_DEADLOCK FALSE
