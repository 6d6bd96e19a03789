SPECIFICATION Spec
CONSTANTS
    t1 = t1
    None = None
    Artifact = {a1, a2}
    Target = {t1}
    Pass = {p1, p2}
    Home <- OneHome
    Fleets <- JustARepo
    Debounce = 1
    MaxDelay = 2
    Backoff = {2}
    MaxTroubles = 1
    MaxBoots = 0
INVARIANTS
    NothingStranded
CHECK_DEADLOCK FALSE
