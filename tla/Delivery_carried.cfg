SPECIFICATION FairSpec
CONSTANTS
    t1 = t1
    None = None
    Artifact = {a1, a2}
    Target = {t1}
    Pass = {p1, p2}
    Home <- OneHome
    Fleets <- Either
    Debounce = 1
    MaxDelay = 2
    Backoff = {2}
    MaxTroubles = 1
    MaxBoots = 1
PROPERTIES
    KeepsCarrier
    ArtifactsLeave
CHECK_DEADLOCK FALSE
