SPECIFICATION FairSpec
CONSTANTS
    f1 = f1 f2 = f2 r1 = r1
    None = None
    File = {f1, f2}
    Repo = {r1}
    RepoOf <- OneRepo
    Arrives <- InTurn
    Agreed = {f2}
    MaxCommits = 2
    Wait = 2
    BootWait = 0
    MinUptime = 1
    Faults = {}
INVARIANTS
    RetryStandsBy
    CursorIsTrue
PROPERTIES
    RetryComes
    DecidedArrive
CHECK_DEADLOCK FALSE
