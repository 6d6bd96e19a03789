SPECIFICATION FairSpec
CONSTANTS
    b1 = b1
    b2 = b2
    Batch = {b1, b2}
    File = {f1, f2}
    Mixes <- MCMixes
    Ceiling = 2
    MinSample = 1
    MaxHealth = 1
    MaxDeaths = 1
INVARIANTS
    RowIdentity
    RowMatchesManifest
    RowFinishedMeansIdle
    TerminalRecordTrue
    OutcomeIsFinal
    BudgetStops
PROPERTIES
    RowsFinish
CHECK_DEADLOCK FALSE
