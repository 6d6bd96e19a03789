CONSTANTS
    d1 = d1
    d2 = d2
    d3 = d3
    t1 = t1
    describe = describe
    transcribe = transcribe
    vision = vision
    NoKey = NoKey
    Key <- MCMixed
    Bucket <- MCBucket
    BucketOf <- MixedBucketOf
    Provider <- MCProvider
    ProviderOf <- MixedProviderOf
    Estimates <- MixedEstimates
    Limits <- MCWide
    Ceiling = 2
    MaxAttempts = 2
    Faults = {}
    MaxTasks = 3
    MaxDeaths = 2
SPECIFICATION Spec
INVARIANTS
    Durable
    Owned
PROPERTIES
    ImplementsBacklog
CHECK_DEADLOCK FALSE
