CONSTANTS
    d1 = d1
    d2 = d2
    d3 = d3
    t1 = t1
    describe = describe
    transcribe = transcribe
    vision = vision
    NoKey = NoKey
    Key <- MCHeap
    Bucket <- MCBucket
    BucketOf <- HeapBucketOf
    Provider <- MCProvider
    ProviderOf <- HeapProviderOf
    Estimates <- HeapEstimates
    Limits <- MCLimits
    Ceiling = 3
    MaxAttempts = 2
    Faults = {}
    MaxTasks = 3
    MaxDeaths = 1
SPECIFICATION FairSpec
INVARIANTS
    OneTaskPerKey
    HeapBudget
PROPERTIES
    FirstComeFirstServed
    EverySettles
CHECK_DEADLOCK FALSE
