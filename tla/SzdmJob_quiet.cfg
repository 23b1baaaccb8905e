SPECIFICATION FairSpec
CONSTANTS
    i1 = i1
    i2 = i2
    i3 = i3
    Agg = Agg
    Parent = Parent
    Items = {i1, i2, i3}
    MaxParallel = 2
    BatchSize = 1
    PerJobLimit = 2
    Requests = {"get"}
    Faults = {"item_error"}
    MaxMishaps = 2
    MaxRetries = 0
INVARIANTS  FailureReachesParent
PROPERTIES JobSettles
