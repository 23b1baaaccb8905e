SPECIFICATION Spec
CONSTANTS
    i1 = i1
    i2 = i2
    i3 = i3
    Agg = Agg
    Parent = Parent
    Items = {i1, i2}
    MaxParallel = 2
    BatchSize = 2
    PerJobLimit = 2
    Requests <- AllRequests
    Faults <- AllFaults
    MaxMishaps = 2
    MaxRetries = 1
INVARIANTS TypeOK ReportIsComplete
SYMMETRY Symmetry
