SPECIFICATION FairSpec
CONSTANTS
    MaxItems = 5
    ShardSize = 2
    MaxChildren = 2
    Aggregates = {g1, g2}
    Parent = Parent
    NoTask = NoTask
    ClientHeaders = {"present"}
    Clients = {c1}
    Requests = {"retry_work", "cancel_parent"}
    Faults = {"lost_run"}
    MaxMishaps = 1
    MaxRetries = 1
INVARIANTS NeverStranded CountersSettle SucceededIsComplete
PROPERTIES SucceededIsFinal ParentSettles
