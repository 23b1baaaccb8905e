SPECIFICATION Spec
CONSTANTS
    MaxItems = 4
    ShardSize = 2
    MaxChildren = 2
    Aggregates = {g1, g2}
    Parent = Parent
    NoTask = NoTask
    ClientHeaders = {"present"}
    Clients = {c1}
    Requests <- AllRequests
    Faults <- AllFaults
    MaxMishaps = 1
    MaxRetries = 1
INVARIANTS TypeOK AtMostOneAggregate
PROPERTIES AggregateAfterAll
SYMMETRY Symmetry
