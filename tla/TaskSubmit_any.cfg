SPECIFICATION FairSpec
CONSTANTS
    s1 = s1
    s2 = s2
    Keys = {k1}
    NoKey = NoKey
    Clients = {c1, c2}
    Schedules = {s1, s2}
    Workers = {w1, w2}
    Interval <- Intervals
    FirstRun <- FirstRuns
    ByHand <- HandRuns
    MaxDue = 1
    MaxTime = 2
    MaxMishaps = 1
INVARIANTS TypeOK  RunsInOrder
PROPERTIES DueIsDispatched
