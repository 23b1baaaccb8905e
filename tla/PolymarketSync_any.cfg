SPECIFICATION FairSpec
CONSTANTS
    Threads = {w1, w2}
    Steady = w1
    MaxEvents = 2
    MaxChanges = 1
    Changing = {1}
    MaxTime = 2
    PageLimit = 1
    SnapshotLimit = 2
INVARIANTS TypeOK  SnapshotsComplete
 
