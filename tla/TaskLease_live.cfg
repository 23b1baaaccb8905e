SPECIFICATION FairSpec
CONSTANTS
    t1 = t1
    t2 = t2
    w1 = w1
    w2 = w2
    Tasks = {t1}
    Workers = {w1, w2}
    NoWorker = NoWorker
    Clients = {c1}
    ApiOps = {"cancel"}
    MaxAttempts = 2
    Concurrency = 1
    ClaimBatch = 1
    RecoverLimit = 1
    Handles <- HandlesAll
    Faults = {"crash", "mark_error", "late_lease"}
    MaxMishaps = 1
    MaxRetries = 0
INVARIANTS TypeOK RunningIsLeased VerdictHasAttempt
PROPERTIES AttemptVerdictIsFinal EventuallySettled 
