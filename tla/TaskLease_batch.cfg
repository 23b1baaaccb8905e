SPECIFICATION Spec
CONSTANTS
    t1 = t1
    t2 = t2
    w1 = w1
    w2 = w2
    Tasks = {t1, t2}
    Workers = {w1, w2}
    NoWorker = NoWorker
    Clients = {c1}
    ApiOps = {"retry"}
    MaxAttempts = 1
    Concurrency = 1
    ClaimBatch = 2
    RecoverLimit = 2
    Handles <- HandlesPart
    Faults = {"crash", "mark_error", "beat_error"}
    MaxMishaps = 1
    MaxRetries = 1
INVARIANTS ClaimBudget
PROPERTIES LifecycleSpec
