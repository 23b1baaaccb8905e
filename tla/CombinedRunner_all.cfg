SPECIFICATION FairSpec
CONSTANT MaxSignals = 3
INVARIANTS NoOrphan OrderlyShutdown
PROPERTIES GoesDownTogether
CHECK_DEADLOCK FALSE
