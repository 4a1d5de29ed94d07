SPECIFICATION LifecycleSpec
CONSTANTS
    c1 = c1
    c2 = c2
    r1 = r1
    r2 = r2
    w1 = w1
    w2 = w2
    Confirmers <- MCConfirmers
    Recoverers <- MCRecoverers
    Workers <- OneWorker
    Backend = "firestore"
    Critical = FALSE
    MaxAttempts = 1
    MaxVersion = 3
    MaxGeneration = 3
    MaxFaults = 2
INVARIANTS
    LeasesStayBounded
    RecordTellsTheQueue
CHECK_DEADLOCK FALSE
