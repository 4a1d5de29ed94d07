SPECIFICATION Spec
CONSTANTS
    w1 = w1
    w2 = w2
    Workers <- MCWorkers
    Backend = "firestore"
    Critical = FALSE
    MaxAttempts = 2
    MaxVersion = 4
    MaxGeneration = 2
SYMMETRY Symmetry
INVARIANTS
    LeaseInvariant
    StaleWorkerFenced
    CompletedIsPublished
PROPERTIES
    LiveLeaseIsExclusive
    LatestLeaseCommits
CHECK_DEADLOCK FALSE
