SPECIFICATION HalvesSpec
CONSTANTS
    c1 = c1
    c2 = c2
    r1 = r1
    r2 = r2
    w1 = w1
    Confirmers <- TwoConfirmers
    Recoverers <- TwoRecoverers
    Backend = "firestore"
    MaxGeneration = 5
    MaxFaults = 3
INVARIANTS
    OneDispatcherHolds
    DuplicatesNeedFailures
PROPERTIES
    ConfirmedIsEnqueued
    StalledIsReclaimed
CHECK_DEADLOCK FALSE
