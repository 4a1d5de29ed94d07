SPECIFICATION ReconcileSpec
CONSTANTS
    p1 = p1
    p2 = p2
    None = None
    Verifiers <- TwoProcesses
    MaxAttempts = 2
    Configured = TRUE
    MaxTroubles = 1
    Nobody = Nobody
    Cleaners <- TwoProcesses
    Collections = 2
    Ids <- TwoIds
    Batch = 1
    MaxWrites = 1
    MaxFailures = 1
PROPERTIES
    TeardownIsOrderly
    SandboxIsTornDown
    AvailableStands
    PendingIsDecided
    WaitingIsListed
CHECK_DEADLOCK FALSE
