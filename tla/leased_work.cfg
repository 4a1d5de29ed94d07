SPECIFICATION LeasedWorkSpec
CONSTANTS
    p1 = p1
    p2 = p2
    None = None
    Nobody = Nobody
    Processes <- TwoProcesses
    MaxGeneration = 2
    MaxRevision = 2
    MaxTroubles = 2
    Sweepers <- TwoProcesses
    MaxJobs = 2
    MaxRetries = 2
    MaxClaims = 5
    Dispatchers <- TwoProcesses
    MaxAttempts = 2
    Backend = "firestore"
    MaxTakes = 4
INVARIANTS
    CleaningHasJob
PROPERTIES
    PublicationStays
    DeliveryIsImplemented
    PendingIsSwept
    ClaimedDiagnosisIsFirst
CHECK_DEADLOCK FALSE
