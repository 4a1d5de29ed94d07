\* Types, and below them what the code does not satisfy (README): take the
\* comment off one line at a time.
SPECIFICATION ReconcileSpec
CONSTANTS
    p1 = p1
    p2 = p2
    None = None
    Verifiers <- TwoProcesses
    MaxAttempts = 2
    Configured = TRUE
    MaxTroubles = 1
    Nobody = Nobody
    Cleaners <- TwoProcesses
    Collections = 2
    Ids <- TwoIds
    Batch = 1
    MaxWrites = 1
    MaxFailures = 1
INVARIANTS
    ReconcileTypeOK
\*  NothingIsLeft
\*  VerifyEmptyTellsTheTruth
\*  ListedOnce
PROPERTIES
    PendingIsDecided
\*  BytesKeepTheirRecord
\*  SpaceIsDeleted
\*  EndedGetsDecided
CHECK_DEADLOCK FALSE
