\* Types, and below them what the code does not satisfy (README): take the
\* comment off one line at a time.
SPECIFICATION FairLeasedWorkSpec
CONSTANTS
    p1 = p1
    p2 = p2
    None = None
    Nobody = Nobody
    Processes <- TwoProcesses
    MaxGeneration = 2
    MaxRevision = 2
    MaxTroubles = 2
    Sweepers <- TwoProcesses
    MaxJobs = 2
    MaxRetries = 2
    MaxClaims = 5
    Dispatchers <- TwoProcesses
    MaxAttempts = 2
    Backend = "firestore"
    MaxTakes = 4
INVARIANTS
    LeasedWorkTypeOK
\*  PublishedHasItsBytes
\*  AttemptsAreBounded
\*  DeadLetterWasNotRecorded
PROPERTIES
    SettledIsFinal
    StandingGetsDiagnosed
\*  InProgressIsFinished
\*  DiagnosedOnce
CHECK_DEADLOCK FALSE
