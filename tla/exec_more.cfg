\* Types, and below them what the code does not satisfy (README): take the
\* comment off one line at a time.
SPECIFICATION FairSpec
CONSTANTS
    w1 = w1
    w2 = w2
    Workers <- MCWorkers
    Backend = "firestore"
    Critical = FALSE
    MaxAttempts = 2
    MaxVersion = 3
    MaxGeneration = 2
INVARIANTS
    TypeOK
\*  PublishedHasBytes
PROPERTIES
    RecordNeverRollsBack
\*  OutcomeIsFinal
\*  StalledIsReclaimed
\*  RunningEnds
\*  ReclaimedIsRedispatched
CHECK_DEADLOCK FALSE
