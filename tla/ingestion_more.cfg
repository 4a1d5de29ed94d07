\* Types, and below them what the code does not satisfy (README): take the
\* comment off one line at a time.
SPECIFICATION IngestionSpec
CONSTANTS
    s1 = s1
    s2 = s2
    w1 = w1
    w2 = w2
    p1 = p1
    r1 = r1
    Submitters <- OneSubmitter
    Workers <- OneWorker
    Sweepers = {}
    Readers <- OneReader
    Batches = 2
    MaxGen = 3
    MaxRetries = 1
    Deletion = "plain"
INVARIANTS
    IngestionTypeOK
\*  NoOrphanChunks
PROPERTIES
\*  ReadIsWhole
\*  ReadyStaysReady
CHECK_DEADLOCK FALSE
