SPECIFICATION FairIngestionSpec
CONSTANTS
    s1 = s1
    s2 = s2
    w1 = w1
    w2 = w2
    p1 = p1
    r1 = r1
    Submitters <- OneSubmitter
    Workers <- OneWorker
    Sweepers <- OneSweeper
    Readers <- OneReader
    Batches = 2
    MaxGen = 2
    MaxRetries = 1
    Deletion = "fenced"
INVARIANTS
    ActiveIsWhole
    TombstonesAreEmpty
PROPERTIES
    NewestJobCommits
    StalledJobEnds
CHECK_DEADLOCK FALSE
