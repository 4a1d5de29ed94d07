SPECIFICATION TowerSpec
CONSTANTS
    w1 = w1
    w2 = w2
    a1 = a1
    a2 = a2
    s1 = s1
    Workers <- OneWorker
    MaxAttempts = 2
    MaxVersion = 0
    MaxGeneration = 2
    Approvers <- OneApprover
    Scanners <- OneScanner
    MaxDecisions = 1
    MaxJobs = 3
INVARIANTS
    NothingUnapprovedIsPublished
PROPERTIES
    ApprovedRunStays
CHECK_DEADLOCK FALSE
