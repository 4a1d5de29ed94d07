SPECIFICATION FairGateSpec
CONSTANTS
    a1 = a1
    a2 = a2
    s1 = s1
    a3 = a3
    Approvers <- TwoApprovers
    Scanners <- MCScanners
    MaxDecisions = 3
    MaxJobs = 5
INVARIANTS
    ApprovedIsAtomic
PROPERTIES
    ApprovalIsFinal
    LatestDecisionCommits
    ApprovingEnds
CHECK_DEADLOCK FALSE
