\* Types, and below them what the code does not satisfy (README): take the
\* comment off one line at a time.
SPECIFICATION FairGateSpec
CONSTANTS
    a1 = a1
    a2 = a2
    a3 = a3
    s1 = s1
    Approvers <- TwoApprovers
    Scanners <- MCScanners
    MaxDecisions = 3
    MaxJobs = 5
INVARIANTS
    GateTypeOK
\*  StagingIsCleaned
PROPERTIES
    ApprovalIsFinal
\*  PublishedBundleStays
\*  LiveDecisionStands
\*  RejectionIsFinal   \* with Approvers <- MCApprovers, MaxDecisions = 4
\*  RetryEnds
CHECK_DEADLOCK FALSE
