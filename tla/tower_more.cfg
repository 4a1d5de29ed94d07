\* Types, and below them what the code does not satisfy (README): take the
\* comment off one line at a time.
SPECIFICATION TowerSpec
CONSTANTS
    w1 = w1
    w2 = w2
    a1 = a1
    a2 = a2
    s1 = s1
    Workers <- OneWorker
    MaxAttempts = 2
    MaxVersion = 4
    MaxGeneration = 2
    Approvers <- OneApprover
    Scanners <- OneScanner
    MaxDecisions = 1
    MaxJobs = 3
INVARIANTS
    TowerTypeOK
\*  ApprovalCompletesAction
PROPERTIES
\*  RejectedIsNotExecuted
CHECK_DEADLOCK FALSE
