SPECIFICATION ChatSpec
CONSTANTS
    r1 = r1
    r2 = r2
    r3 = r3
    same = same
    other = other
    None = None
    Requests <- ThreeRequests
    Payload <- SamePayload
    Intent = "breakdown"
    MaxVersion = 4
INVARIANTS
    OneAnswer
    CompletedIsStored
PROPERTIES
    HolderSavesRun
SYMMETRY RequestSymmetry
CHECK_DEADLOCK FALSE
