SPECIFICATION FairUploadSpec
CONSTANTS
    u1 = u1
    u2 = u2
    c1 = c1
    c2 = c2
    d1 = d1
    d2 = d2
    None = None
    Uploaders <- OneUploader
    Cleaners <- TwoCleaners
    Deleters <- TwoDeleters
    MaxUploads = 1
    MaxCleanupRetries = 2
INVARIANTS
    UploadTypeOK
    VisibleHasBytes
PROPERTIES
    CleanupIsOneWay
    PendingUploadEnds
CHECK_DEADLOCK FALSE
