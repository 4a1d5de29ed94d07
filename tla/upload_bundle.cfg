SPECIFICATION UploadSpec
CONSTANTS
    u1 = u1
    u2 = u2
    c1 = c1
    c2 = c2
    d1 = d1
    d2 = d2
    None = None
    Uploaders <- TwoUploaders
    Cleaners <- TwoCleaners
    Deleters = {}
    MaxUploads = 2
    MaxCleanupRetries = 2
INVARIANTS
    VisibleHasBytes
CHECK_DEADLOCK FALSE
