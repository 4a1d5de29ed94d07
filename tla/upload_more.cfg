\* Types, and below them what the code does not satisfy (README): take the
\* comment off one line at a time.
SPECIFICATION UploadSpec
CONSTANTS
    u1 = u1
    u2 = u2
    c1 = c1
    c2 = c2
    d1 = d1
    d2 = d2
    None = None
    Uploaders <- OneUploader
    Cleaners <- TwoCleaners
    Deleters = {}
    MaxUploads = 1
    MaxCleanupRetries = 2
INVARIANTS
    UploadTypeOK
\*  NoOrphanBytes
CHECK_DEADLOCK FALSE
