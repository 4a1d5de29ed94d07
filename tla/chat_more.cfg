\* Types, and below them what the code does not satisfy (README): take the
\* comment off one line at a time.
SPECIFICATION ChatSpec
CONSTANTS
    r1 = r1
    r2 = r2
    r3 = r3
    same = same
    other = other
    None = None
    Requests <- ThreeRequests
    Payload <- TwoPayloads
    Intent = "talk"
    MaxVersion = 4
INVARIANTS
    ChatTypeOK
\*  AnswerIsStored
\*  OnePayload
CHECK_DEADLOCK FALSE
