CONSTANTS
    Client = {c1, c2}
    Timestamp = ts
    Builds = {TRUE, FALSE}
    RemoveMayFail = FALSE
    Capacity = 2
    Newline = nl
    Zeros = zeros
    Seek = seek
    MaxSent = 2
    NULL = NULL
    Nobody = Nobody
SPECIFICATION FairSpec
CHECK_DEADLOCK FALSE
PROPERTIES
    MessageHandled
    ScanEnds
    CleanupEnds
