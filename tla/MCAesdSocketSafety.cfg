CONSTANTS
    Client = {c1, c2, c3}
    Timestamp = ts
    Builds = {TRUE, FALSE}
    RemoveMayFail = TRUE
    Capacity = 2
    Newline = nl
    Zeros = zeros
    Seek = seek
    MaxSent = 2
    NULL = NULL
    Nobody = Nobody
SPECIFICATION Spec
SYMMETRY MCSymmetry
CHECK_DEADLOCK FALSE
INVARIANTS
    TypeOK
    ReplyIsSnapshot
    FreedAfterJoin
    ThreadsAccounted
    FileIsOfThisRun
    OrphanedOnlyInCleanup
