CONSTANTS
    Slots = 10
    NULL = NULL
    SIZE_MAX = 255
    short = short
    long = long
    Entry <- MCEntry
SPECIFICATION Spec
INVARIANTS
    TypeOK
    OffsetsConsistent
    OverwrittenIsReturned
    FindMatchesLog
PROPERTY ImplementsLog
