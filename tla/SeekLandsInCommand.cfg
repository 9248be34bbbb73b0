CONSTANTS
    a = a
    nl = nl
    Thread = {t1, t2}
    File = {f1}
    Block = {b1, b2, b3, b4}
    Slots = 2
    Chunk <- MCChunk
    ReadSize = {1, 3}
    Newline = nl
    NULL = NULL
    Nobody = Nobody
    Closed = Closed
    Unused = Unused
    SIZE_MAX = 255
    MaxPos = 4
    MaxCommand = 2
SPECIFICATION Spec
INVARIANT SeekLandsInCommand
