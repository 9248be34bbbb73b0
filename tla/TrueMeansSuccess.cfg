CONSTANTS
    Process = {main, p1, p2}
    Main = main
    MaxCalls = 2
    NULL = NULL
SPECIFICATION Spec
CHECK_DEADLOCK FALSE
INVARIANT TrueMeansSuccess
