CONSTANTS
    Process = {main, p1, p2, p3}
    Main = main
    MaxCalls = 3
    NULL = NULL
SPECIFICATION Spec
SYMMETRY MCSymmetry
CHECK_DEADLOCK FALSE
INVARIANTS
    TypeOK
    TrueMeansRan
    ParentWaits
    OnlyFailuresKeepFiles
