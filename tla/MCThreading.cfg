CONSTANTS
    Thread = {t1, t2, t3}
    Nobody = Nobody
    Garbage = Garbage
SPECIFICATION FairSpec
CHECK_DEADLOCK FALSE
INVARIANTS
    TypeOK
    SuccessIsHonest
    DataReachesJoiner
PROPERTY StartedThreadReturns
