SPECIFICATION SpecAll
CONSTANTS
    Threads = {t1, t2, t3}
    t1 = t1
    t2 = t2
    t3 = t3
    NO_THREAD = NO_THREAD
    MAX_Q_SIZE = 2
    INT_MAX = 63
    MaxDepth = 2
    MaxHead = 3
SYMMETRY ThreadSymmetry
INVARIANTS TypeOK QueueShape SpinlockExclusive
CHECK_DEADLOCK FALSE
