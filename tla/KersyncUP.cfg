SPECIFICATION KFairSpec
CONSTANTS
    Procs = {p1, p2, p3}
    p1 = p1
    p2 = p2
    p3 = p3
    NoProc = NoProc
    SMP = FALSE
    MAX_EVENT_ID = 1
    MaxCalls = 2
INVARIANTS CountExact NoDanglingUser NoSleeperOnClosed
PROPERTIES ClosedIsLeft
CHECK_DEADLOCK FALSE
