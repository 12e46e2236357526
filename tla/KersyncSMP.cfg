SPECIFICATION KSpec
CONSTANTS
    Procs = {p1, p2, p3}
    p1 = p1
    p2 = p2
    p3 = p3
    NoProc = NoProc
    SMP = TRUE
    MAX_EVENT_ID = 0
    MaxCalls = 2
SYMMETRY ProcSymmetry
INVARIANTS ListInv
CHECK_DEADLOCK FALSE
