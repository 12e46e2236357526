SPECIFICATION FairSpec
CONSTANTS
    Threads = {t1, t2, t3}
    t1 = t1
    t2 = t2
    t3 = t3
    NO_THREAD = NO_THREAD
    MAX_Q_SIZE = 3
    INT_MAX = 2000
    MaxDepth = 2
    MaxHead = 1000
VIEW HeadView
INVARIANTS MutualExclusion FirstIsServed WaiterIsQueued MutexInv
PROPERTIES NoOvertaking SleeperGetsLock UnlockReturns ImplementsFifo
