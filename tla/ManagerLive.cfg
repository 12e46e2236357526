SPECIFICATION MFairSpec
CONSTANTS
    Threads = {t1, t2}
    t1 = t1
    t2 = t2
    main = main
    Main = main
    Manager = manager
    NoPid = NoPid
    Failed = Failed
    Failing = {}
    Faulty = {}
    Exiters = {main}
    MaxSuspends = 1
PROPERTIES CreateReturns FinishedIsReclaimed ExitEnds
CHECK_DEADLOCK FALSE
