SPECIFICATION MSpec
CONSTANTS
    Threads = {t1, t2}
    t1 = t1
    t2 = t2
    main = main
    Main = main
    Manager = manager
    NoPid = NoPid
    Failed = Failed
    Failing = {"mmap", "pipe", "malloc", "clone"}
    Faulty = {t1, t2, main}
    Exiters = {t1, t2, main}
    MaxSuspends = 1
SYMMETRY ManagerSymmetry
INVARIANTS ManagerInv SelfFound AnswerIsTrue
CHECK_DEADLOCK FALSE
