SPECIFICATION GSpec
CONSTANTS
    Tasks = {t1, t2, t3}
    t1 = t1
    t2 = t2
    t3 = t3
    Gids = {g1, g2}
    g1 = g1
    g2 = g2
    NoTask = NoTask
    GWRR_DWEIGHT = 2
SYMMETRY GwrrSymmetry
INVARIANTS GTypeOK RunnableIsListed
PROPERTIES RoundRobin WorkConserving
CHECK_DEADLOCK FALSE
