SPECIFICATION SSpec
CONSTANTS
    MAXJOBS = 2
    MAX_CMD_NUM = 2
    MaxPid = 3
    MaxJid = 2
    ForkFails = TRUE
INVARIANTS JobTable
PROPERTIES ForegroundWaits ForegroundReturns
CHECK_DEADLOCK FALSE
