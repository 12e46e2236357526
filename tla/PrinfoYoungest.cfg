SPECIFICATION RSpec
CONSTANTS
    Pids = {2, 3, 5, 6, 8}
    MaxFamily = 3
    MaxChildren = 2
    Garbage = {0, 4, 9}
    UTime <- MCUTime
INVARIANTS YoungestChildReported
CHECK_DEADLOCK FALSE
