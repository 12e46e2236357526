SPECIFICATION PFairSpec
CONSTANTS
    Pages = {p1}
    p1 = p1
    Mappable = {p1}
    Writable = {p1}
    Reclaimers = {kswapd, direct}
    kswapd = kswapd
    direct = direct
    Nobody = Nobody
    SWAP_CLUSTER_MAX = 1
    PAGEVEC_SIZE = 2
    MaxRefCnt = 2
    RefBit <- MCRefBit
    Wrap = 1
INVARIANTS PageInv NoLostWrite AgeKept
PROPERTIES ScanEnds
CHECK_DEADLOCK FALSE
