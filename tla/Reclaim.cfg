SPECIFICATION PSpec
CONSTANTS
    Pages = {p1, p2}
    p1 = p1
    p2 = p2
    Mappable = {p1}
    Writable = {}
    Reclaimers = {kswapd}
    kswapd = kswapd
    Nobody = Nobody
    SWAP_CLUSTER_MAX = 2
    PAGEVEC_SIZE = 2
    MaxRefCnt = 2
    RefBit <- MCRefBit
    Wrap = 2
INVARIANTS PageInv Accounting TouchRemembered
CHECK_DEADLOCK FALSE
