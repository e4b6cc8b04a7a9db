CONSTANTS
    Threads = {t1, t2}
    Positions <- Positions3
    Opening <- Opening2
    Keys <- Positions3
    Netresults <- AllResults
    BOARD_SIZE = 2
    TriedSymmetries = {6}
    Playouts = 0
    CacheSizes = {0, 1, 3}
    MAX_CACHE_COUNT = 4
    MIN_CACHE_COUNT = 1
    UNLIMITED_PLAYOUTS = 9
    None = None
SPECIFICATION Spec
INVARIANTS TypeOK CacheOrdered PolicyOriented
