SPECIFICATION Spec
CONSTANTS
    MaxU64 = 63
    CutPoints = {0, 2, 5}
    Threads = {t1, t2}
    Opener = t1
    PAGED_PAGE_SIZE = 4
    CachePages = 2
    SLAB_HEADER_LEN = 3
    DROP_RECORD_LEN = 1
    Slabs <- MCSlabs
    Contents <- MCContents
    Dictionaries = {1}
    Transports <- MCTransports
    RawReads <- MCRawReads
    Modes = {"raw", "set"}
    MaxReads = 2
    MaxFaults = 1
INVARIANTS PagedReadIsExact CacheHoldsTheSlab
PROPERTY EveryPagedReadReturns
CHECK_DEADLOCK FALSE
