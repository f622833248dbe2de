CONSTANTS
    D = 3
    P = 2
    MAX_CUCKOO_ITERS = 500
    NonceSpace = 5
    BatchSizes = {1}
SPECIFICATION ChoosingFairSpec
PROPERTIES
    AlwaysGenerates
CHECK_DEADLOCK FALSE
