CONSTANTS
    D = 3
    P = 2
    MAX_CUCKOO_ITERS = 500
    NonceSpace = 5
    BatchSizes = {1, 2, 3}
SPECIFICATION ChoosingFairSpec
INVARIANTS
    FirstDistinctInOrder
PROPERTIES
    FindsThem
CHECK_DEADLOCK FALSE
