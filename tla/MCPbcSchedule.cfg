CONSTANTS
    D = 2
    P = 2
    MAX_CUCKOO_ITERS = 3
    NoKey = NoKey
    Keys <- MCKeys
    Buckets = {0, 1, 2}
    Batches <- MCBatches
SPECIFICATION FairSpec
INVARIANTS
    ScheduledAtAChoice
    NoKeyLost
    HeldOnce
    CuckooServesAll
PROPERTIES
    Returns
CHECK_DEADLOCK FALSE
