CONSTANTS
    D = 2
    P = 2
    MAX_CUCKOO_ITERS = 3
    N = 4
    BatchSize = 2
    ServerMode = "Cuckoo"
    MaxCols = 2
    NoKey = NoKey
    Batches <- MCBatches
SPECIFICATION Spec
INVARIANTS
    MappingLocates
    ShapeHidesIndices
    MissesOnlyWhenFull
PROPERTIES
    ImplementsRetrieval
CHECK_DEADLOCK FALSE
