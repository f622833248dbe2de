CONSTANTS
    N = 5
    Cutoffs = {1, 2, 3}
    Loads = {2, 3}
    Batches <- MCBatches
    MaxCols = 2
    GPUs = {FALSE}
SPECIFICATION Spec
INVARIANTS
    LheServesAll
PROPERTIES
    ImplementsRetrieval
    WithinLoadAnswered
CHECK_DEADLOCK FALSE
