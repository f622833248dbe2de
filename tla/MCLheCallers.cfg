CONSTANTS
    M = 4
    N = 3
    Squishing = 3
    Load = 3
    P = 2
    Rounds = 2
    MaxFit = 112
SPECIFICATION MCSpec
INVARIANTS
    CapacityExact
    SizesPositive
    MemorySafe
    AnswersWhole
    Reclaimed
PROPERTIES
    Returns
CHECK_DEADLOCK FALSE
