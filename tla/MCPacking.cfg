CONSTANTS
    Cutoff <- MCCutoff
    Width <- MCWidth
    BucketSizes <- MCSizes
    Budgets = {0, 1, 2, 3, 5, 8, 13, 20}
SPECIFICATION PackingSpec
INVARIANTS
    TypeOK
    WithinBudget
    ModulusFits
    HoldsBucket
    RowsSuffice
CHECK_DEADLOCK FALSE
