CONSTANTS
    None = None
    c1 = c1
    c2 = c2
    c3 = c3
    small = small
    large = large
    Clients <- MCClients
    Shapes <- MCShapes
    UsesHint <- MCUsesHint
    Drivers <- MCDrivers
    Iters = 2
    MaxTries = 2
SPECIFICATION FairSpec
INVARIANTS
    AnswersCaller
    DecryptsOwn
    AverageOverOwn
    PanicNeedsTwoShapes
PROPERTIES
    AllEnd
CHECK_DEADLOCK FALSE
