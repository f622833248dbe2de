CONSTANTS
    None = None
    c1 = c1
    c2 = c2
    Clients <- MCClients
    Batch = 2
    SizeLen = 2
    Length <- MCLength
    Buffer = 2
    Drivers <- MCDrivers
SPECIFICATION FairSpec
INVARIANTS
    FatalHasCause
    TokensInOrder
PROPERTIES
    ImplementsSession
    CallsReturn
CHECK_DEADLOCK FALSE
