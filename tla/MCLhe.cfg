CONSTANTS
    LimbBits = 3
    Formats <- MCFormats
    Counts = {1, 2, 3, 4}
    Widths = {1, 2, 3, 4}
    MaxBits = 9
    Q = 256
    N = 3
    BlockUnits = 2
    BufUnits = 2
    SeedLen = 2
    Cipher <- MCCipher
    Expand <- MCExpand
    Basis = 2
    Ratio = 3
    Ratio64 = 2
    Block = 2
    Secrets <- MCSecrets
    Noises <- MCNoises
    Junk = {0, 45}
    Settings <- MCSettings
    Queried <- MCQueried
SPECIFICATION Spec
INVARIANTS
    RoundTrip
    HasRoom
    TokenExact
    DimensionsAgree
    ProductExact
    RetrievesEntry
CHECK_DEADLOCK FALSE
