CONSTANTS
    BlockBits = 2
    Addrs = 5
    Keys = {0, 1}
    MaxBlocks = 3
    InPlaceDecrypt = FALSE
    NULL = NULL
SPECIFICATION Spec
INVARIANT TypeOK CbcMatchesReference
PROPERTY WritesOnlyOutput
