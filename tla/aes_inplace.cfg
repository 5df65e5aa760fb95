CONSTANTS
    BlockBits = 2
    Addrs = 5
    Keys = {0, 1}
    MaxBlocks = 3
    InPlaceDecrypt = TRUE
    NULL = NULL
SPECIFICATION Spec
INVARIANT CbcMatchesReference
