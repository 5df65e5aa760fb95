CONSTANTS
    Lengths = {0, 1, 2}
    ResidueBits = 3
    MaxCmds = 1
    Mismatch = TRUE
    Invalid = TRUE
    Timeout = TRUE
    Chunk = 1
SPECIFICATION Spec
INVARIANT ResidueIsUntransferred
