CONSTANTS
    Lengths = {0, 1, 2}
    ResidueBits = 3
    MaxCmds = 3
    Mismatch = FALSE
    Invalid = TRUE
    Timeout = TRUE
    Chunk = 1
SPECIFICATION Spec
INVARIANT TypeOK ResidueIsUntransferred InvalidNeverPassed
