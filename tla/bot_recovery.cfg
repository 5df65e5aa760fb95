CONSTANTS
    Lengths = {0, 1}
    ResidueBits = 3
    MaxCmds = 3
    Mismatch = FALSE
    Invalid = TRUE
    Timeout = FALSE
    Chunk = 1
SPECIFICATION Spec
PROPERTY CommandAnswered
CHECK_DEADLOCK FALSE
