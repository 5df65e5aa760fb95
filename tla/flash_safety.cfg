CONSTANTS
    ByteCounts = {0, 8, 17}
    Chunk = 2
    MaxReq = 4
    ErrIE = TRUE
    Faults = TRUE
SPECIFICATION Spec
\* The client makes at most MaxReq requests, after which the driver rests.
CHECK_DEADLOCK FALSE
INVARIANT TypeOK
PROPERTY FlashRefined
INVARIANT ControlBitsFollowState
