\* A message that asks for no response followed by another one.
CONSTANTS
    m1 = m1
    m2 = m2
    c1 = c1
    NULL = NULL
    Msgs <- MCNoCancel
    Interrupt <- MCNone
    Resp <- MCResp
    Packets <- MCPackets
    RingSize = 8
    MaxCtl = 2
    MaxPlug = 0
    EnvOps = {"OPEN", "EMULATE_BEGIN", "EMULATE_END"}
SPECIFICATION Spec
\* The transaction thread exits on QUIT or blocks in WaitForMultipleObjects
\* for good once callers and device stop.
CHECK_DEADLOCK FALSE
PROPERTY QueuedEventuallyFinalized
