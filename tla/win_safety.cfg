\* The Windows engine under every caller, window and device operation.
CONSTANTS
    m1 = m1
    m2 = m2
    c1 = c1
    NULL = NULL
    Msgs <- MCMsgs
    Interrupt <- MCInterrupt
    Resp <- MCResp
    Packets <- MCPackets
    RingSize = 8
    MaxCtl = 2
    MaxPlug = 2
    EnvOps = {"OPEN", "CLOSE", "EMULATE_BEGIN", "EMULATE_END", "QUIT", "PLUG", "UNPLUG", "OTHER"}
SPECIFICATION Spec
\* The transaction thread exits on QUIT or blocks in WaitForMultipleObjects
\* for good once callers and device stop.
CHECK_DEADLOCK FALSE
INVARIANT TypeOK DispatchInQueueOrder RingHoldsSubmitted
