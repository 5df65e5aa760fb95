\* An open requested while the device is absent, then other devices and
\* the Signet device arrive.
CONSTANTS
    m1 = m1
    m2 = m2
    c1 = c1
    NULL = NULL
    Msgs <- MCMsgs
    Interrupt <- MCInterrupt
    Resp <- MCResp
    Packets <- MCPackets
    RingSize = 8
    MaxCtl = 2
    MaxPlug = 2
    EnvOps = {"OPEN", "PLUG", "OTHER"}
SPECIFICATION Spec
\* The transaction thread exits on QUIT or blocks in WaitForMultipleObjects
\* for good once callers and device stop.
CHECK_DEADLOCK FALSE
PROPERTY OpenOnArrival
