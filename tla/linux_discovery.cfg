CONSTANTS
    m1 = m1
    m2 = m2
    c1 = c1
    NULL = NULL
    Msgs <- MCMsgs
    Interrupt <- MCInterrupt
    Resp <- MCResp
    Packets <- MCPackets
    WireCap = 4
    MaxCtl = 2
    MaxPlug = 3
    EnvOps = {"OPEN", "PLUG", "UNPLUG"}
SPECIFICATION Spec
\* The engine blocks in epoll_wait for good once callers and device stop.
CHECK_DEADLOCK FALSE
PROPERTY OpenOnArrival
