CONSTANTS
    m1 = m1
    m2 = m2
    c1 = c1
    NULL = NULL
    Msgs <- MCMsgs
    Interrupt <- MCInterrupt
    Resp <- MCResp
    Packets <- MCPackets
    WireCap = 1
    MaxCtl = 2
    MaxPlug = 2
    EnvOps = {"OPEN", "CLOSE", "EMULATE_BEGIN", "EMULATE_END", "QUIT", "UNPLUG", "PLUG"}
SPECIFICATION Spec
\* The engine blocks in epoll_wait for good once callers and device stop.
CHECK_DEADLOCK FALSE
INVARIANT NoMessageLost
