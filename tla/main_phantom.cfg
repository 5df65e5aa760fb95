CONSTANTS
    TickBits = 3
    Debounce = 1
    LongPress = 2
    Delays = {2}
    Periods = {2}
    Durations = {2}
    Owners = {"SIGNET"}
    MaxEdges = 2
    MaxCalls = 0
    MaxLag = 1
    WorkLedOn = 2
    WorkLedOff = 1
    SetupPresses = 2
    SetupDelay = 2
    NrBlocks = 2
    MemtestTimeout = 2
    Fido2 = FALSE
SPECIFICATION Spec
PROPERTY NoPhantomPress
