SPECIFICATION Spec
CONSTANTS
    CtlSlots = 3
    CtlBurst = 2
    KeyDepth = 2
    MediaDepth = 1
    RingCap = 2
    OpsCap = 1
    MaxTx = 2
    TxExhausts = FALSE
    MaxStream = 1
    UnitChunks = 1
    MaxSession = 2
    MaxConn = 1
    MaxPending = 1
    RestartsSearch = FALSE
    Requests = {"FIND_START", "PAIR_BEGIN"}
    Timers = {}
INVARIANT
    HelloIsFirst
