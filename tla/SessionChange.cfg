SPECIFICATION Spec
CONSTANTS
    CtlSlots = 2
    CtlBurst = 2
    KeyDepth = 2
    MediaDepth = 1
    RingCap = 2
    OpsCap = 1
    MaxTx = 5
    TxExhausts = TRUE
    MaxStream = 1
    UnitChunks = 1
    MaxSession = 2
    MaxConn = 2
    MaxPending = 1
    RestartsSearch = TRUE
    Requests = {"FIND_START", "PAIR_BEGIN", "FORGET", "GOODBYE"}
    Timers = {"HEARTBEAT", "OP"}
INVARIANTS SessionInv NoSequenceGap FramesInSessionOrder
