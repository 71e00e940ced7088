SPECIFICATION FairSpec
CONSTANTS
    CtlSlots = 3
    CtlBurst = 2
    KeyDepth = 2
    MediaDepth = 1
    RingCap = 1
    OpsCap = 1
    MaxTx = 2
    TxExhausts = FALSE
    MaxStream = 1
    UnitChunks = 1
    MaxSession = 1
    MaxConn = 1
    MaxPending = 1
    RestartsSearch = FALSE
    Requests = {"FIND_START", "FIND_STOP", "PAIR_BEGIN", "PAIR_REPLY", "PAIR_CANCEL", "FORGET"}
    Timers = {"FIND", "TTL", "PROMPT", "OP"}
INVARIANTS SessionInv SearchKnown
PROPERTIES OperationsEnd
