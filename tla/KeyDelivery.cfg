SPECIFICATION FairSpec
CONSTANTS
    CtlSlots = 3
    CtlBurst = 1
    KeyDepth = 2
    MediaDepth = 2
    RingCap = 2
    OpsCap = 1
    MaxTx = 2
    TxExhausts = FALSE
    MaxStream = 1
    UnitChunks = 1
    Keys = {"a"}
    MaxConn = 2
    MaxSeq = 2
    MaxPings = 1
INVARIANTS KeyInv KeysConverge
PROPERTIES KeyEventsInOrder KeysReleased
