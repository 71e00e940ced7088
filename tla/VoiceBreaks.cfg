SPECIFICATION Spec
CONSTANTS
    CtlSlots = 2
    CtlBurst = 1
    KeyDepth = 2
    MediaDepth = 1
    RingCap = 1
    OpsCap = 1
    MaxTx = 2
    TxExhausts = FALSE
    MaxStream = 1
    UnitChunks = 2
    MaxSession = 2
    MaxConn = 2
    MaxEpisodes = 3
    MaxChunks = 1
    MaxEpoch = 1
    MaxPending = 1
    MaxTimeouts = 1
    Requests = {"ENABLE", "DISABLE", "DISCONNECT", "CONNECT_PEER", "SET_RECONNECT",
                "GET_DEVICE"}
    Timers = {"HEARTBEAT"}
INVARIANTS HostNeverRejects OnlyWantedCaptures
PROPERTIES ResumeNeedsIntent
