SPECIFICATION FairSpec
CONSTANTS
    CtlSlots = 2
    CtlBurst = 1
    KeyDepth = 2
    MediaDepth = 2
    RingCap = 1
    OpsCap = 1
    MaxTx = 2
    TxExhausts = FALSE
    MaxStream = 2
    UnitChunks = 2
    MaxSession = 1
    MaxConn = 1
    MaxEpisodes = 2
    MaxChunks = 2
    MaxEpoch = 2
    MaxPending = 1
    MaxTimeouts = 0
    Requests = {"ENABLE", "DISABLE", "STOP"}
    Timers = {"STOP", "CAPTURE", "AUDIO"}
INVARIANTS VoiceInv HostNeverRejects SilentAfterDisable
PROPERTIES StreamCloses VoiceStops
