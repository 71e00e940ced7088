CONSTANTS
    Identities = {a1}
    NoAddr = NoAddr
    NoRecord = NoRecord
    MaxGen = 6
    MaxCounter = 2
    ReadbackFaults = FALSE
    SaveWhileDeleting = TRUE
SPECIFICATION Spec
PROPERTY EraseUnderIntent
