CONSTANTS
    Identities = {a1}
    NoAddr = NoAddr
    NoRecord = NoRecord
    MaxGen = 6
    MaxCounter = 2
    ReadbackFaults = FALSE
    SaveWhileDeleting = FALSE
SPECIFICATION Spec
INVARIANT AlwaysRecoverable
