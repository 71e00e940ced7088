CONSTANTS
    Identities = {a1, a2}
    NoAddr = NoAddr
    NoRecord = NoRecord
    MaxGen = 6
    MaxCounter = 2
    ReadbackFaults = FALSE
    SaveWhileDeleting = FALSE
SPECIFICATION Spec
INVARIANTS CrashConsistent FreshPeerId ReportedPairingKept ForgottenStaysForgotten
