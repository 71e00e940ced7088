CONSTANTS
    Identities = {a1}
    NoAddr = NoAddr
    NoRecord = NoRecord
    Empty = Empty
    Corrupt = Corrupt
    MaxGen = 3
    MaxCounter = 2
    ReadbackFaults = TRUE
SPECIFICATION JournalSpec
INVARIANTS JournalInv
PROPERTIES AtomicRecord
