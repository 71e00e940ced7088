SPECIFICATION Spec
CONSTANTS
    NoPage = NoPage
    Tombstone = Tombstone
    MaxGeneration = 9
    MaxReports = 2
    MaxMap = 3
    UnicomInputs = {1}
    UnicomOutputs = {3}
    Databases <- Remotes
    Budgets <- OneFault
INVARIANTS
    RefusedIsRepeated
CHECK_DEADLOCK FALSE
