SPECIFICATION FairSpec
CONSTANTS
    NoPage = NoPage
    Tombstone = Tombstone
    MaxGeneration = 9
    MaxReports = 2
    MaxMap = 3
    UnicomInputs = {1}
    UnicomOutputs = {3}
    Databases <- Remotes
    Budgets <- Mix
INVARIANTS AttachInv ReadyMeansAttached CacheIsSound
PROPERTIES TransportKeepsCache Attaches
