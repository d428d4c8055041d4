CONSTANTS
    N = 2
    Member = {1, 2}
    AllowInGame = TRUE
    Clocks = TRUE
    MayCancel = TRUE
    MaxJoin = 1
    MaxStatus = 1
SPECIFICATION FairSpec
INVARIANTS TypeOK ReadyMeansLoaded
PROPERTIES ImplementsBarrier NobodyWaitsForEver
CHECK_DEADLOCK FALSE
