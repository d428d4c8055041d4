SPECIFICATION FairSpec
CONSTANTS
    NumClients = 1
    Period = 2
    MaxLoops = 1
    Admins <- TwoAdmins
    MaxFrame = 4
    MaxBroadcast = 4
    MaxRequest = 1
INVARIANTS
    TypeOK
    NothingLeftBehind
    NoDesync
PROPERTIES
    ImplementsLog
    BroadcastsAreGiven
