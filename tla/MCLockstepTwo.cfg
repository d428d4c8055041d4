SPECIFICATION Spec
CONSTANTS
    NumClients = 2
    Period = 2
    MaxLoops = 2
    Admins <- ServerAdmin
    MaxFrame = 2
    MaxBroadcast = 2
    MaxRequest = 1
INVARIANTS
    Agreement
    Conservation
