CONSTANTS
    Slot = {1}
    Veteran = {}
    MaxIdle = 2
    MaxLists = 10
    MaxConnect = 2
    MaxHostOrder = 0
    MaxClientOrder = 1
    MaxToggle = 1
SPECIFICATION FairSpec
INVARIANTS TypeOK PauseAgrees
PROPERTIES JoinCompletes
