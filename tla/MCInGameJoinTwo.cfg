CONSTANTS
    Slot = {1, 2}
    Veteran = {2}
    MaxIdle = 0
    MaxLists = 12
    MaxConnect = 3
    MaxHostOrder = 2
    MaxClientOrder = 0
    MaxToggle = 0
SPECIFICATION Spec
INVARIANTS WorldsAgree NothingLeftBehind
PROPERTIES StandsStillForNewcomer KeepsItsSlot
