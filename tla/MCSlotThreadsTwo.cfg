CONSTANTS
    Slot = {s1, s2}
    MaxKnocks = 1
    MaxTexts = 2
    MaxCommands = 0
    MaxEvents = 1
    None = None
SPECIFICATION Spec
SYMMETRY Slots
INVARIANTS
    TextsAreRelayed
CHECK_DEADLOCK FALSE
