CONSTANTS
    Slot = {s1}
    MaxKnocks = 2
    MaxTexts = 0
    MaxCommands = 2
    MaxEvents = 2
    None = None
SPECIFICATION FairSpec
INVARIANTS
    TypeOK
    CommandsAreGivenInOrder
    EventsAreSignalled
PROPERTIES
    KnockIsAnswered
    GameIsRead
CHECK_DEADLOCK FALSE
