CONSTANTS
    Unit = {u1, u2}
    Length = 4
    None = None
    UnitType <- Types
    Cell <- Row
    Place <- Row
    Field <- FieldOf
    Size <- SizeOf
    Square <- SquareOf
    Body <- BodyOf
    Passable <- PassableOf
    Morphs <- MorphsTidy
    Built <- Gates
    Costly = {"move"}
SPECIFICATION Spec
INVARIANTS TypeOK UnitsHoldTheirCells NothingLeftBehind NeverThrown SavedMapAgrees
PROPERTY ImplementsBoard
CHECK_DEADLOCK FALSE
