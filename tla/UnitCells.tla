----------------------------- MODULE UnitCells -----------------------------
(***************************************************************************)
(* The cells of the map and the units that stand on them.  A cell has room *)
(* for one unit on land and one in the air; a unit takes the cells of its  *)
(* body, and a unit that morphs blocks the cells it will need as well.     *)
(* The cells only hold pointers: whoever moves, morphs, changes its mind   *)
(* or dies must clear what it has put, no more and no less.                *)
(*                                                                         *)
(* Abstractions.                                                           *)
(*   - A place is a position and the way the unit faces; the square of a   *)
(*     type at a place is size x size cells, its body those that its cell  *)
(*     map marks (all of them if it has none).  Cells beyond the edge of   *)
(*     the map belong to a square but not to Cell.                         *)
(*   - The field of a unit is that of its type: the constructor and morph  *)
(*     choose it as the type's loader does.                                *)
(*   - Of a unit's commands only a morph at the head of the queue is kept; *)
(*     a morph is always the last command, so it is then the only one.     *)
(*   - Objects and deep water do not change; a path is a step that canMove *)
(*     allows, of any length.  Cells that are kept empty inside a cell map *)
(*     are only used for drawing.                                          *)
(*   - A dead unit decays for ever: what a cell says of a deleted unit is  *)
(*     not modelled.                                                       *)
(***************************************************************************)
EXTENDS Naturals

CONSTANTS Unit,      \* the units there may ever be
          UnitType,  \* the types of units
          Cell,      \* the cells of the map
          Place,     \* where a unit may stand
          Field,     \* the field of a type
          Size,      \* the size of a type
          Square,    \* the cells of a type's square at a place
          Body,      \* those of them that its cell map marks
          Passable,  \* the cells a unit may enter, for each field
          Morphs,    \* the pairs of types of the morph commands
          Built,     \* the types that are built at their place
          Costly,    \* the skills that use energy
          None       \* no unit, type or place

Fields == {"land", "air"}

\* "none": the unit is not created yet; "rot": it is dead and its body decays.
Skill == {"none", "stop", "move", "morph", "beBuilt", "die", "rot"}

ASSUME TypesAssumption ==
    /\ Field \in [UnitType -> Fields]
    /\ Size \in [UnitType -> Nat]
    /\ \A t \in UnitType, p \in Place : Body[t][p] \subseteq Square[t][p]
    /\ \A f \in Fields : Passable[f] \subseteq Cell
    /\ Morphs \subseteq UnitType \X UnitType
    /\ Costly \subseteq Skill
ASSUME BuiltAssumption ==
    /\ Built \subseteq UnitType
    /\ \A t \in Built : Field[t] = "land"

ASSUME NoneAssumption == None \notin Unit /\ None \notin UnitType /\ None \notin Place

VARIABLES cells,   \* Cell::units, for each field and cell
          type,    \* of each unit
          place,   \* where it stands
          skill,   \* its current skill
          goal,    \* the type its current command morphs it into, or None
          blocked, \* morphFieldsBlocked
          alive,   \* hp > 0
          thrown   \* a unit was put into an occupied cell

vars == <<cells, type, place, skill, goal, blocked, alive, thrown>>

-----------------------------------------------------------------------------
(* Cells. *)

Seat == Fields \X Cell

BodySeats(t, p) == {Field[t]} \X Body[t][p]

\* The body of a dead unit is in nobody's way (Cell::isFree).
Putrefacting(u) == u # None /\ skill[u] = "rot"

IsFreeCell(cs, f, c) ==
    /\ c \in Passable[f]
    /\ cs[<<f, c>>] = None \/ Putrefacting(cs[<<f, c>>])

IsFreeCells(cs, t, p, f) == \A c \in Square[t][p] : IsFreeCell(cs, f, c)

IsFreeCellOrHasUnit(cs, f, c, u) ==
    c \in Cell /\ (cs[<<f, c>>] = u \/ IsFreeCell(cs, f, c))

\* Mutant of CanMorph: the field is the one the unit is in.
CanMorphOwnField(cs, u, t) ==
    /\ Square[t][place[u]] \subseteq Cell
    /\ \A c \in Body[t][place[u]] : IsFreeCellOrHasUnit(cs, Field[type[u]], c, u)

CanMorph(cs, u, t) ==
    /\ Square[t][place[u]] \subseteq Cell
    /\ \A c \in Body[t][place[u]] : IsFreeCellOrHasUnit(cs, Field[t], c, u)

CanMove(u, p) ==
    \A c \in Square[type[u]][p] : IsFreeCellOrHasUnit(cells, Field[type[u]], c, u)

\* putUnitCellsPrivate: cells where another unit stands are left to it.
Put(cs, u, S) == [s \in Seat |-> IF s \in S /\ cs[s] \in {u, None} THEN u ELSE cs[s]]

Collides(cs, u, S) == \E s \in S : cs[s] \notin {u, None}

\* Mutant of Clear: whoever stands there.
ClearAnyone(cs, u, S) == [s \in Seat |-> IF s \in S THEN None ELSE cs[s]]

Clear(cs, u, S) == [s \in Seat |-> IF s \in S /\ cs[s] = u THEN None ELSE cs[s]]

\* clearUnitCells goes by the type the unit is morphing into if that is not smaller.
ClearsGoal(u) == /\ skill[u] = "morph"
                 /\ blocked[u]
                 /\ Size[type[u]] <= Size[goal[u]]

Own(u) == BodySeats(type[u], place[u])

Target(u) == BodySeats(goal[u], place[u])

ClearUnitCells(u) == Clear(cells, u, IF ClearsGoal(u) THEN Target(u) ELSE Own(u))

\* undoCommand of the morph that is under way: clear the cells and put those of the
\* unit as it is.
Morphing(u) == skill[u] = "morph" /\ goal[u] # None

OnMap(u) == skill[u] \notin {"none", "die", "rot"}

\* Mutant of LoadGame: the space that a morph blocks is not blocked again.
LoadGameBodies ==
    [s \in Seat |->
        IF \E u \in Unit : OnMap(u) /\ alive[u] /\ s \in Own(u)
           THEN CHOOSE u \in Unit : OnMap(u) /\ alive[u] /\ s \in Own(u)
           ELSE None]

\* The map that Unit::loadGame makes of the units of a saved game: those alive are put
\* where they stand, and where they are morphing into something else.
LoadGame ==
    LET Puts(u, s) == /\ OnMap(u) /\ alive[u]
                      /\ s \in Own(u) \/ (Morphing(u) /\ s \in Target(u))
    IN  [s \in Seat |-> IF \E u \in Unit : Puts(u, s)
                           THEN CHOOSE u \in Unit : Puts(u, s) ELSE None]

\* Mutant of UndoCells: the unit's own cells are not put again.
UndoCellsClearsAll(u) == IF Morphing(u) THEN ClearUnitCells(u) ELSE cells

UndoCells(u) == IF Morphing(u) THEN Put(ClearUnitCells(u), u, Own(u)) ELSE cells

UndoBlocked(u) == blocked[u] /\ ~(Morphing(u) /\ ClearsGoal(u))

-----------------------------------------------------------------------------
Init ==
    /\ cells = [s \in Seat |-> None]
    /\ type = [u \in Unit |-> None]
    /\ place = [u \in Unit |-> None]
    /\ skill = [u \in Unit |-> "none"]
    /\ goal = [u \in Unit |-> None]
    /\ blocked = [u \in Unit |-> FALSE]
    /\ alive = [u \in Unit |-> TRUE]
    /\ thrown = FALSE

\* Unit::create, when a place has been found free on field f.
Create(u, t, p, f, s) ==
    /\ skill[u] = "none"
    /\ IsFreeCells(cells, t, p, f)
    /\ type' = [type EXCEPT ![u] = t]
    /\ place' = [place EXCEPT ![u] = p]
    /\ skill' = [skill EXCEPT ![u] = s]
    /\ cells' = Put(cells, u, BodySeats(t, p))
    /\ thrown' = (thrown \/ Collides(cells, u, BodySeats(t, p)))
    /\ UNCHANGED <<goal, blocked, alive>>

\* A unit of the start, of a production or of a spawn attack.
PlaceUnit(u, t, p) == Create(u, t, p, Field[t], "stop")

\* A builder has arrived: the place must be free on land.
Build(u, t, p) == t \in Built /\ Create(u, t, p, "land", "beBuilt")

\* The building is complete.
Born(u) ==
    /\ skill[u] = "beBuilt"
    /\ skill' = [skill EXCEPT ![u] = "stop"]
    /\ UNCHANGED <<cells, type, place, goal, blocked, alive, thrown>>

Active(u) == OnMap(u) /\ skill[u] # "beBuilt"

\* The path finder has found a step and the unit takes it.  Where another unit stands
\* it stops putting itself, with what it has put so far, and stays where it was.
Move(u, p) ==
    LET left == Clear(cells, u, Own(u))
        body == BodySeats(type[u], p)
    IN  /\ Active(u)
        /\ goal[u] = None
        /\ p # place[u]
        /\ CanMove(u, p)
        /\ skill' = [skill EXCEPT ![u] = "move"]
        /\ IF Collides(left, u, body)
              THEN /\ \E S \in SUBSET body : cells' = Put(left, u, S)
                   /\ place' = place
              ELSE /\ cells' = Put(left, u, body)
                   /\ place' = [place EXCEPT ![u] = p]
        /\ UNCHANGED <<type, goal, blocked, alive, thrown>>

\* It has arrived, is blocked, or has nothing to do any more.
Stop(u) ==
    /\ skill[u] \in {"move", "morph"}
    /\ goal[u] = None
    /\ skill' = [skill EXCEPT ![u] = "stop"]
    /\ UNCHANGED <<cells, type, place, goal, blocked, alive, thrown>>

\* The player orders a morph; a morph that is under way is undone, but the unit's
\* skill stays what it is.
GiveMorph(u, t) ==
    /\ Active(u)
    /\ alive[u]
    /\ <<type[u], t>> \in Morphs
    /\ cells' = UndoCells(u)
    /\ blocked' = [blocked EXCEPT ![u] = UndoBlocked(u)]
    /\ goal' = [goal EXCEPT ![u] = t]
    /\ UNCHANGED <<type, place, skill, alive, thrown>>

\* The player cancels the morph or orders something else.
CancelMorph(u) ==
    /\ goal[u] # None
    /\ Active(u)
    /\ cells' = UndoCells(u)
    /\ blocked' = [blocked EXCEPT ![u] = UndoBlocked(u)]
    /\ goal' = [goal EXCEPT ![u] = None]
    /\ UNCHANGED <<type, place, skill, alive, thrown>>

\* updateMorph, first call: the space is checked and blocked.
BeginMorph(u) ==
    /\ Active(u)
    /\ goal[u] # None
    /\ skill[u] # "morph"
    /\ CanMorph(cells, u, goal[u])
    /\ skill' = [skill EXCEPT ![u] = "morph"]
    /\ cells' = Put(Put(cells, u, Own(u)), u, Target(u))
    /\ blocked' = [blocked EXCEPT ![u] = TRUE]
    /\ thrown' = (thrown \/ Collides(cells, u, Own(u) \cup Target(u)))
    /\ UNCHANGED <<type, place, goal, alive>>

\* The same with no room: the command is cancelled.
NoRoomToMorph(u) ==
    /\ Active(u)
    /\ goal[u] # None
    /\ skill[u] # "morph"
    /\ ~CanMorph(cells, u, goal[u])
    /\ goal' = [goal EXCEPT ![u] = None]
    /\ UNCHANGED <<cells, type, place, skill, blocked, alive, thrown>>

\* Mutant of FinishMorph: the command is finished before its type is read.
FinishMorphLate(u) ==
    LET cleared == Clear(ClearUnitCells(u), u, Own(u))
    IN  /\ Morphing(u)
        /\ CanMorph(ClearUnitCells(u), u, goal[u])
        /\ goal' = [goal EXCEPT ![u] = None]
        /\ type' = [type EXCEPT ![u] = goal'[u]]
        /\ cells' = Put(cleared, u, Target(u))
        /\ blocked' = [blocked EXCEPT ![u] = TRUE]
        /\ skill' = [skill EXCEPT ![u] = "stop"]
        /\ UNCHANGED <<place, alive, thrown>>

\* Unit::morph: clear, look again, clear what the unit was, put what it has become.
\* Its skill is still the morph and so is its command: the flag is set once more.
FinishMorph(u) ==
    LET cleared == Clear(ClearUnitCells(u), u, Own(u))
    IN  /\ Morphing(u)
        /\ CanMorph(ClearUnitCells(u), u, goal[u])
        /\ type' = [type EXCEPT ![u] = goal[u]]
        /\ cells' = Put(cleared, u, Target(u))
        /\ thrown' = (thrown \/ Collides(cleared, u, Target(u)))
        /\ blocked' = [blocked EXCEPT ![u] = TRUE]
        /\ goal' = [goal EXCEPT ![u] = None]
        /\ skill' = [skill EXCEPT ![u] = "stop"]
        /\ UNCHANGED <<place, alive>>

\* There is no room any more: the command is cancelled and undone.
FailMorph(u) ==
    LET undone == Clear(ClearUnitCells(u), u, Own(u))
    IN  /\ Morphing(u)
        /\ ~CanMorph(ClearUnitCells(u), u, goal[u])
        /\ cells' = Put(undone, u, Own(u))
        /\ thrown' = (thrown \/ Collides(undone, u, Own(u)))
        /\ blocked' = [blocked EXCEPT ![u] = @ /\ ~ClearsGoal(u)]
        /\ goal' = [goal EXCEPT ![u] = None]
        /\ skill' = [skill EXCEPT ![u] = "stop"]
        /\ UNCHANGED <<type, place, alive>>

\* Its skill needs more energy than it has: it stops, and only then is its command
\* cancelled, so that a morph is undone as one that is not under way.
OutOfEnergy(u) ==
    /\ Active(u)
    /\ skill[u] \in Costly
    /\ skill' = [skill EXCEPT ![u] = "stop"]
    /\ goal' = [goal EXCEPT ![u] = None]
    /\ UNCHANGED <<cells, type, place, blocked, alive, thrown>>

DecHp(u) ==
    /\ OnMap(u)
    /\ alive[u]
    /\ alive' = [alive EXCEPT ![u] = FALSE]
    /\ UNCHANGED <<cells, type, place, skill, goal, blocked, thrown>>

\* Mutant of Kill: the commands are cleared after the cells.
KillCellsFirst(u) ==
    /\ OnMap(u)
    /\ ~alive[u]
    /\ cells' = Clear(cells, u, Own(u))
    /\ blocked' = [blocked EXCEPT ![u] = UndoBlocked(u)]
    /\ goal' = [goal EXCEPT ![u] = None]
    /\ skill' = [skill EXCEPT ![u] = "die"]
    /\ UNCHANGED <<type, place, alive, thrown>>

\* Its commands are undone first, with the cells they block; then its own are cleared.
Kill(u) ==
    /\ OnMap(u)
    /\ ~alive[u]
    /\ cells' = Clear(UndoCells(u), u, Own(u))
    /\ blocked' = [blocked EXCEPT ![u] = UndoBlocked(u)]
    /\ goal' = [goal EXCEPT ![u] = None]
    /\ skill' = [skill EXCEPT ![u] = "die"]
    /\ UNCHANGED <<type, place, alive, thrown>>

\* Its body begins to decay (deadCount).
Putrefy(u) ==
    /\ skill[u] = "die"
    /\ skill' = [skill EXCEPT ![u] = "rot"]
    /\ UNCHANGED <<cells, type, place, goal, blocked, alive, thrown>>

Step(u) ==
    \/ \E t \in UnitType, p \in Place : PlaceUnit(u, t, p) \/ Build(u, t, p)
    \/ \E p \in Place : Move(u, p)
    \/ \E t \in UnitType : GiveMorph(u, t)
    \/ Born(u)
    \/ Stop(u)
    \/ CancelMorph(u)
    \/ BeginMorph(u)
    \/ NoRoomToMorph(u)
    \/ FinishMorph(u)
    \/ FailMorph(u)
    \/ OutOfEnergy(u)
    \/ DecHp(u)
    \/ Kill(u)
    \/ Putrefy(u)

Next == \E u \in Unit : Step(u)

Spec == Init /\ [][Next]_vars

-----------------------------------------------------------------------------
(* Properties. *)

TypeOK ==
    /\ cells \in [Seat -> Unit \cup {None}]
    /\ type \in [Unit -> UnitType \cup {None}]
    /\ place \in [Unit -> Place \cup {None}]
    /\ skill \in [Unit -> Skill]
    /\ goal \in [Unit -> UnitType \cup {None}]
    /\ blocked \in [Unit -> BOOLEAN]
    /\ alive \in [Unit -> BOOLEAN]
    /\ thrown \in BOOLEAN
    /\ \A u \in Unit : OnMap(u) => type[u] \in UnitType /\ place[u] \in Place

\* What a type loses when it becomes smaller must be cells it has: undoing a morph into
\* a smaller type clears no others.  And a morph must not run out of energy.
Tidy ==
    /\ "morph" \notin Costly
    /\ \A m \in Morphs, p \in Place :
          Size[m[1]] > Size[m[2]] => BodySeats(m[2], p) \subseteq BodySeats(m[1], p)

\* A unit that is on the map holds every cell of its body, whatever it and the others
\* have begun, finished or given up: none of them is free for anybody else.
UnitsHoldTheirCells ==
    Tidy => \A u \in Unit : OnMap(u) =>
        \A s \in Own(u) : s \in Seat /\ cells[s] = u

\* No cell holds a unit that does not stand there or is about to: no dead unit, no place
\* it has left, no space blocked for a morph that has been given up.
NothingLeftBehind ==
    Tidy => \A s \in Seat, u \in Unit :
        cells[s] = u => /\ OnMap(u)
                        /\ s \in Own(u) \/ (Morphing(u) /\ s \in Target(u))

\* "Trying to move unit into occupied cell" is never thrown.
NeverThrown == Tidy => ~thrown

\* A step changes what one unit holds and takes nothing from the others.
Seats == INSTANCE Board WITH
            held <- [u \in Unit |-> {s \in Seat : cells[s] = u}]
ImplementsBoard == Seats!Spec

\* While a unit morphs it holds the space it will need.
SpaceIsBlocked(u) == \A s \in Target(u) : s \in Seat /\ cells[s] = u

\* A client that joins the game in progress puts the units of the save into an empty map
\* and has the map of the others, if no unit is about to be found dead and every unit
\* that morphs has its space blocked.
SavedMapAgrees ==
    Tidy /\ (\A u \in Unit : (OnMap(u) => alive[u]) /\ (Morphing(u) => SpaceIsBlocked(u)))
        => cells = LoadGame
=============================================================================
