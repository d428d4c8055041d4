--------------------------- MODULE UnitCellsProofs ---------------------------
(***************************************************************************)
(* Proofs about UnitCells, for any number of units, any types and any map. *)
(*                                                                         *)
(* All writing to the cells goes through Put and Clear, and both leave     *)
(* alone what is another unit's.  So a step of one unit changes the seats  *)
(* of that unit only, and what is left to prove of each action concerns    *)
(* the unit itself: that it ends up holding all of its own seats and no    *)
(* others.  The two need each other: what a unit takes as free because a   *)
(* dead one's body decays there is free, since no dead unit holds a cell.  *)
(***************************************************************************)
EXTENDS UnitCells, TLAPS

Map == [Seat -> Unit \cup {None}]

USE TypesAssumption, BuiltAssumption, NoneAssumption

-----------------------------------------------------------------------------
(* Put and Clear. *)

LEMMA PutIs ==
    ASSUME NEW cs \in Map, NEW u \in Unit, NEW S
    PROVE  /\ Put(cs, u, S) \in Map
           /\ \A s \in Seat : Put(cs, u, S)[s] =
                 IF s \in S /\ cs[s] \in {u, None} THEN u ELSE cs[s]
  BY DEF Put, Map

LEMMA ClearIs ==
    ASSUME NEW cs \in Map, NEW u \in Unit, NEW S
    PROVE  /\ Clear(cs, u, S) \in Map
           /\ \A s \in Seat : Clear(cs, u, S)[s] =
                 IF s \in S /\ cs[s] = u THEN None ELSE cs[s]
  BY DEF Clear, Map

\* What others hold, nobody gives to them and nobody takes from them.
Untouched(cs, ds, u) ==
    \A s \in Seat, v \in Unit : v # u => (cs[s] = v <=> ds[s] = v)

LEMMA PutUntouched ==
    ASSUME NEW cs \in Map, NEW u \in Unit, NEW S
    PROVE  Untouched(cs, Put(cs, u, S), u)
  BY PutIs DEF Untouched

LEMMA ClearUntouched ==
    ASSUME NEW cs \in Map, NEW u \in Unit, NEW S
    PROVE  Untouched(cs, Clear(cs, u, S), u)
  BY ClearIs DEF Untouched

LEMMA UntouchedTransitive ==
    ASSUME NEW cs, NEW ds, NEW es, NEW u,
           Untouched(cs, ds, u), Untouched(ds, es, u)
    PROVE  Untouched(cs, es, u)
  BY DEF Untouched

LEMMA ClearUnitCellsUntouched ==
    ASSUME cells \in Map, NEW u \in Unit
    PROVE  /\ ClearUnitCells(u) \in Map
           /\ Untouched(cells, ClearUnitCells(u), u)
  BY ClearIs, ClearUntouched DEF ClearUnitCells

LEMMA UndoCellsUntouched ==
    ASSUME cells \in Map, NEW u \in Unit
    PROVE  /\ UndoCells(u) \in Map
           /\ Untouched(cells, UndoCells(u), u)
<1>1. CASE Morphing(u)
  <2>1. /\ ClearUnitCells(u) \in Map
        /\ Untouched(cells, ClearUnitCells(u), u)
    BY ClearUnitCellsUntouched
  <2>2. /\ Put(ClearUnitCells(u), u, Own(u)) \in Map
        /\ Untouched(ClearUnitCells(u), Put(ClearUnitCells(u), u, Own(u)), u)
    BY <2>1, PutIs, PutUntouched
  <2> QED
    BY <1>1, <2>1, <2>2, UntouchedTransitive DEF UndoCells
<1>2. CASE ~Morphing(u)
  BY <1>2 DEF UndoCells, Untouched
<1> QED
  BY <1>1, <1>2

\* A unit that holds its own cells holds them after a morph has been undone.
LEMMA UndoKeepsOwn ==
    ASSUME cells \in Map, NEW u \in Unit, NEW s \in Seat, s \in Own(u), cells[s] = u
    PROVE  UndoCells(u)[s] = u
<1>1. CASE Morphing(u)
  <2>1. ClearUnitCells(u) \in Map /\ ClearUnitCells(u)[s] \in {u, None}
    BY ClearIs DEF ClearUnitCells
  <2> QED
    BY <1>1, <2>1, PutIs DEF UndoCells
<1>2. CASE ~Morphing(u)
  BY <1>2 DEF UndoCells
<1> QED
  BY <1>1, <1>2

-----------------------------------------------------------------------------
(* Types. *)

\* What a step of u leaves as it is for every other unit.
OthersUnchanged(u) ==
    \A v \in Unit : v # u =>
        /\ type'[v] = type[v]
        /\ place'[v] = place[v]
        /\ skill'[v] = skill[v]
        /\ goal'[v] = goal[v]
        /\ blocked'[v] = blocked[v]

LEMMA StepUntouched ==
    ASSUME TypeOK, NEW u \in Unit, Step(u)
    PROVE  cells' \in Map /\ Untouched(cells, cells', u) /\ OthersUnchanged(u)
<1> USE DEF TypeOK
<1>0. cells \in Map
  BY DEF Map
<1>1. ASSUME NEW t \in UnitType, NEW p \in Place, PlaceUnit(u, t, p) \/ Build(u, t, p)
      PROVE  cells' \in Map /\ Untouched(cells, cells', u) /\ OthersUnchanged(u)
  BY <1>0, <1>1, PutIs, PutUntouched DEF PlaceUnit, Build, Create, OthersUnchanged
<1>2. ASSUME NEW p \in Place, Move(u, p)
      PROVE  cells' \in Map /\ Untouched(cells, cells', u) /\ OthersUnchanged(u)
  <2>1. /\ Clear(cells, u, Own(u)) \in Map
        /\ Untouched(cells, Clear(cells, u, Own(u)), u)
    BY <1>0, ClearIs, ClearUntouched
  <2>2. \E S : cells' = Put(Clear(cells, u, Own(u)), u, S)
    BY <1>2 DEF Move
  <2>3. cells' \in Map /\ Untouched(Clear(cells, u, Own(u)), cells', u)
    BY <2>1, <2>2, PutIs, PutUntouched
  <2> QED
    BY <1>2, <2>1, <2>3, UntouchedTransitive DEF Move, OthersUnchanged
<1>3. ASSUME NEW t \in UnitType, GiveMorph(u, t)
      PROVE  cells' \in Map /\ Untouched(cells, cells', u) /\ OthersUnchanged(u)
  BY <1>0, <1>3, UndoCellsUntouched DEF GiveMorph, OthersUnchanged
<1>4. CASE Born(u) \/ Stop(u) \/ NoRoomToMorph(u) \/ OutOfEnergy(u) \/ DecHp(u)
  BY <1>0, <1>4
     DEF Born, Stop, NoRoomToMorph, OutOfEnergy, DecHp, Untouched, OthersUnchanged
<1>10. CASE Putrefy(u)
  BY <1>0, <1>10 DEF Putrefy, Untouched, OthersUnchanged
<1>5. CASE CancelMorph(u)
  BY <1>0, <1>5, UndoCellsUntouched DEF CancelMorph, OthersUnchanged
<1>6. CASE BeginMorph(u)
  <2>1. /\ Put(cells, u, Own(u)) \in Map
        /\ Untouched(cells, Put(cells, u, Own(u)), u)
    BY <1>0, PutIs, PutUntouched
  <2>2. cells' \in Map /\ Untouched(Put(cells, u, Own(u)), cells', u)
    BY <1>6, <2>1, PutIs, PutUntouched DEF BeginMorph
  <2> QED
    BY <1>6, <2>1, <2>2, UntouchedTransitive DEF BeginMorph, OthersUnchanged
<1>7. CASE FinishMorph(u)
  <2> DEFINE cleared == Clear(ClearUnitCells(u), u, Own(u))
  <2>1. ClearUnitCells(u) \in Map /\ Untouched(cells, ClearUnitCells(u), u)
    BY <1>0, ClearUnitCellsUntouched
  <2>2. cleared \in Map /\ Untouched(ClearUnitCells(u), cleared, u)
    BY <2>1, ClearIs, ClearUntouched
  <2>3. cells' \in Map /\ Untouched(cleared, cells', u)
    BY <1>7, <2>2, PutIs, PutUntouched DEF FinishMorph
  <2>4. Untouched(cells, cells', u)
    BY <2>1, <2>2, <2>3, UntouchedTransitive
  <2> QED
    BY <1>7, <2>3, <2>4 DEF FinishMorph, OthersUnchanged
<1>8. CASE FailMorph(u)
  <2> DEFINE cleared == Clear(ClearUnitCells(u), u, Own(u))
  <2>1. ClearUnitCells(u) \in Map /\ Untouched(cells, ClearUnitCells(u), u)
    BY <1>0, ClearUnitCellsUntouched
  <2>2. cleared \in Map /\ Untouched(ClearUnitCells(u), cleared, u)
    BY <2>1, ClearIs, ClearUntouched
  <2>3. cells' \in Map /\ Untouched(cleared, cells', u)
    BY <1>8, <2>2, PutIs, PutUntouched DEF FailMorph
  <2>4. Untouched(cells, cells', u)
    BY <2>1, <2>2, <2>3, UntouchedTransitive
  <2> QED
    BY <1>8, <2>3, <2>4 DEF FailMorph, OthersUnchanged
<1>9. CASE Kill(u)
  <2>1. UndoCells(u) \in Map /\ Untouched(cells, UndoCells(u), u)
    BY <1>0, UndoCellsUntouched
  <2>2. cells' \in Map /\ Untouched(UndoCells(u), cells', u)
    BY <1>9, <2>1, ClearIs, ClearUntouched DEF Kill
  <2> QED
    BY <1>9, <2>1, <2>2, UntouchedTransitive DEF Kill, OthersUnchanged
<1> QED
  BY <1>1, <1>2, <1>3, <1>4, <1>5, <1>6, <1>7, <1>8, <1>9, <1>10 DEF Step

LEMMA InitTypes ==
    ASSUME Init
    PROVE  TypeOK
  BY DEF Init, TypeOK, OnMap, Skill

LEMMA StepTypes ==
    ASSUME TypeOK, NEW u \in Unit, Step(u)
    PROVE  TypeOK'
<1>0. cells' \in [Seat -> Unit \cup {None}]
  BY StepUntouched DEF Map
<1> USE DEF TypeOK, Skill, OnMap
<1>1. ASSUME NEW t \in UnitType, NEW p \in Place, PlaceUnit(u, t, p) \/ Build(u, t, p)
      PROVE  TypeOK'
  <2>1. \E s \in {"stop", "beBuilt"} : Create(u, t, p, IF s = "stop" THEN Field[t] ELSE "land", s)
    BY <1>1 DEF PlaceUnit, Build
  <2>2. \E s \in Skill :
           /\ type' = [type EXCEPT ![u] = t]
           /\ place' = [place EXCEPT ![u] = p]
           /\ skill' = [skill EXCEPT ![u] = s]
           /\ thrown' \in BOOLEAN
           /\ UNCHANGED <<goal, blocked, alive>>
    BY <2>1 DEF Create
  <2> QED
    BY <1>0, <2>2
<1>2. ASSUME NEW p \in Place, Move(u, p)
      PROVE  TypeOK'
  BY <1>0, <1>2 DEF Move, Active
<1>3. ASSUME NEW t \in UnitType, GiveMorph(u, t)
      PROVE  TypeOK'
  BY <1>0, <1>3 DEF GiveMorph, UndoBlocked
<1>4. CASE Born(u) \/ Stop(u) \/ Putrefy(u)
  BY <1>0, <1>4 DEF Born, Stop, Putrefy
<1>5. CASE NoRoomToMorph(u) \/ DecHp(u)
  BY <1>0, <1>5 DEF NoRoomToMorph, DecHp
<1>6. CASE OutOfEnergy(u)
  BY <1>0, <1>6 DEF OutOfEnergy, Active
<1>7. CASE CancelMorph(u)
  BY <1>0, <1>7 DEF CancelMorph, UndoBlocked
<1>8. CASE BeginMorph(u)
  BY <1>0, <1>8 DEF BeginMorph, Active
<1>9. CASE FinishMorph(u)
  BY <1>0, <1>9 DEF FinishMorph, Morphing
<1>10. CASE FailMorph(u)
  BY <1>0, <1>10 DEF FailMorph, Morphing
<1>11. CASE Kill(u)
  BY <1>0, <1>11 DEF Kill, UndoBlocked
<1> QED
  BY <1>1, <1>2, <1>3, <1>4, <1>5, <1>6, <1>7, <1>8, <1>9, <1>10, <1>11 DEF Step

LEMMA StutterTypes ==
    ASSUME TypeOK, UNCHANGED vars
    PROVE  TypeOK'
  BY DEF TypeOK, vars, OnMap

\* Every variable keeps its type, and a unit on the map has a type and a place.
THEOREM TypeCorrect == Spec => []TypeOK
<1>1. TypeOK /\ [Next]_vars => TypeOK'
  BY StepTypes, StutterTypes DEF Next
<1> QED
  BY InitTypes, <1>1, PTL DEF Spec

-----------------------------------------------------------------------------
(* The invariant. *)

Held == /\ TypeOK
        /\ \A u \in Unit : OnMap(u) => \A s \in Own(u) : s \in Seat /\ cells[s] = u
        /\ ~thrown

\* What a unit holds: its own seats, and those of its goal once they are blocked.
MayHold(u, s) == /\ OnMap(u)
                 /\ s \in Own(u) \/ (Morphing(u) /\ blocked[u] /\ s \in Target(u))

Clean == \A s \in Seat, u \in Unit : cells[s] = u => MayHold(u, s)

\* A goal is one of the morphs of the unit's type, and only units on the map have one.
GoalsAreMorphs ==
    \A u \in Unit : goal[u] # None => OnMap(u) /\ <<type[u], goal[u]>> \in Morphs

CleanInv == Held /\ GoalsAreMorphs /\ Clean

-----------------------------------------------------------------------------
(* Units hold their cells, and no exception is thrown. *)

LEMMA OthersHold ==
    ASSUME Held, NEW u \in Unit, Step(u),
           NEW v \in Unit, v # u, OnMap(v)'
    PROVE  \A s \in Own(v)' : s \in Seat /\ cells'[s] = v
<1>1. /\ Untouched(cells, cells', u)
      /\ OthersUnchanged(u)
  BY StepUntouched DEF Held
<1>2. OnMap(v) /\ Own(v)' = Own(v)
  BY <1>1 DEF OthersUnchanged, OnMap, Own
<1>3. \A s \in Own(v) : s \in Seat /\ cells[s] = v
  BY <1>2 DEF Held
<1> QED
  BY <1>1, <1>2, <1>3 DEF Untouched

\* No cell of cs is a decaying body's: a free cell is empty.
NoBodies(cs) == \A s \in Seat : ~Putrefacting(cs[s])

LEMMA CellsHoldNoBodies ==
    ASSUME CleanInv, NEW u \in Unit
    PROVE  /\ NoBodies(cells)
           /\ NoBodies(ClearUnitCells(u))
<1>1. cells \in Map
  BY DEF CleanInv, Held, TypeOK, Map
<1>2. NoBodies(cells)
  BY <1>1 DEF NoBodies, Putrefacting, CleanInv, Clean, MayHold, OnMap, Map
<1>3. \A s \in Seat : ClearUnitCells(u)[s] \in {cells[s], None}
  BY <1>1, ClearIs DEF ClearUnitCells
<1> QED
  BY <1>2, <1>3 DEF NoBodies, Putrefacting

\* The seats of a body on free cells, and on cells that are free or the unit's own.
LEMMA FreeSeats ==
    ASSUME NoBodies(cells),
           NEW t \in UnitType, NEW p \in Place, IsFreeCells(cells, t, p, Field[t])
    PROVE  \A s \in BodySeats(t, p) : s \in Seat /\ cells[s] = None
  BY DEF IsFreeCells, IsFreeCell, BodySeats, Seat, Fields, NoBodies

LEMMA MoveSeats ==
    ASSUME NoBodies(cells),
           NEW u \in Unit, type[u] \in UnitType, NEW p \in Place, CanMove(u, p)
    PROVE  \A s \in BodySeats(type[u], p) : s \in Seat /\ cells[s] \in {u, None}
  BY DEF CanMove, IsFreeCellOrHasUnit, IsFreeCell, BodySeats, Seat, Fields, NoBodies

LEMMA MorphSeats ==
    ASSUME NEW cs, NoBodies(cs),
           NEW u \in Unit, goal[u] \in UnitType, CanMorph(cs, u, goal[u])
    PROVE  \A s \in Target(u) : s \in Seat /\ cs[s] \in {u, None}
  BY DEF CanMorph, IsFreeCellOrHasUnit, IsFreeCell, Target, BodySeats, Seat, Fields,
         NoBodies

\* What a step leaves to the unit that takes it.
LEMMA StepHolds ==
    ASSUME CleanInv, NEW u \in Unit, Step(u)
    PROVE  /\ OnMap(u)' => \A s \in Own(u)' : s \in Seat /\ cells'[s] = u
           /\ ~thrown'
<1> DEFINE Holds == OnMap(u)' => \A s \in Own(u)' : s \in Seat /\ cells'[s] = u
<1>0. /\ cells \in Map
      /\ OnMap(u) => type[u] \in UnitType /\ place[u] \in Place
      /\ OnMap(u) => \A s \in Own(u) : s \in Seat /\ cells[s] = u
      /\ type \in [Unit -> UnitType \cup {None}]
      /\ place \in [Unit -> Place \cup {None}]
      /\ skill \in [Unit -> Skill]
      /\ goal \in [Unit -> UnitType \cup {None}]
      /\ ~thrown
  BY DEF CleanInv, Held, TypeOK, Map
<1>10. NoBodies(cells) /\ NoBodies(ClearUnitCells(u))
  BY CellsHoldNoBodies
<1>1. ASSUME NEW t \in UnitType, NEW p \in Place, PlaceUnit(u, t, p) \/ Build(u, t, p)
      PROVE  Holds /\ ~thrown'
  <2>1. IsFreeCells(cells, t, p, Field[t])
    BY <1>1 DEF PlaceUnit, Build, Create
  <2>2. \A s \in BodySeats(t, p) : s \in Seat /\ cells[s] = None
    BY <1>10, <2>1, FreeSeats
  <2>3. /\ cells' = Put(cells, u, BodySeats(t, p))
        /\ thrown' = (thrown \/ Collides(cells, u, BodySeats(t, p)))
        /\ Own(u)' = BodySeats(t, p)
    BY <1>0, <1>1 DEF PlaceUnit, Build, Create, Own
  <2>4. ~Collides(cells, u, BodySeats(t, p))
    BY <2>2 DEF Collides
  <2> QED
    <3>1. ~thrown'
      BY <2>3, <2>4, <1>0, Zenon
    <3>2. Holds
      BY <1>0, <2>2, <2>3, PutIs
    <3> QED
      BY <3>1, <3>2
<1>2. ASSUME NEW p \in Place, Move(u, p)
      PROVE  Holds /\ ~thrown'
  <2>1. OnMap(u)
    BY <1>2 DEF Move, Active, OnMap
  <2>2. \A s \in BodySeats(type[u], p) : s \in Seat /\ cells[s] \in {u, None}
    BY <1>0, <1>10, <1>2, <2>1, MoveSeats DEF Move
  <2>3. /\ Clear(cells, u, Own(u)) \in Map
        /\ \A s \in BodySeats(type[u], p) : Clear(cells, u, Own(u))[s] \in {u, None}
    BY <1>0, <2>2, ClearIs
  <2>4. ~Collides(Clear(cells, u, Own(u)), u, BodySeats(type[u], p))
    BY <2>3 DEF Collides
  <2>5. /\ cells' = Put(Clear(cells, u, Own(u)), u, BodySeats(type[u], p))
        /\ thrown' = thrown
        /\ Own(u)' = BodySeats(type[u], p)
    BY <1>0, <1>2, <2>4 DEF Move, Own
  <2>6. Holds
    BY <2>2, <2>3, <2>5, PutIs
  <2> QED
    BY <1>0, <2>5, <2>6
<1>3. ASSUME NEW t \in UnitType, GiveMorph(u, t)
      PROVE  Holds /\ ~thrown'
  <2>1. /\ OnMap(u) /\ cells' = UndoCells(u)
        /\ Own(u)' = Own(u) /\ thrown' = thrown
    BY <1>3 DEF GiveMorph, Active, OnMap, Own
  <2> QED
    BY <1>0, <2>1, UndoKeepsOwn
<1>4. CASE Born(u) \/ Stop(u) \/ NoRoomToMorph(u) \/ OutOfEnergy(u) \/ DecHp(u)
  <2>1. /\ OnMap(u) /\ cells' = cells
        /\ Own(u)' = Own(u) /\ thrown' = thrown
    BY <1>4 DEF Born, Stop, NoRoomToMorph, OutOfEnergy, DecHp, Active, OnMap, Own
  <2> QED
    BY <1>0, <2>1
<1>5. CASE CancelMorph(u)
  <2>1. /\ OnMap(u) /\ cells' = UndoCells(u)
        /\ Own(u)' = Own(u) /\ thrown' = thrown
    BY <1>5 DEF CancelMorph, Active, OnMap, Own
  <2> QED
    BY <1>0, <2>1, UndoKeepsOwn
<1>6. CASE BeginMorph(u)
  <2>1. /\ OnMap(u)
        /\ goal[u] \in UnitType
        /\ CanMorph(cells, u, goal[u])
        /\ cells' = Put(Put(cells, u, Own(u)), u, Target(u))
        /\ thrown' = (thrown \/ Collides(cells, u, Own(u) \cup Target(u)))
        /\ Own(u)' = Own(u)
    BY <1>0, <1>6 DEF BeginMorph, Active, OnMap, Own
  <2>2. \A s \in Target(u) : s \in Seat /\ cells[s] \in {u, None}
    BY <1>10, <2>1, MorphSeats
  <2>3. /\ Put(cells, u, Own(u)) \in Map
        /\ \A s \in Own(u) : s \in Seat /\ Put(cells, u, Own(u))[s] = u
    BY <1>0, <2>1, PutIs
  <2>4. ~Collides(cells, u, Own(u) \cup Target(u))
    BY <1>0, <2>1, <2>2 DEF Collides
  <2> QED
    <3>1. ~thrown'
      BY <2>1, <2>4, <1>0, Zenon
    <3>2. Holds
      BY <1>0, <2>1, <2>2, <2>3, PutIs
    <3> QED
      BY <3>1, <3>2
<1>7. CASE FinishMorph(u)
  <2> DEFINE first == ClearUnitCells(u)
             cleared == Clear(first, u, Own(u))
  <2>1. /\ goal[u] \in UnitType
        /\ CanMorph(first, u, goal[u])
        /\ cells' = Put(cleared, u, Target(u))
        /\ thrown' = (thrown \/ Collides(cleared, u, Target(u)))
        /\ Own(u)' = Target(u)
    BY <1>0, <1>7 DEF FinishMorph, Morphing, Own, Target
  <2>2. \A s \in Target(u) : s \in Seat /\ first[s] \in {u, None}
    BY <1>10, <2>1, MorphSeats
  <2>3. first \in Map
    BY <1>0, ClearUnitCellsUntouched
  <2>4. /\ cleared \in Map
        /\ \A s \in Target(u) : cleared[s] \in {u, None}
    BY <2>2, <2>3, ClearIs
  <2>5. ~Collides(cleared, u, Target(u))
    BY <2>4 DEF Collides
  <2> QED
    <3>1. ~thrown'
      BY <2>1, <2>5, <1>0, Zenon
    <3>2. Holds
      BY <2>1, <2>2, <2>4, PutIs
    <3> QED
      BY <3>1, <3>2
<1>8. CASE FailMorph(u)
  <2> DEFINE first == ClearUnitCells(u)
             cleared == Clear(first, u, Own(u))
  <2>1. /\ cells' = Put(cleared, u, Own(u))
        /\ thrown' = (thrown \/ Collides(cleared, u, Own(u)))
    BY <1>8, Zenon DEF FailMorph
  <2>6. OnMap(u)
    BY <1>8 DEF FailMorph, Morphing, OnMap
  <2>5. Own(u)' = Own(u)
    BY <1>8 DEF FailMorph, Own
  <2>2. /\ first \in Map
        /\ \A s \in Own(u) : first[s] \in {u, None}
    BY <1>0, <2>6, ClearIs DEF ClearUnitCells
  <2>3. /\ cleared \in Map
        /\ \A s \in Own(u) : cleared[s] \in {u, None}
    BY <1>0, <2>2, <2>6, ClearIs
  <2>4. ~Collides(cleared, u, Own(u))
    BY <2>3 DEF Collides
  <2> QED
    <3>1. ~thrown'
      BY <2>1, <2>4, <1>0, Zenon
    <3>2. Holds
      BY <1>0, <2>1, <2>3, <2>5, <2>6, PutIs
    <3> QED
      BY <3>1, <3>2
<1>11. CASE Putrefy(u)
  <2>1. ~OnMap(u)' /\ thrown' = thrown
    BY <1>0, <1>11 DEF Putrefy, OnMap
  <2> QED
    BY <1>0, <2>1
<1>9. CASE Kill(u)
  <2>1. ~OnMap(u)' /\ thrown' = thrown
    BY <1>0, <1>9 DEF Kill, OnMap
  <2> QED
    BY <1>0, <2>1
<1> QED
  BY <1>1, <1>2, <1>3, <1>4, <1>5, <1>6, <1>7, <1>8, <1>9, <1>11 DEF Step

-----------------------------------------------------------------------------
(* Nothing is left behind. *)

LEMMA StepGoals ==
    ASSUME TypeOK, GoalsAreMorphs, NEW u \in Unit, Step(u)
    PROVE  GoalsAreMorphs'
<1> USE DEF GoalsAreMorphs, TypeOK, OnMap
<1>0. OthersUnchanged(u)
  BY StepUntouched
<1> SUFFICES goal'[u] # None => OnMap(u)' /\ <<type'[u], goal'[u]>> \in Morphs
  BY <1>0 DEF OthersUnchanged
<1>1. ASSUME NEW t \in UnitType, NEW p \in Place, PlaceUnit(u, t, p) \/ Build(u, t, p)
      PROVE  goal'[u] = None
  BY <1>1 DEF PlaceUnit, Build, Create
<1>2. ASSUME NEW p \in Place, Move(u, p)
      PROVE  goal'[u] = None
  BY <1>2 DEF Move
<1>3. ASSUME NEW t \in UnitType, GiveMorph(u, t)
      PROVE  OnMap(u)' /\ <<type'[u], goal'[u]>> \in Morphs
  BY <1>3 DEF GiveMorph, Active
<1>4. CASE Born(u) \/ Stop(u) \/ DecHp(u) \/ BeginMorph(u) \/ Putrefy(u)
  BY <1>4 DEF Born, Stop, DecHp, BeginMorph, Putrefy, Active
<1>5. CASE NoRoomToMorph(u) \/ OutOfEnergy(u) \/ CancelMorph(u)
  BY <1>5 DEF NoRoomToMorph, OutOfEnergy, CancelMorph
<1>6. CASE FinishMorph(u) \/ FailMorph(u) \/ Kill(u)
  BY <1>6 DEF FinishMorph, FailMorph, Kill
<1> QED
  BY <1>1, <1>2, <1>3, <1>4, <1>5, <1>6 DEF Step

\* Tidy types: a seat of a smaller goal is one of the unit's own.
LEMMA TidyTarget ==
    ASSUME Tidy, Held, GoalsAreMorphs, NEW u \in Unit, Morphing(u), blocked[u],
           ~ClearsGoal(u)
    PROVE  Target(u) \subseteq Own(u)
<1>1. OnMap(u) /\ <<type[u], goal[u]>> \in Morphs
  BY DEF GoalsAreMorphs, Morphing
<1>2. /\ type[u] \in UnitType /\ goal[u] \in UnitType /\ place[u] \in Place
  BY <1>1 DEF Held, TypeOK, Morphing
<1>3. Size[type[u]] > Size[goal[u]]
  BY <1>2 DEF ClearsGoal, Morphing
<1> QED
  BY <1>1, <1>2, <1>3 DEF Tidy, Own, Target

\* After the goal's seats have been cleared, or the unit's own, it holds its own at most.
LEMMA ClearedHoldsOwn ==
    ASSUME Tidy, CleanInv, NEW u \in Unit, Morphing(u), NEW s \in Seat,
           ClearUnitCells(u)[s] = u
    PROVE  s \in Own(u)
<1>1. cells \in Map /\ (cells[s] = u => MayHold(u, s))
  BY DEF CleanInv, Held, TypeOK, Map, Clean
<1>2. /\ cells[s] = u
      /\ ClearsGoal(u) => s \notin Target(u)
      /\ ~ClearsGoal(u) => s \notin Own(u)
  BY <1>1, ClearIs DEF ClearUnitCells
<1> QED
  BY <1>1, <1>2, TidyTarget DEF MayHold, CleanInv

LEMMA UndoneHoldsOwn ==
    ASSUME Tidy, CleanInv, NEW u \in Unit, NEW s \in Seat, UndoCells(u)[s] = u
    PROVE  OnMap(u) /\ s \in Own(u)
<1>1. cells \in Map /\ (cells[s] = u => MayHold(u, s))
  BY DEF CleanInv, Held, TypeOK, Map, Clean
<1>2. CASE Morphing(u)
  <2>1. ClearUnitCells(u) \in Map
    BY <1>1, ClearUnitCellsUntouched
  <2>2. OnMap(u)
    BY <1>2 DEF Morphing, OnMap
  <2> QED
    BY <1>2, <2>1, <2>2, PutIs, ClearedHoldsOwn DEF UndoCells
<1>3. CASE ~Morphing(u)
  BY <1>1, <1>3 DEF UndoCells, MayHold
<1> QED
  BY <1>2, <1>3

LEMMA StepClean ==
    ASSUME Tidy, CleanInv, NEW u \in Unit, Step(u), NEW s \in Seat, cells'[s] = u
    PROVE  MayHold(u, s)'
<1>0. /\ cells \in Map
      /\ cells[s] = u => MayHold(u, s)
      /\ type \in [Unit -> UnitType \cup {None}]
      /\ place \in [Unit -> Place \cup {None}]
      /\ skill \in [Unit -> Skill]
      /\ goal \in [Unit -> UnitType \cup {None}]
      /\ blocked \in [Unit -> BOOLEAN]
  BY DEF CleanInv, Clean, Held, TypeOK, Map
<1> USE DEF MayHold
<1>1. ASSUME NEW t \in UnitType, NEW p \in Place, PlaceUnit(u, t, p) \/ Build(u, t, p)
      PROVE  MayHold(u, s)'
  <2>1. cells[s] # u
    BY <1>0, <1>1 DEF PlaceUnit, Build, Create, OnMap
  <2>2. s \in BodySeats(t, p)
    BY <1>0, <1>1, <2>1, PutIs DEF PlaceUnit, Build, Create
  <2>3. Own(u)' = BodySeats(t, p) /\ OnMap(u)'
    BY <1>0, <1>1 DEF PlaceUnit, Build, Create, Own, OnMap
  <2> QED
    BY <2>2, <2>3
<1>2. ASSUME NEW p \in Place, Move(u, p)
      PROVE  MayHold(u, s)'
  <2>1. Clear(cells, u, Own(u)) \in Map
    BY <1>0, ClearIs
  <2>2. \A S : s \in S \/ Clear(cells, u, Own(u))[s] = u
              \/ Put(Clear(cells, u, Own(u)), u, S)[s] # u
    BY <2>1, PutIs
  <2>3. Clear(cells, u, Own(u))[s] # u
    BY <1>0, <1>2, ClearIs DEF Move, Morphing
  <2>4. NoBodies(cells)
    BY CellsHoldNoBodies
  <2>5. type[u] \in UnitType
    BY <1>2 DEF CleanInv, Held, TypeOK, Move, Active
  <2>6. \A r \in BodySeats(type[u], p) : r \in Seat /\ cells[r] \in {u, None}
    BY <1>2, <2>4, <2>5, MoveSeats DEF Move
  <2>7. ~Collides(Clear(cells, u, Own(u)), u, BodySeats(type[u], p))
    BY <1>0, <2>6, ClearIs DEF Collides
  <2>8. s \in BodySeats(type[u], p)
    BY <1>2, <2>2, <2>3, <2>7 DEF Move
  <2>9. Own(u)' = BodySeats(type[u], p) /\ OnMap(u)'
    BY <1>0, <1>2, <2>7 DEF Move, Own, OnMap
  <2> QED
    BY <2>8, <2>9
<1>3. ASSUME NEW t \in UnitType, GiveMorph(u, t)
      PROVE  MayHold(u, s)'
  BY <1>0, <1>3, UndoneHoldsOwn DEF GiveMorph, Own, OnMap
<1>4. CASE Born(u)
  BY <1>0, <1>4 DEF Born, Own, OnMap, Morphing
<1>5. CASE Stop(u)
  BY <1>0, <1>5 DEF Stop, Own, OnMap, Morphing
<1>6. CASE NoRoomToMorph(u)
  BY <1>0, <1>6 DEF NoRoomToMorph, Own, OnMap, Morphing
<1>7. CASE OutOfEnergy(u)
  BY <1>0, <1>7 DEF OutOfEnergy, Own, OnMap, Morphing, Tidy
<1>8. CASE DecHp(u)
  BY <1>0, <1>8 DEF DecHp, Own, OnMap, Morphing, Target
<1>9. CASE CancelMorph(u)
  BY <1>0, <1>9, UndoneHoldsOwn DEF CancelMorph, Own, OnMap
<1>10. CASE BeginMorph(u)
  <2>1. Put(cells, u, Own(u)) \in Map
    BY <1>0, PutIs
  <2>2. s \in Own(u) \/ s \in Target(u) \/ cells[s] = u
    BY <1>0, <1>10, <2>1, PutIs DEF BeginMorph
  <2>3. s \in Own(u) \/ s \in Target(u)
    BY <1>0, <1>10, <2>2 DEF BeginMorph, Morphing
  <2> QED
    BY <1>0, <1>10, <2>3 DEF BeginMorph, Own, Target, OnMap, Morphing
<1>11. CASE FinishMorph(u)
  <2> DEFINE first == ClearUnitCells(u)
             cleared == Clear(first, u, Own(u))
  <2>1. /\ first \in Map
        /\ first[s] = u => s \in Own(u)
    BY <1>0, <1>11, ClearUnitCellsUntouched, ClearedHoldsOwn DEF FinishMorph
  <2>2. cleared \in Map /\ cleared[s] # u
    BY <2>1, ClearIs
  <2>3. s \in Target(u)
    BY <1>11, <2>2, PutIs DEF FinishMorph
  <2>4. Own(u)' = Target(u) /\ OnMap(u)'
    BY <1>0, <1>11 DEF FinishMorph, Own, Target, OnMap
  <2> QED
    BY <2>3, <2>4
<1>12. CASE FailMorph(u)
  <2> DEFINE first == ClearUnitCells(u)
             cleared == Clear(first, u, Own(u))
  <2>1. /\ first \in Map
        /\ first[s] = u => s \in Own(u)
    BY <1>0, <1>12, ClearUnitCellsUntouched, ClearedHoldsOwn DEF FailMorph
  <2>2. cleared \in Map /\ cleared[s] # u
    BY <2>1, ClearIs
  <2>3. s \in Own(u)
    BY <1>12, <2>2, PutIs DEF FailMorph
  <2>4. Own(u)' = Own(u) /\ OnMap(u)'
    BY <1>0, <1>12 DEF FailMorph, Own, OnMap
  <2> QED
    BY <2>3, <2>4
<1>14. CASE Putrefy(u)
  BY <1>0, <1>14 DEF Putrefy, OnMap
<1>13. CASE Kill(u)
  <2>1. UndoCells(u) \in Map
    BY <1>0, UndoCellsUntouched
  <2>2. UndoCells(u)[s] = u /\ s \notin Own(u)
    BY <1>13, <2>1, ClearIs DEF Kill
  <2> QED
    BY <2>2, UndoneHoldsOwn
<1> QED
  BY <1>1, <1>2, <1>3, <1>4, <1>5, <1>6, <1>7, <1>8, <1>9, <1>10, <1>11, <1>12, <1>13,
     <1>14 DEF Step

LEMMA CleanInit == Init => CleanInv
  BY InitTypes DEF CleanInv, Held, Init, GoalsAreMorphs, Clean, OnMap

LEMMA CleanStep == Tidy /\ CleanInv /\ [Next]_vars => CleanInv'
<1> SUFFICES ASSUME Tidy, CleanInv, [Next]_vars PROVE CleanInv'
  OBVIOUS
<1>1. CASE UNCHANGED vars
  <2>1. TypeOK'
    BY <1>1, StutterTypes DEF CleanInv, Held
  <2> QED
    BY <1>1, <2>1 DEF CleanInv, Held, vars, GoalsAreMorphs, Clean, MayHold, OnMap, Own,
                      Target, Morphing
<1>2. ASSUME NEW u \in Unit, Step(u)
      PROVE  CleanInv'
  <2>1. TypeOK' /\ GoalsAreMorphs'
    BY <1>2, StepTypes, StepGoals DEF CleanInv, Held
  <2>2. ~thrown' /\ (OnMap(u)' => \A s \in Own(u)' : s \in Seat /\ cells'[s] = u)
    BY <1>2, StepHolds
  <2>3. \A v \in Unit : v # u /\ OnMap(v)' =>
            \A s \in Own(v)' : s \in Seat /\ cells'[s] = v
    BY <1>2, OthersHold DEF CleanInv
  <2>4. ASSUME NEW s \in Seat, NEW v \in Unit, cells'[s] = v
        PROVE  MayHold(v, s)'
    <3>1. CASE v = u
      BY <1>2, <2>4, <3>1, StepClean
    <3>2. CASE v # u
      <4>1. Untouched(cells, cells', u) /\ OthersUnchanged(u)
        BY <1>2, StepUntouched DEF CleanInv, Held
      <4>2. MayHold(v, s)
        BY <2>4, <3>2, <4>1 DEF Untouched, CleanInv, Clean
      <4> QED
        BY <3>2, <4>1, <4>2
           DEF OthersUnchanged, MayHold, OnMap, Own, Target, Morphing
    <3> QED
      BY <3>1, <3>2
  <2>5. Held'
    BY <2>1, <2>2, <2>3 DEF Held
  <2>6. Clean'
    BY <2>4 DEF Clean
  <2> QED
    BY <2>1, <2>5, <2>6 DEF CleanInv
<1> QED
  BY <1>1, <1>2 DEF Next

LEMMA AlwaysClean == Spec => [](Tidy => CleanInv)
<1>1. (Tidy => CleanInv) /\ [Next]_vars => (Tidy => CleanInv)'
  BY CleanStep DEF Tidy
<1> QED
  BY CleanInit, <1>1, PTL DEF Spec

\* Where no morph costs energy, and what becomes smaller stays within its cells, a unit
\* on the map holds every cell of its body, whatever has been begun, finished, given up
\* or undone, by it and by others.
THEOREM UnitsHoldTheirCellsHolds == Spec => []UnitsHoldTheirCells
<1>1. (Tidy => CleanInv) => UnitsHoldTheirCells
  BY DEF CleanInv, Held, UnitsHoldTheirCells
<1> QED
  BY AlwaysClean, <1>1, PTL

\* There no unit is ever put into a cell where another one stands.
THEOREM NeverThrownHolds == Spec => []NeverThrown
<1>1. (Tidy => CleanInv) => NeverThrown
  BY DEF CleanInv, Held, NeverThrown
<1> QED
  BY AlwaysClean, <1>1, PTL

\* There no cell holds a unit that is dead, has left or has given up what it was
\* becoming.
THEOREM NothingLeftBehindHolds == Spec => []NothingLeftBehind
<1>1. (Tidy => CleanInv) => NothingLeftBehind
  BY DEF CleanInv, Clean, MayHold, NothingLeftBehind
<1> QED
  BY AlwaysClean, <1>1, PTL

-----------------------------------------------------------------------------
(* The map of a saved game. *)

\* Where nobody waits to be found dead and every morph has its space blocked, a client
\* that loads the save has the map of the others.
THEOREM SavedMapAgreesHolds == Spec => []SavedMapAgrees
<1> DEFINE Loadable == \A u \in Unit : /\ OnMap(u) => alive[u]
                                       /\ Morphing(u) => SpaceIsBlocked(u)
           Puts(u, s) == /\ OnMap(u) /\ alive[u]
                         /\ s \in Own(u) \/ (Morphing(u) /\ s \in Target(u))
<1>1. ASSUME Tidy, CleanInv, Loadable
      PROVE  cells = LoadGame
  <2>1. ASSUME NEW s \in Seat, NEW u \in Unit
        PROVE  Puts(u, s) <=> cells[s] = u
    <3>1. Puts(u, s) => cells[s] = u
      BY <1>1 DEF CleanInv, Held, SpaceIsBlocked
    <3>2. cells[s] = u => Puts(u, s)
      BY <1>1 DEF CleanInv, Clean, MayHold
    <3> QED
      BY <3>1, <3>2
  <2>2. cells \in [Seat -> Unit \cup {None}]
    BY <1>1 DEF CleanInv, Held, TypeOK
  <2>3. ASSUME NEW s \in Seat
        PROVE  cells[s] = IF \E u \in Unit : Puts(u, s)
                             THEN CHOOSE u \in Unit : Puts(u, s) ELSE None
    <3>1. CASE cells[s] = None
      BY <2>1, <3>1
    <3>2. CASE cells[s] # None
      <4>1. cells[s] \in Unit
        BY <2>2, <3>2
      <4> DEFINE w == CHOOSE u \in Unit : Puts(u, s)
      <4>2. Puts(cells[s], s)
        BY <2>1, <4>1
      <4>3. w \in Unit /\ Puts(w, s)
        BY <4>1, <4>2
      <4>4. cells[s] = w
        BY <2>1, <4>3
      <4> QED
        BY <4>1, <4>2, <4>4
    <3> QED
      BY <3>1, <3>2
  <2> QED
    BY <2>2, <2>3 DEF LoadGame
<1>2. (Tidy => CleanInv) => SavedMapAgrees
  BY <1>1 DEF SavedMapAgrees
<1> QED
  BY AlwaysClean, <1>2, PTL

-----------------------------------------------------------------------------
(* The cells implement the board. *)

HeldBy(u) == {s \in Seat : cells[s] = u}

LEMMA BoardInit == Init => Seats!Init
  BY DEF Init, Seats!Init

LEMMA BoardStep == TypeOK /\ [Next]_vars => [Seats!Next]_([u \in Unit |-> HeldBy(u)])
<1> SUFFICES ASSUME TypeOK, [Next]_vars
             PROVE  [Seats!Next]_([u \in Unit |-> HeldBy(u)])
  OBVIOUS
<1> DEFINE held == [u \in Unit |-> HeldBy(u)]
<1>1. CASE UNCHANGED vars
  BY <1>1 DEF vars, HeldBy
<1>2. ASSUME NEW u \in Unit, Step(u)
      PROVE  Seats!Next
  <2>1. cells \in Map /\ cells' \in Map /\ Untouched(cells, cells', u)
    BY <1>2, StepUntouched DEF TypeOK, Map
  <2>2. ASSUME NEW v \in Unit, v # u
        PROVE  HeldBy(v)' = HeldBy(v)
    BY <2>1, <2>2 DEF HeldBy, Untouched
  <2>3. held' = [held EXCEPT ![u] = HeldBy(u)']
    BY <2>2
  <2>4. ASSUME NEW s \in HeldBy(u)'
        PROVE  s \in Seats!Free \cup held[u]
    <3>1. s \in Seat /\ cells'[s] = u
      BY DEF HeldBy
    <3>2. \A v \in Unit : v # u => s \notin HeldBy(v)
      BY <2>1, <3>1 DEF HeldBy, Untouched
    <3> QED
      BY <3>1, <3>2 DEF Seats!Free, HeldBy
  <2>5. HeldBy(u)' \in SUBSET (Seats!Free \cup held[u])
    BY <2>4
  <2> QED
    BY <2>3, <2>5 DEF Seats!Next, Seats!Take, HeldBy
<1> QED
  BY <1>1, <1>2 DEF Next

\* A step gives one unit what was free or its own, and changes nothing for the others.
THEOREM BoardImplemented == Spec => ImplementsBoard
<1>1. TypeOK /\ [Next]_vars => [Seats!Next]_([u \in Unit |-> {s \in Seat : cells[s] = u}])
  BY BoardStep DEF HeldBy
<1> QED
  BY TypeCorrect, BoardInit, <1>1, PTL DEF Spec, ImplementsBoard, Seats!Spec
=============================================================================
