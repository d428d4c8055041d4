---------------------------- MODULE FactionUnits ----------------------------
(***************************************************************************)
(* A faction: its units with their queues of commands, its resources, its  *)
(* store and its upgrades.  A command is paid for when it is given; what   *)
(* was paid belongs to the command until it is undone, to the unit it      *)
(* creates afterwards, and to nobody when that unit is lost.  Commands are *)
(* given, cancelled and updated in any order, and units may be killed at   *)
(* any time.                                                               *)
(*                                                                         *)
(* Abstractions.                                                           *)
(*   - Two resources: gold is harvested and limited by the store, food is  *)
(*     static (a farm has a negative cost).  Static costs are recouped and *)
(*     no morph ignores costs or has a discount.  Resources are not shared *)
(*     in a team; consumables, energy and spawned units are left out.      *)
(*   - Hit points are whether a unit is alive; progress is whether it is   *)
(*     complete; ways and places are what an update may find (UnitCells    *)
(*     has the cells).                                                     *)
(*   - A move, an attack or a stop is a command without a product: it      *)
(*     empties a queue or is pushed to it.  Only "stop" is kept, and the   *)
(*     stop an idle unit gives to itself is an empty queue, which is what  *)
(*     every other command makes of it.                                    *)
(*   - A unit that is gone stays in the table, so that its id is not used  *)
(*     again; Command::getUnit does not find it.                           *)
(***************************************************************************)
EXTENDS Integers, FiniteSets, Functions, Lists

CONSTANTS UnitType,   \* the types of units
          Upgrade,    \* the types of upgrades
          Starting,   \* the types of the units the game begins with, a sequence
          Orders,     \* the orders a unit type can be given: [class, what]
          Gold,       \* the gold a unit type or an upgrade costs
          Food,       \* the food a unit type uses (negative: produces)
          Store,      \* the gold a unit of a type can store
          MaxUnitCount,  \* the most units of a type (0: any number)
          Needs,      \* what a unit type or an upgrade requires
          InitGold, InitFood,  \* the resources at the start
          MaxUnits,   \* bound: units created
          MaxQueue,   \* bound: commands of a unit
          MaxOrders,  \* bound: orders and cancellations given by the player
          MaxHarvest, \* bound: gold brought home
          MaxHits     \* bound: units killed

ASSUME StartingAssumption ==
    /\ Starting \in Seq(UnitType)
    /\ Len(Starting) <= MaxUnits
    /\ MaxUnits \in Nat /\ MaxQueue \in Nat
ASSUME OrdersAssumption ==
    /\ UnitType \cap Upgrade = {}
    /\ \A t \in UnitType : \A o \in Orders[t] :
          \/ o \in [class : {"build", "produce", "morph"}, what : UnitType]
          \/ o \in [class : {"upgrade"}, what : Upgrade]
          \/ o.class = "stop"
ASSUME CostAssumption ==
    /\ Gold \in [UnitType \cup Upgrade -> Nat]
    /\ Food \in [UnitType -> Int]
    /\ Store \in [UnitType -> Nat]
    /\ MaxUnitCount \in [UnitType -> Nat]
    /\ InitFood \in Int
    /\ InitGold \in Nat
    /\ InitGold <= SumFunction([i \in DOMAIN Starting |-> Store[Starting[i]]])

VARIABLES units,    \* the units: type, skill, life, commands and building site
          gold,     \* resources[gold]
          food,     \* resources[food]
          store,    \* store[gold]
          upgrades, \* upgradeManager
          budget    \* what is left of the bounds

vars == <<units, gold, food, store, upgrades, budget>>

Manager == INSTANCE UpgradeManager

-----------------------------------------------------------------------------
(* Commands. *)

Class == {"stop", "build", "produce", "upgrade", "morph"}

None == 0   \* no unit

\* CommandType::isQueuable: always, on request, on request but only as the last, never.
Queueability == [build |-> "request", produce |-> "always", upgrade |-> "always",
                 morph |-> "last", stop |-> "never"]

IsQueuable(o, tryQueue) ==
    \/ Queueability[o.class] = "always"
    \/ Queueability[o.class] \in {"request", "last"} /\ tryQueue

IsQueueAppendable(c) == Queueability[c.class] \in {"always", "request"}

Priority(c) == CASE c.class \in {"produce", "upgrade"} -> 15
                 [] c.class \in {"build", "morph"} -> 10
                 [] OTHER -> 100000

-----------------------------------------------------------------------------
(* The account.  It is passed through a step as a record: one step may undo  *)
(* several commands and pay for another.                                     *)

Account == [gold |-> gold, food |-> food, store |-> store, upgrades |-> upgrades]

SetAccount(a) == /\ gold' = a.gold
                 /\ food' = a.food
                 /\ store' = a.store
                 /\ upgrades' = a.upgrades

Least(m, n) == IF m < n THEN m ELSE n
Uses(p)     == IF p \in UnitType /\ Food[p] > 0 THEN Food[p] ELSE 0
Yields(p)   == IF p \in UnitType /\ Food[p] < 0 THEN -Food[p] ELSE 0

\* incResourceAmount: gold beyond the store is lost.
IncGold(a, n) == [a EXCEPT !.gold = Least(@ + n, a.store)]
IncFood(a, n) == [a EXCEPT !.food = @ + n]

CheckCosts(a, p) == /\ Gold[p] > 0 => a.gold >= Gold[p]
                    /\ Uses(p) > 0 => a.food >= Uses(p)

ApplyCosts(a, p)   == IncFood(IncGold(a, -Gold[p]), -Uses(p))
DeApplyCosts(a, p) == IncFood(IncGold(a, Gold[p]), Uses(p))

ApplyStaticProduction(a, t)  == IncFood(a, Yields(t))
DeApplyStaticCosts(a, t)     == IncFood(a, Food[t])
DeApplyStaticConsumption(a, t) == IncFood(a, Uses(t))

AddStore(a, t) == [a EXCEPT !.store = @ + Store[t]]

\* The store shrinks and limitResourcesToStore follows.
RemoveStore(a, t) == IncGold([a EXCEPT !.store = @ - Store[t]], 0)

-----------------------------------------------------------------------------
(* Units. *)

Id == 1 .. Len(units)

OnMap(u) == u.skill \notin {"die", "gone"}
IsBeingBuilt(u) == u.skill = "beBuilt"
IsOperative(u) == u.alive /\ ~IsBeingBuilt(u)

\* What Command::getUnit finds: the unit, as long as it is in the faction.
GetUnit(c) == IF c.site # None /\ units[c.site].skill # "gone" THEN c.site ELSE None

NewUnit(t, skill) == [type |-> t, skill |-> skill, alive |-> TRUE,
                      commands |-> <<>>, target |-> None]

\* The state of a faction whose first units are created and born.
Init ==
    /\ units = [i \in 1 .. Len(Starting) |-> NewUnit(Starting[i], "stop")]
    /\ gold = InitGold
    /\ food = InitFood - SumFunction([i \in DOMAIN Starting |-> Food[Starting[i]]])
    /\ store = SumFunction([i \in DOMAIN Starting |-> Store[Starting[i]]])
    /\ upgrades = Manager!NoUpgrades
    /\ budget = [orders |-> MaxOrders, harvest |-> MaxHarvest, hits |-> MaxHits]

\* The commands of a unit that will make a unit of type t and have not yet.
CountPreExistence(u, t) ==
    Cardinality({k \in DOMAIN u.commands :
        /\ u.commands[k].what = t
        /\ \/ u.commands[k].class \in {"produce", "morph"}
           \/ u.commands[k].class = "build" /\ GetUnit(u.commands[k]) = None})

\* Mutant of CountForMaxUnitCount: only the units that are there count.
CountForMaxUnitCountAlive(us, t) ==
    Cardinality({i \in DOMAIN us : us[i].type = t /\ us[i].alive})

CountForMaxUnitCount(us, t) ==
    Cardinality({i \in DOMAIN us : us[i].type = t /\ us[i].alive})
    + SumFunction([i \in DOMAIN us |-> CountPreExistence(us[i], t)])

ReqsOk(a, us, p) ==
    /\ \A n \in Needs[p] :
          IF n \in Upgrade
             THEN Manager!IsUpgraded(a.upgrades, n)
             ELSE \E i \in DOMAIN us : us[i].type = n /\ IsOperative(us[i])
    /\ p \in UnitType /\ MaxUnitCount[p] > 0 => MaxUnitCount[p] > CountForMaxUnitCount(us, p)

\* checkCommand, with the commands that are left after those it replaces are undone.
CheckCommand(a, us, i, o) ==
    /\ IsOperative(us[i])
    /\ o.class # "stop" => ReqsOk(a, us, o.what) /\ CheckCosts(a, o.what)
    /\ o.class = "upgrade" => ~Manager!IsUpgradingOrUpgraded(a.upgrades, o.what)

ApplyCommand(a, o) ==
    CASE o.class = "stop" -> a
      [] o.class = "upgrade" ->
            [ApplyCosts(a, o.what) EXCEPT !.upgrades = Manager!StartUpgrade(@, o.what)]
      [] OTHER -> ApplyCosts(a, o.what)

\* Mutant of UndoCommand: the cost of a build is returned while it is being built.
UndoCommandAlwaysPays(a, u, c) ==
    CASE c.class = "stop" -> a
      [] c.class = "upgrade" ->
            [DeApplyCosts(a, c.what) EXCEPT !.upgrades = Manager!CancelUpgrade(@, c.what)]
      [] OTHER -> DeApplyCosts(a, c.what)

\* A unit whose skill is building is taken to be building what this command says.
UndoCommand(a, u, c) ==
    CASE c.class = "stop" -> a
      [] c.class = "build" ->
            IF u.skill \in {"build", "die"} THEN a ELSE DeApplyCosts(a, c.what)
      [] c.class = "upgrade" ->
            [DeApplyCosts(a, c.what) EXCEPT !.upgrades = Manager!CancelUpgrade(@, c.what)]
      [] OTHER -> DeApplyCosts(a, c.what)

\* Undoes some commands of a unit, the first of the sequence first.
UndoCommands(a, u, cs) == FoldLeft(LAMBDA b, c : UndoCommand(b, u, c), a, cs)

\* Mutant of ClearCommands: the command that has been begun is not undone.
ClearCommandsButFirst(a, u) == UndoCommands(a, u, Reverse(SubSeq(u.commands, 2, Len(u.commands))))

\* clearCommands undoes them from the back.
ClearCommands(a, u) == UndoCommands(a, u, Reverse(u.commands))

-----------------------------------------------------------------------------
(* Giving and cancelling commands. *)

\* The commands an order sweeps away first because their priority is lower.
Outranked(u, o, tryQueue) ==
    IF Queueability[o.class] = "always" /\ tryQueue
       THEN <<>>
       ELSE Among(u.commands, {c \in Range(u.commands) : Priority(c) < Priority(o)})

NotOutranked(u, o, tryQueue) ==
    IF Queueability[o.class] = "always" /\ tryQueue
       THEN u.commands
       ELSE Among(u.commands, {c \in Range(u.commands) : Priority(c) >= Priority(o)})

\* The commands undone before an order is looked at, in the order they are undone.
Replaced(u, o, tryQueue) ==
    LET rest == NotOutranked(u, o, tryQueue)
    IN  IF ~IsQueuable(o, tryQueue) THEN Reverse(u.commands)
        ELSE IF rest # <<>> /\ ~IsQueueAppendable(Last(rest))
                THEN Append(Outranked(u, o, tryQueue), Last(rest))
                ELSE Outranked(u, o, tryQueue)

Kept(u, o, tryQueue) ==
    LET rest == NotOutranked(u, o, tryQueue)
    IN  IF ~IsQueuable(o, tryQueue) THEN <<>>
        ELSE IF rest # <<>> /\ ~IsQueueAppendable(Last(rest)) THEN Front(rest) ELSE rest

\* The player's order, when the faction's world is given it.  What it replaces is
\* undone even if the order itself is then refused.
GiveCommand(i, o, tryQueue) ==
    LET u == units[i]
        a == UndoCommands(Account, u, Replaced(u, o, tryQueue))
        us == [units EXCEPT ![i].commands = Kept(u, o, tryQueue)]
    IN  /\ OnMap(u)
        /\ o \in Orders[u.type]
        /\ budget.orders > 0
        /\ Len(us[i].commands) < MaxQueue
        /\ budget' = [budget EXCEPT !.orders = @ - 1]
        /\ IF CheckCommand(a, us, i, o)
              THEN /\ SetAccount(ApplyCommand(a, o))
                   /\ units' = [us EXCEPT ![i].commands = IF o.class = "stop" THEN @ ELSE
                                  Append(@, [class |-> o.class, what |-> o.what, site |-> None])]
              ELSE /\ units' = us
                   /\ SetAccount(a)

\* cancelCommand: the last command, not the current one.  The unit's skill becomes s.
CancelLast(i, s) ==
    LET u == units[i]
    IN  /\ u.commands # <<>>
        /\ SetAccount(UndoCommand(Account, u, Last(u.commands)))
        /\ units' = [units EXCEPT ![i].commands = Front(@), ![i].skill = s]

\* The player's cancel button.
CancelCommand(i) ==
    /\ OnMap(units[i])
    /\ budget.orders > 0
    /\ budget' = [budget EXCEPT !.orders = @ - 1]
    /\ CancelLast(i, units[i].skill)

-----------------------------------------------------------------------------
(* Updates: UnitUpdater, once for every unit and frame, whether the unit has *)
(* just lost its life or not.                                                *)

Current(i) == Head(units[i].commands)

Has(i, class) == units[i].commands # <<>> /\ Current(i).class = class

\* finishCommand, and the skill becomes stop.
Finished(u) == [u EXCEPT !.commands = Tail(@), !.skill = "stop"]

\* A unit takes up the production, the research or the morph it is to do next.
BeginTask(i) ==
    /\ \E class \in {"produce", "upgrade", "morph"} :
          /\ Has(i, class)
          /\ units[i].skill # class
          /\ units' = [units EXCEPT ![i].skill = class]
    /\ UNCHANGED <<gold, food, store, upgrades, budget>>

\* canMorph is false: the last command is cancelled.
NoRoomToMorph(i) ==
    /\ Has(i, "morph")
    /\ units[i].skill # "morph"
    /\ CancelLast(i, units[i].skill)
    /\ UNCHANGED budget

\* The new unit is created and born.
FinishProduction(i) ==
    /\ Has(i, "produce")
    /\ units[i].skill = "produce"
    /\ Len(units) < MaxUnits
    /\ units' = Append([units EXCEPT ![i] = Finished(@)], NewUnit(Current(i).what, "stop"))
    /\ SetAccount(ApplyStaticProduction(AddStore(Account, Current(i).what), Current(i).what))
    /\ UNCHANGED budget

\* There is no place for it: it is deleted, and so is what was paid for it.
NoPlaceForProduct(i) ==
    /\ Has(i, "produce")
    /\ units[i].skill = "produce"
    /\ units' = [units EXCEPT ![i] = Finished(@)]
    /\ UNCHANGED <<gold, food, store, upgrades, budget>>

\* Mutant of FinishUpgrade: the command stays at the head of the queue.
FinishUpgradeAgain(i) ==
    /\ Has(i, "upgrade")
    /\ units[i].skill = "upgrade"
    /\ upgrades' = Manager!FinishUpgrade(upgrades, Current(i).what)
    /\ units' = [units EXCEPT ![i].skill = "stop"]
    /\ UNCHANGED <<gold, food, store, budget>>

FinishUpgrade(i) ==
    /\ Has(i, "upgrade")
    /\ units[i].skill = "upgrade"
    /\ upgrades' = Manager!FinishUpgrade(upgrades, Current(i).what)
    /\ units' = [units EXCEPT ![i] = Finished(@)]
    /\ UNCHANGED <<gold, food, store, budget>>

\* The unit becomes a unit of the other type.
FinishMorph(i) ==
    LET old == units[i].type
        new == Current(i).what
        a == RemoveStore(AddStore(DeApplyStaticCosts(Account, old), new), old)
    IN  /\ Has(i, "morph")
        /\ units[i].skill = "morph"
        /\ SetAccount(ApplyStaticProduction(a, new))
        /\ units' = [units EXCEPT ![i] = [Finished(@) EXCEPT !.type = new]]
        /\ UNCHANGED budget

\* A builder has arrived and found the place free: the building is there, but not
\* yet born.
BeginBuilding(i) ==
    LET site == Len(units) + 1
    IN  /\ Has(i, "build")
        /\ units[i].skill # "build"
        /\ Len(units) < MaxUnits
        /\ units' = Append([units EXCEPT ![i].skill = "build",
                                         ![i].target = site,
                                         ![i].commands[1].site = site],
                           NewUnit(Current(i).what, "beBuilt"))
        /\ UNCHANGED <<gold, food, store, upgrades, budget>>

\* The place is taken, or the way to it blocked: the last command is cancelled.
NoPlaceToBuild(i) ==
    /\ Has(i, "build")
    /\ units[i].skill # "build"
    /\ \E s \in {"stop", units[i].skill} : CancelLast(i, s)
    /\ UNCHANGED budget

\* The building at the place where the builder works.
AtTarget(i) ==
    LET t == units[i].target
    IN  IF t # None /\ OnMap(units[t]) THEN t ELSE None

\* Another unit stands there: the building of an earlier command, or one that has
\* come where a building was destroyed.
Distracted(i) ==
    /\ Has(i, "build")
    /\ units[i].skill = "build"
    /\ AtTarget(i) # None => AtTarget(i) # GetUnit(Current(i))
    /\ units' = [units EXCEPT ![i].skill = "stop"]
    /\ UNCHANGED <<gold, food, store, upgrades, budget>>

\* Nothing stands there any more, or it is built: the command is finished.
NothingToBuild(i) ==
    /\ Has(i, "build")
    /\ units[i].skill = "build"
    /\ \/ AtTarget(i) = None
       \/ /\ AtTarget(i) # None
          /\ AtTarget(i) = GetUnit(Current(i))
          /\ ~IsBeingBuilt(units[AtTarget(i)])
    /\ units' = [units EXCEPT ![i] = Finished(@)]
    /\ UNCHANGED <<gold, food, store, upgrades, budget>>

Born(t) == SetAccount(ApplyStaticProduction(AddStore(Account, t), t))

\* The building is complete.
FinishBuilding(i) ==
    LET b == AtTarget(i)
    IN  /\ Has(i, "build")
        /\ units[i].skill = "build"
        /\ b # None /\ b = GetUnit(Current(i))
        /\ IsBeingBuilt(units[b])
        /\ units' = [units EXCEPT ![i] = Finished(@), ![b].skill = "stop"]
        /\ Born(units[b].type)
        /\ UNCHANGED budget

\* Another unit, with a repair command, completes it.
Repair(b) ==
    /\ IsBeingBuilt(units[b])
    /\ units' = [units EXCEPT ![b].skill = "stop"]
    /\ Born(units[b].type)
    /\ UNCHANGED budget

\* Gold is brought to a store.
Harvest ==
    /\ budget.harvest > 0
    /\ budget' = [budget EXCEPT !.harvest = @ - 1]
    /\ SetAccount(IncGold(Account, 1))
    /\ UNCHANGED units

\* A unit loses its life (decHp), killed or starved.
DecHp(i) ==
    /\ units[i].alive
    /\ budget.hits > 0
    /\ budget' = [budget EXCEPT !.hits = @ - 1]
    /\ units' = [units EXCEPT ![i].alive = FALSE]
    /\ UNCHANGED <<gold, food, store, upgrades>>

\* Mutant of Kill: a building that is being built gives its store back as well.
KillRemovesStore(i) ==
    LET u == units[i]
        a == IF IsBeingBuilt(u) THEN DeApplyStaticConsumption(Account, u.type)
                                ELSE DeApplyStaticCosts(Account, u.type)
    IN  /\ ~u.alive /\ OnMap(u)
        /\ SetAccount(RemoveStore(ClearCommands(a, u), u.type))
        /\ units' = [units EXCEPT ![i].commands = <<>>, ![i].skill = "die"]
        /\ UNCHANGED budget

\* The unit's own update notices: static costs come back, its commands are undone
\* as those of a unit that still does what it did, its store goes.
Kill(i) ==
    LET u == units[i]
        a == IF IsBeingBuilt(u) THEN DeApplyStaticConsumption(Account, u.type)
                                ELSE DeApplyStaticCosts(Account, u.type)
        b == ClearCommands(a, u)
    IN  /\ ~u.alive /\ OnMap(u)
        /\ SetAccount(IF IsBeingBuilt(u) THEN b ELSE RemoveStore(b, u.type))
        /\ units' = [units EXCEPT ![i].commands = <<>>, ![i].skill = "die"]
        /\ UNCHANGED budget

\* The dead unit is deleted.
Undertake(i) ==
    /\ units[i].skill = "die"
    /\ units' = [units EXCEPT ![i].skill = "gone"]
    /\ UNCHANGED <<gold, food, store, upgrades, budget>>

-----------------------------------------------------------------------------
Player(i) == \/ \E o \in Orders[units[i].type], q \in BOOLEAN : GiveCommand(i, o, q)
             \/ CancelCommand(i)

Update(i) == \/ BeginTask(i)
             \/ NoRoomToMorph(i)
             \/ FinishProduction(i)
             \/ NoPlaceForProduct(i)
             \/ FinishUpgrade(i)
             \/ FinishMorph(i)
             \/ BeginBuilding(i)
             \/ NoPlaceToBuild(i)
             \/ Distracted(i)
             \/ NothingToBuild(i)
             \/ FinishBuilding(i)
             \/ Kill(i)

Next == \/ \E i \in Id : Player(i) \/ Update(i) \/ Repair(i) \/ DecHp(i) \/ Undertake(i)
        \/ Harvest

Spec == Init /\ [][Next]_vars

\* Every unit is updated again and again, as long as the world moves.
FairSpec == Spec /\ \A i \in 1 .. MaxUnits : WF_vars(i \in Id /\ Update(i))

-----------------------------------------------------------------------------
(* Properties. *)

TypeOK ==
    /\ Len(units) <= MaxUnits
    /\ \A i \in Id :
          /\ units[i].type \in UnitType
          /\ units[i].skill \in Class \cup {"beBuilt", "die", "gone"}
          /\ units[i].alive \in BOOLEAN
          /\ units[i].target \in Id \cup {None}
          /\ Len(units[i].commands) <= MaxQueue
          /\ \A k \in DOMAIN units[i].commands :
                /\ [class |-> units[i].commands[k].class, what |-> units[i].commands[k].what]
                      \in UNION {Orders[t] : t \in UnitType}
                /\ units[i].commands[k].site \in Id \cup {None}
    /\ gold \in Nat /\ food \in Int /\ store \in Nat
    /\ upgrades.list \in Seq([type : Upgrade, state : {"upgrading", "upgraded"}])
    /\ upgrades.index \in [Upgrade -> 0 .. Len(upgrades.list)]

\* The store is that of the units that are born and not yet dead, however they came
\* to be, and never holds less than the gold that lies in it.
StoreIsTheUnits ==
    /\ store = SumFunction([i \in Id |-> IF OnMap(units[i]) /\ ~IsBeingBuilt(units[i])
                                            THEN Store[units[i].type] ELSE 0])
    /\ gold <= store

\* What has been paid and not returned belongs to a unit or to a command that has
\* yet to make one.
HeldByUnit(u) == IF ~OnMap(u) THEN 0
                 ELSE IF IsBeingBuilt(u) THEN Uses(u.type) ELSE Food[u.type]

HeldByCommand(c) ==
    IF c.class \in {"produce", "morph"} \/ (c.class = "build" /\ c.site = None)
       THEN Uses(c.what) ELSE 0

Balance ==
    food + SumFunction([i \in Id |->
              HeldByUnit(units[i])
              + SumFunction([k \in DOMAIN units[i].commands |->
                                HeldByCommand(units[i].commands[k])])])

\* The builder's skill says that it is building, but a command of its queue has not
\* been begun; or the skill says it is not, but one has been.
Misjudged(i) ==
    \E k \in DOMAIN units[i].commands :
        LET c == units[i].commands[k]
        IN  c.class = "build" /\ ((units[i].skill = "build") # (c.site # None))

\* No food is lost or made, whatever is given, cancelled, built, morphed or killed,
\* but in two places: a product that finds no room, and a build command that
\* undoCommand or updateBuild takes for begun when it is not, or the other way round.
FoodIsConserved ==
    [][\/ Balance' = Balance
       \/ \E i \in Id : NoPlaceForProduct(i) \/ Misjudged(i)]_vars

\* An upgrade is being researched exactly if one command of one unit says so.
UpgradeInHand ==
    \A u \in Upgrade :
        Manager!IsUpgrading(upgrades, u) <=>
        1 = SumFunction([i \in Id |->
               Cardinality({k \in DOMAIN units[i].commands :
                   /\ units[i].commands[k].class = "upgrade"
                   /\ units[i].commands[k].what = u})])

\* What isUpgrading and isUpgraded say of every upgrade is an upgrade book.
StateOf(m, u) == IF Manager!IsUpgraded(m, u) THEN "upgraded"
                 ELSE IF Manager!IsUpgrading(m, u) THEN "upgrading" ELSE "none"

Known == [u \in Upgrade |-> StateOf(upgrades, u)]

Book == INSTANCE UpgradeBook WITH book <- Known
ImplementsBook == Book!Spec

\* "Maps UpgradeType to the index of the upgrade in UpgradeManager::upgrades."
LookupFindsType ==
    \A u \in Upgrade :
        upgrades.index[u] # 0 => upgrades.list[upgrades.index[u]].type = u

\* The limit of a type counts what is ordered as well as what is there; it is kept
\* as long as no unit that is built by others has been killed (its builder may
\* build it a second time, and nobody counts that), be it after it became another.
CountWithinLimit ==
    \A t \in UnitType :
        \/ MaxUnitCount[t] = 0
        \/ CountForMaxUnitCount(units, t) <= MaxUnitCount[t]
        \/ \E i \in Id, b \in UNION {Orders[x] : x \in UnitType} :
              /\ b.class = "build" /\ b.what = t
              /\ ~units[i].alive
              /\ units[i].type = t \/ \E o \in Orders[t] : o.class = "morph"

\* When the player gives no more orders every queue empties.
QueuesDrain == \A i \in 1 .. MaxUnits : <>[](i \in Id => units[i].commands = <<>>)
=============================================================================
