--------------------------- MODULE MCFactionUnits ---------------------------
(* A worker that builds castles and towers and becomes a knight; a castle    *)
(* that produces workers and researches.                                     *)
EXTENDS FactionUnits

Order(c, w) == [class |-> c, what |-> w]

Types == {"worker", "knight", "castle", "tower"}

OrdersOf(ups) ==
    [worker |-> {Order("build", "castle"), Order("build", "tower"),
                 Order("morph", "knight"), Order("stop", "none")},
     knight |-> {Order("stop", "none")},
     castle |-> {Order("produce", "worker")} \cup {Order("upgrade", u) : u \in ups},
     tower  |-> {}]

CostOf(ups) == [p \in Types \cup ups |-> IF p \in {"castle", "tower"} THEN 2 ELSE 1]

FoodOf == [worker |-> 1, knight |-> 2, castle |-> -2, tower |-> 1]

StoreOf == [worker |-> 0, knight |-> 1, castle |-> 4, tower |-> 1]

LimitOf == [worker |-> 0, knight |-> 1, castle |-> 2, tower |-> 1]

NeedsOf(ups) ==
    [p \in Types \cup ups |-> CASE p = "knight" -> {"swords"}
                                [] p = "tower"  -> {"castle"}
                                [] OTHER        -> {}]

\* Two upgrades and a worker.
WorkerAndCastle == <<"worker", "castle">>
TwoUpgrades == {"swords", "armour"}
OrdersTwo == OrdersOf(TwoUpgrades)
GoldTwo == CostOf(TwoUpgrades)
NeedsTwo == NeedsOf(TwoUpgrades)

\* Three upgrades in two castles.
TwoCastles == <<"castle", "castle">>
ThreeUpgrades == {"swords", "armour", "wheel"}
OrdersThree == OrdersOf(ThreeUpgrades)
GoldThree == CostOf(ThreeUpgrades)
NeedsThree == NeedsOf(ThreeUpgrades)
=============================================================================
