------------------------- MODULE FactionUnitsProofs -------------------------
(***************************************************************************)
(* A faction's books are right for all types of units and upgrades, any    *)
(* costs and any number of orders.                                         *)
(*                                                                         *)
(* The account, the limits and the research of a faction are sums over its *)
(* units and over their commands.  The proofs follow what every operation  *)
(* adds to those sums and takes from them (the weights of ListLemmas); the *)
(* inductive invariant they need says which commands a queue may hold and  *)
(* what the building site of a command is.                                 *)
(***************************************************************************)
EXTENDS FactionUnits, ListLemmas

-----------------------------------------------------------------------------
(* Types. *)

Command == [class : {"build", "produce", "morph"}, what : UnitType, site : Nat]
           \cup [class : {"upgrade"}, what : Upgrade, site : Nat]

Skill == Class \cup {"beBuilt", "die", "gone"}

Unit == [type : UnitType, skill : Skill, alive : BOOLEAN, commands : Seq(Command), target : Nat]

Research == [type : Upgrade, state : {"upgrading", "upgraded"}]

Managers == {m \in [list : Seq(Research), index : [Upgrade -> Nat]] :
                \A u \in Upgrade : m.index[u] <= Len(m.list)}

\* The accounts whose store holds their gold.
Solvent == {a \in [gold : Nat, food : Int, store : Nat, upgrades : Managers] : a.gold <= a.store}

-----------------------------------------------------------------------------
(* The upgrade manager. *)

LEMMA RemoveAtFacts ==
    ASSUME NEW D, NEW q \in Seq(D), NEW k \in 0 .. Len(q)
    PROVE  /\ Manager!RemoveAt(q, k) \in Seq(D)
           /\ Len(Manager!RemoveAt(q, k)) = IF k = 0 THEN Len(q) ELSE Len(q) - 1
           /\ \A j \in 1 .. Len(Manager!RemoveAt(q, k)) :
                  Manager!RemoveAt(q, k)[j] = IF k = 0 \/ j < k THEN q[j] ELSE q[j + 1]
<1> DEFINE a == SubSeq(q, 1, k - 1)
           b == SubSeq(q, k + 1, Len(q))
<1>1. Manager!RemoveAt(q, k) = a \o b
  BY DEF Manager!RemoveAt
<1>2. k \in Nat /\ Len(q) \in Nat /\ k <= Len(q) /\ \A j \in 1 .. Len(q) : q[j] \in D
  OBVIOUS
<1>3. a \in Seq(D) /\ Len(a) = (IF k = 0 THEN 0 ELSE k - 1) /\ \A j \in 1 .. Len(a) : a[j] = q[j]
  <2>1. CASE k = 0
    BY <2>1
  <2>2. CASE k # 0
    BY <1>2, <2>2
  <2> QED
    BY <2>1, <2>2
<1>4. b \in Seq(D) /\ Len(b) = Len(q) - k /\ \A j \in 1 .. Len(b) : b[j] = q[k + j]
  BY <1>2
<1> HIDE DEF a, b
<1> DEFINE c == a \o b
<1>5. /\ c \in Seq(D) /\ Len(c) = Len(a) + Len(b)
      /\ \A j \in 1 .. Len(c) : c[j] = IF j <= Len(a) THEN a[j] ELSE b[j - Len(a)]
  <2>0. a \in Seq(D) /\ b \in Seq(D) /\ Len(a) \in Nat /\ Len(b) \in Nat
    BY <1>3, <1>4
  <2>1. c \in Seq(D) /\ Len(c) = Len(a) + Len(b)
    BY <2>0
  <2>2. \A j \in 1 .. Len(a) : c[j] = a[j]
    BY <2>0
  <2>3. \A j \in 1 .. Len(a) + Len(b) : c[j] = IF j <= Len(a) THEN a[j] ELSE b[j - Len(a)]
    BY <2>0
  <2> HIDE DEF c
  <2> QED
    BY <2>1, <2>3
<1> HIDE DEF c
<1>6. Len(c) = IF k = 0 THEN Len(q) ELSE Len(q) - 1
  BY <1>2, <1>3, <1>4, <1>5
<1>7. ASSUME NEW j \in 1 .. Len(c) PROVE c[j] = IF k = 0 \/ j < k THEN q[j] ELSE q[j + 1]
  <2>1. CASE k = 0
    <3>1. j > Len(a) /\ j - Len(a) = j /\ j \in 1 .. Len(b) /\ k + j = j
      BY <1>2, <1>3, <1>4, <1>6, <2>1
    <3> QED
      BY <1>4, <1>5, <2>1, <3>1
  <2>2. CASE k # 0 /\ j < k
    <3>1. j <= Len(a) /\ j \in 1 .. Len(a)
      BY <1>2, <1>3, <2>2
    <3> QED
      BY <1>3, <1>5, <2>2, <3>1
  <2>3. CASE k # 0 /\ ~(j < k)
    <3>1. ~(j <= Len(a)) /\ j - Len(a) \in 1 .. Len(b) /\ k + (j - Len(a)) = j + 1
      BY <1>2, <1>3, <1>4, <1>6, <2>3
    <3> QED
      BY <1>4, <1>5, <2>3, <3>1
  <2> QED
    BY <2>1, <2>2, <2>3
<1> QED
  BY <1>1, <1>5, <1>6, <1>7 DEF c

LEMMA CancelUpgradeType ==
    ASSUME NEW m \in Managers, NEW u \in Upgrade
    PROVE  Manager!CancelUpgrade(m, u) \in Managers
<1> DEFINE rest == Manager!RemoveAt(m.list, m.index[u])
           mv(k) == IF k > Len(rest) THEN k - 1 ELSE k
           new == [v \in Upgrade |-> IF v = u THEN 0 ELSE mv(m.index[v])]
<1>1. /\ m.list \in Seq(Research) /\ m.index \in [Upgrade -> Nat]
      /\ \A v \in Upgrade : m.index[v] \in 0 .. Len(m.list)
  BY DEF Managers
<1>2. /\ rest \in Seq(Research)
      /\ Len(rest) = IF m.index[u] = 0 THEN Len(m.list) ELSE Len(m.list) - 1
  BY <1>1, RemoveAtFacts
<1>3. Manager!CancelUpgrade(m, u) = [list |-> rest, index |-> new]
  BY DEF Manager!CancelUpgrade
<1> HIDE DEF rest
<1>4. Len(rest) \in Nat /\ Len(m.list) \in Nat /\ \A v \in Upgrade : m.index[v] \in Nat
  BY <1>1, <1>2
<1>5. ASSUME NEW v \in Upgrade PROVE new[v] \in Nat /\ new[v] <= Len(rest)
  <2>1. new[v] = IF v = u THEN 0 ELSE mv(m.index[v])
    OBVIOUS
  <2>2. m.index[v] \in Nat /\ m.index[v] <= Len(m.list) /\ Len(rest) >= Len(m.list) - 1
    BY <1>1, <1>2, <1>4
  <2> HIDE DEF new
  <2> QED
    BY <1>4, <2>1, <2>2
<1>6. new \in [Upgrade -> Nat]
  BY <1>5
<1> HIDE DEF new
<1>7. [list |-> rest, index |-> new] \in [list : Seq(Research), index : [Upgrade -> Nat]]
  BY <1>2, <1>6
<1> QED
  BY <1>3, <1>5, <1>7 DEF Managers

LEMMA StartUpgradeType ==
    ASSUME NEW m \in Managers, NEW u \in Upgrade
    PROVE  Manager!StartUpgrade(m, u) \in Managers
<1> DEFINE x == [type |-> u, state |-> "upgrading"]
           new == [m.index EXCEPT ![u] = Len(m.list) + 1]
<1>1. /\ m.list \in Seq(Research) /\ m.index \in [Upgrade -> Nat] /\ Len(m.list) \in Nat
      /\ \A v \in Upgrade : m.index[v] \in Nat /\ m.index[v] <= Len(m.list)
  BY DEF Managers
<1>2. x \in Research
  BY DEF Research
<1> HIDE DEF x
<1>3. Append(m.list, x) \in Seq(Research) /\ Len(Append(m.list, x)) = Len(m.list) + 1
  BY <1>1, <1>2, AppendFacts
<1>4. new \in [Upgrade -> Nat] /\ \A v \in Upgrade : new[v] <= Len(m.list) + 1
  BY <1>1
<1>5. Manager!StartUpgrade(m, u) = [list |-> Append(m.list, x), index |-> new]
  BY DEF Manager!StartUpgrade, x
<1> HIDE DEF new
<1> QED
  BY <1>3, <1>4, <1>5 DEF Managers

LEMMA FinishUpgradeType ==
    ASSUME NEW m \in Managers, NEW u \in Upgrade
    PROVE  Manager!FinishUpgrade(m, u) \in Managers
<1> DEFINE k == m.index[u]
           new == [m.list EXCEPT ![k].state = "upgraded"]
<1>1. m.list \in Seq(Research) /\ m.index \in [Upgrade -> Nat]
  BY DEF Managers
<1>2. \A r \in Research : [r EXCEPT !.state = "upgraded"] \in Research
  BY DEF Research
<1>3. new \in Seq(Research) /\ Len(new) = Len(m.list)
  <2>1. CASE k \notin DOMAIN m.list
    <3>1. new = m.list
      BY <1>1, <2>1
    <3> QED
      BY <1>1, <3>1
  <2>2. CASE k \in DOMAIN m.list
    <3>1. m.list[k] \in Research
      BY <1>1, <2>2
    <3>2. [m.list[k] EXCEPT !.state = "upgraded"] \in Research
      BY <1>2, <3>1
    <3> DEFINE x == [m.list[k] EXCEPT !.state = "upgraded"]
    <3>3. new = [m.list EXCEPT ![k] = x]
      OBVIOUS
    <3> HIDE DEF x, new
    <3>4. x \in Research
      BY <3>2 DEF x
    <3> QED
      BY <1>1, <2>2, <3>3, <3>4
  <2> QED
    BY <2>1, <2>2
<1>4. Manager!FinishUpgrade(m, u) = [m EXCEPT !.list = new]
  BY DEF Manager!FinishUpgrade
<1> HIDE DEF new
<1> QED
  BY <1>3, <1>4 DEF Managers


-----------------------------------------------------------------------------
(* The account. *)

LEMMA UsesAndYields ==
    /\ \A p \in UnitType \cup Upgrade : Uses(p) \in Nat /\ Yields(p) \in Nat /\ Gold[p] \in Nat
    /\ \A t \in UnitType : Food[t] \in Int /\ Food[t] = Uses(t) - Yields(t)
    /\ \A u \in Upgrade : Uses(u) = 0
    /\ \A t \in UnitType : Store[t] \in Nat
  BY CostAssumption, OrdersAssumption DEF Uses, Yields

LEMMA SolventFields ==
    ASSUME NEW a \in Solvent
    PROVE  /\ a.gold \in Nat /\ a.food \in Int /\ a.store \in Nat /\ a.upgrades \in Managers
           /\ a.gold <= a.store
           /\ a = [gold |-> a.gold, food |-> a.food, store |-> a.store, upgrades |-> a.upgrades]
  BY DEF Solvent

LEMMA GoldChanges ==
    ASSUME NEW a \in Solvent, NEW n \in Int, a.gold + n >= 0
    PROVE  /\ IncGold(a, n) \in Solvent
           /\ IncGold(a, n).food = a.food
           /\ IncGold(a, n).store = a.store
           /\ IncGold(a, n).upgrades = a.upgrades
<1>1. /\ a.gold \in Nat /\ a.food \in Int /\ a.store \in Nat /\ a.upgrades \in Managers
      /\ a = [gold |-> a.gold, food |-> a.food, store |-> a.store, upgrades |-> a.upgrades]
  BY SolventFields
<1>2. IncGold(a, n) = [gold |-> Least(a.gold + n, a.store), food |-> a.food, store |-> a.store,
                       upgrades |-> a.upgrades]
  BY <1>1 DEF IncGold
<1>3. Least(a.gold + n, a.store) \in Nat /\ Least(a.gold + n, a.store) <= a.store
  BY <1>1 DEF Least
<1> QED
  BY <1>1, <1>2, <1>3 DEF Solvent

LEMMA FoodChanges ==
    ASSUME NEW a \in Solvent, NEW n \in Int
    PROVE  /\ IncFood(a, n) \in Solvent
           /\ IncFood(a, n).food = a.food + n
           /\ IncFood(a, n).store = a.store
           /\ IncFood(a, n).upgrades = a.upgrades
<1>1. /\ a.gold \in Nat /\ a.food \in Int /\ a.store \in Nat /\ a.upgrades \in Managers
      /\ a.gold <= a.store
      /\ a = [gold |-> a.gold, food |-> a.food, store |-> a.store, upgrades |-> a.upgrades]
  BY SolventFields
<1>2. IncFood(a, n) = [gold |-> a.gold, food |-> a.food + n, store |-> a.store,
                       upgrades |-> a.upgrades]
  BY <1>1 DEF IncFood
<1> QED
  BY <1>1, <1>2 DEF Solvent

\* Costs are returned, and paid if they can be.
LEMMA CostsReturned ==
    ASSUME NEW a \in Solvent, NEW p \in UnitType \cup Upgrade
    PROVE  /\ DeApplyCosts(a, p) \in Solvent
           /\ DeApplyCosts(a, p).food = a.food + Uses(p)
           /\ DeApplyCosts(a, p).store = a.store
           /\ DeApplyCosts(a, p).upgrades = a.upgrades
<1> DEFINE b == IncGold(a, Gold[p])
<1>1. Uses(p) \in Int /\ Gold[p] \in Int /\ a.gold + Gold[p] >= 0
  BY UsesAndYields, SolventFields
<1>2. b \in Solvent /\ b.food = a.food /\ b.store = a.store /\ b.upgrades = a.upgrades
  BY <1>1, GoldChanges
<1>3. DeApplyCosts(a, p) = IncFood(b, Uses(p))
  BY DEF DeApplyCosts
<1> DEFINE n == Uses(p)
<1> HIDE DEF b, n
<1>4. /\ IncFood(b, n) \in Solvent /\ IncFood(b, n).food = b.food + n
      /\ IncFood(b, n).store = b.store /\ IncFood(b, n).upgrades = b.upgrades
  <2>1. n \in Int
    BY <1>1 DEF n
  <2> QED
    BY <1>2, <2>1, FoodChanges
<1> QED
  BY <1>2, <1>3, <1>4 DEF n

LEMMA CostsPaid ==
    ASSUME NEW a \in Solvent, NEW p \in UnitType \cup Upgrade, CheckCosts(a, p)
    PROVE  /\ ApplyCosts(a, p) \in Solvent
           /\ ApplyCosts(a, p).food = a.food - Uses(p)
           /\ ApplyCosts(a, p).store = a.store
           /\ ApplyCosts(a, p).upgrades = a.upgrades
<1> DEFINE b == IncGold(a, -Gold[p])
<1>1. /\ -Uses(p) \in Int /\ -Gold[p] \in Int /\ a.gold + -Gold[p] >= 0
      /\ a.food \in Int /\ a.food + -Uses(p) = a.food - Uses(p)
  BY UsesAndYields, SolventFields DEF CheckCosts
<1>2. b \in Solvent /\ b.food = a.food /\ b.store = a.store /\ b.upgrades = a.upgrades
  BY <1>1, GoldChanges
<1>3. ApplyCosts(a, p) = IncFood(b, -Uses(p))
  BY DEF ApplyCosts
<1> DEFINE n == -Uses(p)
<1> HIDE DEF b, n
<1>4. /\ IncFood(b, n) \in Solvent /\ IncFood(b, n).food = b.food + n
      /\ IncFood(b, n).store = b.store /\ IncFood(b, n).upgrades = b.upgrades
  <2>1. n \in Int
    BY <1>1 DEF n
  <2> QED
    BY <1>2, <2>1, FoodChanges
<1>5. b.food + n = a.food - Uses(p)
  BY <1>1, <1>2 DEF n
<1> QED
  BY <1>2, <1>3, <1>4, <1>5 DEF n

\* The store grows and shrinks, and the gold with it.
LEMMA StoreAdded ==
    ASSUME NEW a \in Solvent, NEW t \in UnitType
    PROVE  /\ AddStore(a, t) \in Solvent
           /\ AddStore(a, t).food = a.food
           /\ AddStore(a, t).store = a.store + Store[t]
           /\ AddStore(a, t).upgrades = a.upgrades
<1>1. /\ a.gold \in Nat /\ a.food \in Int /\ a.store \in Nat /\ a.upgrades \in Managers
      /\ a.gold <= a.store /\ Store[t] \in Nat
      /\ a = [gold |-> a.gold, food |-> a.food, store |-> a.store, upgrades |-> a.upgrades]
  BY SolventFields, UsesAndYields
<1>2. AddStore(a, t) = [gold |-> a.gold, food |-> a.food, store |-> a.store + Store[t],
                        upgrades |-> a.upgrades]
  BY <1>1 DEF AddStore
<1> QED
  BY <1>1, <1>2 DEF Solvent

LEMMA StoreRemoved ==
    ASSUME NEW a \in Solvent, NEW t \in UnitType, Store[t] <= a.store
    PROVE  /\ RemoveStore(a, t) \in Solvent
           /\ RemoveStore(a, t).food = a.food
           /\ RemoveStore(a, t).store = a.store - Store[t]
           /\ RemoveStore(a, t).upgrades = a.upgrades
<1>1. /\ a.gold \in Nat /\ a.food \in Int /\ a.store \in Nat /\ a.upgrades \in Managers
      /\ Store[t] \in Nat
      /\ a = [gold |-> a.gold, food |-> a.food, store |-> a.store, upgrades |-> a.upgrades]
  BY SolventFields, UsesAndYields
<1> DEFINE s == a.store - Store[t]
           b == [gold |-> a.gold, food |-> a.food, store |-> s, upgrades |-> a.upgrades]
<1>2. RemoveStore(a, t) = [gold |-> Least(a.gold + 0, s), food |-> a.food, store |-> s,
                           upgrades |-> a.upgrades]
  <2>1. [a EXCEPT !.store = @ - Store[t]] = b
    BY <1>1
  <2>2. RemoveStore(a, t) = IncGold(b, 0)
    BY <2>1 DEF RemoveStore
  <2>3. IncGold(b, 0) = [gold |-> Least(b.gold + 0, b.store), food |-> b.food, store |-> b.store,
                         upgrades |-> b.upgrades]
    BY DEF IncGold
  <2> QED
    BY <2>2, <2>3
<1>3. s \in Nat /\ Least(a.gold + 0, s) \in Nat /\ Least(a.gold + 0, s) <= s
  BY <1>1 DEF Least
<1> QED
  BY <1>1, <1>2, <1>3 DEF Solvent


-----------------------------------------------------------------------------
(* Commands undone. *)

LEMMA CommandFields ==
    ASSUME NEW c \in Command
    PROVE  /\ c.class \in {"build", "produce", "morph", "upgrade"}
           /\ c.what \in UnitType \cup Upgrade /\ c.site \in Nat
           /\ c.class = "upgrade" => c.what \in Upgrade
           /\ c.class # "upgrade" => c.what \in UnitType
  BY DEF Command

\* The food that undoing a command of u returns.
Refund(u) == [c \in Command |-> IF c.class = "build" /\ u.skill \in {"build", "die"}
                                   THEN 0 ELSE Uses(c.what)]

LEMMA RefundType == \A u : Refund(u) \in [Command -> Int]
<1> TAKE u
<1>1. \A c \in Command : Uses(c.what) \in Int
  BY CommandFields, UsesAndYields
<1> QED
  BY <1>1 DEF Refund

LEMMA CommandUndone ==
    ASSUME NEW a \in Solvent, NEW u, NEW c \in Command
    PROVE  /\ UndoCommand(a, u, c) \in Solvent
           /\ UndoCommand(a, u, c).food = a.food + Refund(u)[c]
           /\ UndoCommand(a, u, c).store = a.store
           /\ UndoCommand(a, u, c).upgrades
                = IF c.class = "upgrade" THEN Manager!CancelUpgrade(a.upgrades, c.what)
                  ELSE a.upgrades
<1> DEFINE b == DeApplyCosts(a, c.what)
<1>1. /\ c.class \in {"build", "produce", "morph", "upgrade"}
      /\ c.what \in UnitType \cup Upgrade
      /\ c.class = "upgrade" => c.what \in Upgrade
  BY CommandFields
<1>2. /\ b \in Solvent /\ b.food = a.food + Uses(c.what) /\ b.store = a.store
      /\ b.upgrades = a.upgrades
  BY <1>1, CostsReturned
<1>3. a.food \in Int /\ a.upgrades \in Managers /\ b.food \in Int /\ b.gold \in Nat /\ b.store \in Nat
      /\ b.gold <= b.store
      /\ b = [gold |-> b.gold, food |-> b.food, store |-> b.store, upgrades |-> b.upgrades]
  BY <1>2, SolventFields
<1> HIDE DEF b
<1>4. Refund(u)[c] = IF c.class = "build" /\ u.skill \in {"build", "die"} THEN 0 ELSE Uses(c.what)
  BY DEF Refund
<1>5. CASE c.class = "build" /\ u.skill \in {"build", "die"}
  <2>1. UndoCommand(a, u, c) = a
    BY <1>5 DEF UndoCommand
  <2> QED
    BY <1>3, <1>4, <1>5, <2>1
<1>6. CASE c.class # "upgrade" /\ ~(c.class = "build" /\ u.skill \in {"build", "die"})
  <2>1. UndoCommand(a, u, c) = b
    BY <1>1, <1>6 DEF UndoCommand, b
  <2> QED
    BY <1>2, <1>4, <1>6, <2>1
<1>7. CASE c.class = "upgrade"
  <2> DEFINE m == Manager!CancelUpgrade(b.upgrades, c.what)
  <2>1. UndoCommand(a, u, c) = [b EXCEPT !.upgrades = m]
    BY <1>7 DEF UndoCommand, b
  <2>2. m \in Managers
    BY <1>1, <1>2, <1>3, <1>7, CancelUpgradeType
  <2> HIDE DEF m
  <2>3. UndoCommand(a, u, c) = [gold |-> b.gold, food |-> b.food, store |-> b.store, upgrades |-> m]
    BY <1>3, <2>1
  <2>4. UndoCommand(a, u, c) \in Solvent
    BY <1>3, <2>2, <2>3 DEF Solvent
  <2> QED
    BY <1>2, <1>4, <1>7, <2>3, <2>4 DEF m
<1> QED
  BY <1>5, <1>6, <1>7

UndoSteps(f, a, u, q) ==
    /\ f \in [0 .. Len(q) -> Solvent]
    /\ f[0] = a
    /\ \A i \in 1 .. Len(q) : f[i] = UndoCommand(f[i - 1], u, q[i])

\* UndoCommands, step by step.
LEMMA UndoTrace ==
    ASSUME NEW a \in Solvent, NEW u, NEW q \in Seq(Command)
    PROVE  \E f : UndoSteps(f, a, u, q) /\ f[Len(q)] = UndoCommands(a, u, q)
<1> DEFINE n == Len(q)
           H == [i \in 1 .. n |-> [x \in Solvent |-> UndoCommand(x, u, q[i])]]
           P(it) == it = [s \in SUBSET (1 .. n) |->
                      IF s = {} THEN a ELSE UndoCommand(it[s \ {Max(s)}], u, q[Max(s)])]
           it0 == CHOOSE it : P(it)
<1>1. n \in Nat /\ DOMAIN q = 1 .. n /\ \A i \in 1 .. n : q[i] \in Command
  OBVIOUS
<1>2. \A x \in Solvent, c \in Command : UndoCommand(x, u, c) \in Solvent
  BY CommandUndone
<1>3. UndoCommands(a, u, q) = it0[1 .. n]
  BY <1>1 DEF UndoCommands, FoldLeft, MapThenFoldSet
<1> HIDE DEF n
<1>4. H \in [1 .. n -> [Solvent -> Solvent]]
  BY <1>1, <1>2
<1>5. \A s \in SUBSET (1 .. n) : s # {} => Max(s) \in 1 .. n
  BY <1>1, MaxOf
<1>6. \E it : P(it)
  <2> HIDE DEF H
  <2>1. PICK it : Folds(it, n, Solvent, a, H)
    BY <1>1, <1>4, FoldExists
  <2>2. \A s \in SUBSET (1 .. n) : it[s] = IF s = {} THEN a ELSE H[Max(s)][it[s \ {Max(s)}]]
    BY <2>1 DEF Folds
  <2>3. it \in [SUBSET (1 .. n) -> Solvent]
    BY <2>1 DEF Folds
  <2>4. \A s \in SUBSET (1 .. n) : s # {} =>
            H[Max(s)][it[s \ {Max(s)}]] = UndoCommand(it[s \ {Max(s)}], u, q[Max(s)])
    <3> TAKE s \in SUBSET (1 .. n)
    <3> HAVE s # {}
    <3>1. Max(s) \in 1 .. n /\ s \ {Max(s)} \in SUBSET (1 .. n)
      BY <1>5
    <3>2. it[s \ {Max(s)}] \in Solvent
      BY <2>3, <3>1
    <3> QED
      BY <3>1, <3>2 DEF H
  <2>5. P(it)
    BY <2>2, <2>3, <2>4
  <2> QED
    BY <2>5
<1>7. P(it0)
  <2> HIDE DEF P
  <2> QED
    BY <1>6
<1> HIDE DEF it0
<1>8. FoldsIn(it0, n, Solvent, a, H)
  <2>1. it0[{}] = a
    BY <1>7
  <2>2. ASSUME NEW s \in SUBSET (1 .. n), s # {}, it0[s \ {Max(s)}] \in Solvent
        PROVE  it0[s] = H[Max(s)][it0[s \ {Max(s)}]]
    BY <1>5, <1>7, <2>2
  <2> QED
    BY <2>1, <2>2 DEF FoldsIn
<1>9. PICK f : Steps(f, n, Solvent, a, H) /\ f[n] = it0[1 .. n]
  <2> HIDE DEF H, P
  <2> QED
    BY <1>1, <1>4, <1>8, FoldTrace
<1>10. f \in [0 .. n -> Solvent] /\ f[0] = a /\ \A i \in 1 .. n : f[i] = H[i][f[i - 1]]
  BY <1>9 DEF Steps
<1>11. \A i \in 1 .. n : f[i] = UndoCommand(f[i - 1], u, q[i])
  <2> TAKE i \in 1 .. n
  <2>1. i - 1 \in 0 .. n
    BY <1>1
  <2>2. f[i - 1] \in Solvent
    BY <1>10, <2>1
  <2> QED
    BY <1>10, <2>2
<1> QED
  BY <1>3, <1>9, <1>10, <1>11 DEF UndoSteps, n


\* What undoing commands leaves of the account.
LEMMA CommandsUndone ==
    ASSUME NEW a \in Solvent, NEW u, NEW q \in Seq(Command)
    PROVE  /\ UndoCommands(a, u, q) \in Solvent
           /\ UndoCommands(a, u, q).food = a.food + Weight(Refund(u), q)
           /\ UndoCommands(a, u, q).store = a.store
<1> DEFINE n == Len(q)
           h == Refund(u)
<1>1. n \in Nat /\ \A i \in 1 .. n : q[i] \in Command
  OBVIOUS
<1>2. h \in [Command -> Int]
  BY RefundType
<1> HIDE DEF h
<1>3. /\ Weight(h, q) = WeightTo(h, q, n) /\ WeightTo(h, q, 0) = 0
      /\ \A k \in 0 .. n : WeightTo(h, q, k) \in Int
      /\ \A k \in 1 .. n : WeightTo(h, q, k) = h[q[k]] + WeightTo(h, q, k - 1)
  BY <1>2, WeightSteps
<1>4. PICK f : UndoSteps(f, a, u, q) /\ f[n] = UndoCommands(a, u, q)
  BY UndoTrace
<1>5. /\ f \in [0 .. n -> Solvent] /\ f[0] = a
      /\ \A i \in 1 .. n : f[i] = UndoCommand(f[i - 1], u, q[i])
  BY <1>4 DEF UndoSteps
<1> HIDE DEF n
<1> DEFINE T == {i \in Nat : i <= n => f[i].food = a.food + WeightTo(h, q, i) /\ f[i].store = a.store}
<1>6. 0 \in T
  <2>1. a.food \in Int
    BY SolventFields
  <2> QED
    BY <1>3, <1>5, <2>1
<1>7. ASSUME NEW i \in Nat, i \in T PROVE i + 1 \in T
  <2> SUFFICES ASSUME i + 1 <= n
               PROVE  /\ f[i + 1].food = a.food + WeightTo(h, q, i + 1)
                      /\ f[i + 1].store = a.store
    OBVIOUS
  <2>1. i + 1 \in 1 .. n /\ (i + 1) - 1 = i /\ i \in 0 .. n
    BY <1>1
  <2>2. f[i + 1] = UndoCommand(f[i], u, q[i + 1]) /\ f[i] \in Solvent /\ q[i + 1] \in Command
    BY <1>1, <1>5, <2>1
  <2>3. f[i + 1].food = f[i].food + h[q[i + 1]] /\ f[i + 1].store = f[i].store
    BY <2>2, CommandUndone DEF h
  <2>4. f[i].food = a.food + WeightTo(h, q, i) /\ f[i].store = a.store
    BY <1>7, <2>1
  <2>5. /\ WeightTo(h, q, i + 1) = h[q[i + 1]] + WeightTo(h, q, i)
        /\ WeightTo(h, q, i) \in Int /\ h[q[i + 1]] \in Int /\ a.food \in Int
    BY <1>2, <1>3, <2>1, <2>2, SolventFields
  <2> QED
    BY <2>3, <2>4, <2>5
<1> HIDE DEF T
<1>8. Nat \subseteq T
  BY <1>6, <1>7, Induction
<1>9. f[n].food = a.food + WeightTo(h, q, n) /\ f[n].store = a.store /\ f[n] \in Solvent
  <2>1. n \in 0 .. n
    BY <1>1
  <2> QED
    BY <1>1, <1>5, <1>8, <2>1 DEF T
<1> QED
  BY <1>3, <1>4, <1>9 DEF h

-----------------------------------------------------------------------------
(* Orders. *)

LEMMA Classes ==
    ASSUME NEW t \in UnitType, NEW o \in Orders[t]
    PROVE  /\ o.class \in {"stop", "build", "produce", "morph", "upgrade"}
           /\ o.class # "stop" =>
                 /\ [class |-> o.class, what |-> o.what, site |-> None] \in Command
                 /\ o = [class |-> o.class, what |-> o.what]
           /\ o.class = "upgrade" => o.what \in Upgrade
           /\ o.class \in {"build", "produce", "morph"} => o.what \in UnitType
  BY OrdersAssumption DEF Command, None

LEMMA Priorities ==
    ASSUME NEW c, c.class \in {"stop", "build", "produce", "morph", "upgrade"}, NEW q \in BOOLEAN
    PROVE  /\ c.class \in {"produce", "upgrade"} => Priority(c) = 15
           /\ c.class \in {"build", "morph"} => Priority(c) = 10
           /\ c.class = "stop" => Priority(c) = 100000
           /\ IsQueueAppendable(c) <=> c.class \in {"build", "produce", "upgrade"}
           /\ Queueability[c.class] = "always" <=> c.class \in {"produce", "upgrade"}
           /\ IsQueuable(c, q) <=> \/ c.class \in {"produce", "upgrade"}
                                   \/ c.class \in {"build", "morph"} /\ q
<1>1. /\ Queueability["build"] = "request" /\ Queueability["produce"] = "always"
      /\ Queueability["upgrade"] = "always" /\ Queueability["morph"] = "last"
      /\ Queueability["stop"] = "never"
  BY DEF Queueability
<1>2. Queueability[c.class] = "always" <=> c.class \in {"produce", "upgrade"}
  BY <1>1
<1>3. Queueability[c.class] \in {"request", "last"} <=> c.class \in {"build", "morph"}
  BY <1>1
<1>4. IsQueueAppendable(c) <=> c.class \in {"build", "produce", "upgrade"}
  BY <1>1 DEF IsQueueAppendable
<1>5. IsQueuable(c, q) <=> \/ c.class \in {"produce", "upgrade"}
                           \/ c.class \in {"build", "morph"} /\ q
  BY <1>2, <1>3 DEF IsQueuable
<1>6. /\ c.class \in {"produce", "upgrade"} => Priority(c) = 15
      /\ c.class \in {"build", "morph"} => Priority(c) = 10
      /\ c.class = "stop" => Priority(c) = 100000
  BY DEF Priority
<1> QED
  BY <1>2, <1>4, <1>5, <1>6


\* r holds commands of q in their order: its first may be q's first, its last q's last.
PartOf(r, q) ==
    \A k \in 1 .. Len(r) :
        \E j \in 1 .. Len(q) : r[k] = q[j] /\ (j = 1 => k = 1) /\ (j = Len(q) => k = Len(r))

LEMMA AmongWithin ==
    ASSUME NEW q \in Seq(Command), NEW S
    PROVE  Among(q, S) \in Seq(Command) /\ PartOf(Among(q, S), q)
<1> DEFINE r == Among(q, S)
<1>1. /\ r \in Seq(Command)
      /\ \E g : Keeps(g, r, q, S)
  BY AmongKeeps
<1>2. PICK g : Keeps(g, r, q, S)
  BY <1>1
<1>3. DOMAIN r = 1 .. Len(r) /\ DOMAIN q = 1 .. Len(q) /\ Len(r) \in Nat /\ Len(q) \in Nat
  BY <1>1
<1> HIDE DEF r
<1>4. /\ g \in [1 .. Len(r) -> 1 .. Len(q)]
      /\ \A i \in 1 .. Len(r) : r[i] = q[g[i]]
      /\ \A i, j \in 1 .. Len(r) : i < j => g[i] < g[j]
  BY <1>2, <1>3 DEF Keeps
<1>5. ASSUME NEW k \in 1 .. Len(r)
      PROVE  (g[k] = 1 => k = 1) /\ (g[k] = Len(q) => k = Len(r))
  <2>1. ASSUME k # 1 PROVE g[k] # 1
    <3>1. 1 \in 1 .. Len(r) /\ 1 < k
      BY <1>3, <2>1
    <3>2. g[1] < g[k] /\ g[1] \in 1 .. Len(q)
      BY <1>4, <3>1
    <3> QED
      BY <1>3, <1>4, <3>2
  <2>2. ASSUME k # Len(r) PROVE g[k] # Len(q)
    <3>0. k \in Nat /\ 1 <= k /\ k <= Len(r) /\ Len(r) \in Nat
      BY <1>3
    <3>1. k + 1 \in 1 .. Len(r) /\ k < k + 1
      BY <2>2, <3>0
    <3>2. g[k] < g[k + 1] /\ g[k + 1] \in 1 .. Len(q)
      BY <1>4, <3>1
    <3> QED
      BY <1>3, <1>4, <3>2
  <2> QED
    BY <2>1, <2>2
<1>6. PartOf(r, q)
  BY <1>4, <1>5 DEF PartOf
<1> QED
  BY <1>1, <1>6 DEF r

\* What an order outranks and what it does not.
LEMMA Outranking ==
    ASSUME NEW u, u.commands \in Seq(Command), NEW p \in BOOLEAN,
           NEW o, o.class \in {"stop", "build", "produce", "morph", "upgrade"}
    PROVE  LET out  == Outranked(u, o, p)
               rest == NotOutranked(u, o, p)
           IN  /\ out \in Seq(Command) /\ rest \in Seq(Command) /\ PartOf(rest, u.commands)
               /\ \A h \in [Command -> Int] :
                      Weight(h, out) + Weight(h, rest) = Weight(h, u.commands)
               /\ o.class # "stop" => \A k \in 1 .. Len(out) : out[k].class # "upgrade"
<1> DEFINE q == u.commands
           out == Outranked(u, o, p)
           rest == NotOutranked(u, o, p)
<1>1. CASE Queueability[o.class] = "always" /\ p
  <2>1. out = <<>> /\ rest = q
    BY <1>1 DEF Outranked, NotOutranked
  <2>2. out \in Seq(Command) /\ Len(out) = 0
    BY <2>1
  <2>3. PartOf(q, q)
    BY DEF PartOf
  <2>4. ASSUME NEW h \in [Command -> Int]
        PROVE  Weight(h, out) + Weight(h, rest) = Weight(h, q)
    <3>1. Weight(h, <<>>) = 0
      BY WeightOfEmpty
    <3>2. Weight(h, q) \in Int
      BY WeightSteps
    <3> QED
      BY <2>1, <3>1, <3>2
  <2> QED
    BY <2>1, <2>2, <2>3, <2>4
<1>2. CASE ~(Queueability[o.class] = "always" /\ p)
  <2> DEFINE S == {c \in Range(q) : Priority(c) < Priority(o)}
             R == {c \in Range(q) : Priority(c) >= Priority(o)}
  <2>1. out = Among(q, S) /\ rest = Among(q, R)
    BY <1>2 DEF Outranked, NotOutranked
  <2>2. \A c \in Command : Priority(c) \in Int
    BY CommandFields, Priorities
  <2>3. Priority(o) \in Int /\ (o.class # "stop" => Priority(o) <= 15)
    BY Priorities
  <2>4. ASSUME NEW k \in 1 .. Len(q)
        PROVE  q[k] \in S <=> q[k] \notin R
    <3>1. q[k] \in Range(q) /\ q[k] \in Command
      BY DEF Range
    <3> QED
      BY <2>2, <2>3, <3>1
  <2> HIDE DEF out, rest
  <2>5. out \in Seq(Command) /\ Range(out) = Range(q) \cap S
    <3> HIDE DEF S
    <3> QED
      BY <2>1, AmongRange
  <2>6. rest \in Seq(Command) /\ PartOf(rest, q)
    <3> HIDE DEF R
    <3> QED
      BY <2>1, AmongWithin
  <2>7. ASSUME NEW h \in [Command -> Int]
        PROVE  Weight(h, out) + Weight(h, rest) = Weight(h, q)
    <3> HIDE DEF S, R
    <3> QED
      BY <2>1, <2>4, WeightAmong
  <2>8. ASSUME o.class # "stop", NEW k \in 1 .. Len(out) PROVE out[k].class # "upgrade"
    <3>1. out[k] \in Range(out) /\ out[k] \in Command
      BY <2>5 DEF Range
    <3>2. out[k] \in S
      BY <2>5, <3>1
    <3>3. Priority(out[k]) < Priority(o) /\ Priority(out[k]) \in Int
      BY <2>2, <3>1, <3>2
    <3>4. out[k].class = "upgrade" => Priority(out[k]) = 15
      BY Priorities
    <3> QED
      BY <2>3, <2>8, <3>3, <3>4
  <2> QED
    BY <2>5, <2>6, <2>7, <2>8 DEF out, rest
<1> QED
  BY <1>1, <1>2


LEMMA FrontWithin ==
    ASSUME NEW q \in Seq(Command), NEW r \in Seq(Command), PartOf(r, q), r # <<>>
    PROVE  \A k \in 1 .. Len(Front(r)) :
               \E j \in 1 .. Len(q) : Front(r)[k] = q[j] /\ (j = 1 => k = 1) /\ j # Len(q)
<1>1. /\ Len(r) \in Nat \ {0} /\ Len(Front(r)) = Len(r) - 1
      /\ \A k \in 1 .. Len(r) - 1 : Front(r)[k] = r[k]
  BY FrontFacts
<1> TAKE k \in 1 .. Len(Front(r))
<1>2. k \in 1 .. Len(r) /\ k # Len(r) /\ Front(r)[k] = r[k]
  BY <1>1
<1> QED
  BY <1>2 DEF PartOf

\* What an order replaces is undone and what it keeps stays; a morph is not kept, so
\* that the order itself may be the last of the queue.
LEMMA ReplacedAndKept ==
    ASSUME NEW u, u.commands \in Seq(Command), NEW p \in BOOLEAN,
           NEW o, o.class \in {"stop", "build", "produce", "morph", "upgrade"},
           \A k \in 1 .. Len(u.commands) :
               u.commands[k].class = "morph" => k = Len(u.commands)
    PROVE  LET kept == Kept(u, o, p)
               gone == Replaced(u, o, p)
           IN  /\ kept \in Seq(Command) /\ gone \in Seq(Command)
               /\ \A h \in [Command -> Int] :
                      Weight(h, gone) + Weight(h, kept) = Weight(h, u.commands)
               /\ \A k \in 1 .. Len(kept) :
                      /\ kept[k].class # "morph"
                      /\ \E j \in 1 .. Len(u.commands) :
                             kept[k] = u.commands[j] /\ (j = 1 => k = 1)
               /\ o.class = "upgrade" => \A k \in 1 .. Len(gone) : gone[k].class # "upgrade"
<1> DEFINE q == u.commands
           out == Outranked(u, o, p)
           rest == NotOutranked(u, o, p)
           kept == Kept(u, o, p)
           gone == Replaced(u, o, p)
<1>1. /\ out \in Seq(Command) /\ rest \in Seq(Command) /\ PartOf(rest, q)
      /\ \A h \in [Command -> Int] : Weight(h, out) + Weight(h, rest) = Weight(h, q)
      /\ o.class # "stop" => \A k \in 1 .. Len(out) : out[k].class # "upgrade"
  BY Outranking
<1>2. IsQueuable(o, p) <=> o.class \in {"produce", "upgrade"} \/ (o.class \in {"build", "morph"} /\ p)
  BY Priorities
<1> DEFINE Goal ==
        /\ kept \in Seq(Command) /\ gone \in Seq(Command)
        /\ \A h \in [Command -> Int] : Weight(h, gone) + Weight(h, kept) = Weight(h, q)
        /\ \A k \in 1 .. Len(kept) :
               /\ kept[k].class # "morph"
               /\ \E j \in 1 .. Len(q) : kept[k] = q[j] /\ (j = 1 => k = 1)
        /\ o.class = "upgrade" => \A k \in 1 .. Len(gone) : gone[k].class # "upgrade"
<1> SUFFICES Goal
  OBVIOUS
<1>3. CASE ~IsQueuable(o, p)
  <2>1. kept = <<>> /\ gone = Reverse(q)
    BY <1>3 DEF Kept, Replaced
  <2>2. kept \in Seq(Command) /\ Len(kept) = 0
    BY <2>1
  <2> DEFINE all == q
  <2>3. all \in Seq(Command)
    OBVIOUS
  <2>4. ASSUME NEW h \in [Command -> Int]
        PROVE  /\ gone \in Seq(Command)
               /\ Weight(h, gone) + Weight(h, kept) = Weight(h, q)
    <3>1. Weight(h, <<>>) = 0
      BY WeightOfEmpty
    <3>2. gone \in Seq(Command) /\ Weight(h, gone) = Weight(h, q)
      BY <2>1, <2>3, WeightReverse
    <3>3. Weight(h, gone) \in Int
      BY <3>2, WeightSteps
    <3> QED
      BY <2>1, <3>1, <3>2, <3>3
  <2>5. [c \in Command |-> 0] \in [Command -> Int]
    OBVIOUS
  <2> HIDE DEF kept, gone
  <2>6. gone \in Seq(Command)
    BY <2>4, <2>5
  <2>7. o.class # "upgrade"
    BY <1>2, <1>3
  <2> QED
    BY <2>2, <2>4, <2>6, <2>7 DEF Goal
<1>4. CASE IsQueuable(o, p) /\ rest # <<>> /\ ~IsQueueAppendable(Last(rest))
  <2>1. kept = Front(rest) /\ gone = Append(out, Last(rest))
    BY <1>4 DEF Kept, Replaced
  <2> HIDE DEF out, rest, kept, gone
  <2>2. Last(rest) \in Command /\ Front(rest) \in Seq(Command)
    BY <1>1, <1>4, FrontFacts
  <2>3. gone \in Seq(Command) /\ Len(gone) = Len(out) + 1 /\ gone[Len(out) + 1] = Last(rest)
        /\ \A k \in 1 .. Len(out) : gone[k] = out[k]
    BY <1>1, <2>1, <2>2
  <2>4. Last(rest).class = "morph"
    <3>1. Last(rest).class \in {"build", "produce", "morph", "upgrade"}
      BY <2>2, CommandFields
    <3>2. IsQueueAppendable(Last(rest)) <=> Last(rest).class \in {"build", "produce", "upgrade"}
      BY <3>1, Priorities
    <3> QED
      BY <1>4, <3>1, <3>2
  <2>5. ASSUME NEW h \in [Command -> Int]
        PROVE  Weight(h, gone) + Weight(h, kept) = Weight(h, q)
    <3>0. out \in Seq(Command)
      BY <1>1
    <3>1. Weight(h, gone) = Weight(h, out) + h[Last(rest)]
      BY <2>1, <2>2, <3>0, WeightAppend
    <3>2. Weight(h, rest) = Weight(h, kept) + h[Last(rest)]
      BY <1>1, <1>4, <2>1, WeightFront
    <3>3. Weight(h, out) + Weight(h, rest) = Weight(h, q)
      BY <1>1
    <3>4. Weight(h, out) \in Int
      BY <1>1, WeightSteps
    <3>5. Weight(h, kept) \in Int
      BY <2>1, <2>2, WeightSteps
    <3>6. h[Last(rest)] \in Int
      BY <2>2
    <3> QED
      BY <3>1, <3>2, <3>3, <3>4, <3>5, <3>6
  <2>6. ASSUME NEW k \in 1 .. Len(kept)
        PROVE  /\ kept[k].class # "morph"
               /\ \E j \in 1 .. Len(q) : kept[k] = q[j] /\ (j = 1 => k = 1)
    <3>1. k \in 1 .. Len(Front(rest))
      BY <2>1
    <3>2. \E j \in 1 .. Len(q) : Front(rest)[k] = q[j] /\ (j = 1 => k = 1) /\ j # Len(q)
      BY <1>1, <1>4, <3>1, FrontWithin
    <3> QED
      BY <2>1, <3>2
  <2>7. ASSUME o.class = "upgrade", NEW k \in 1 .. Len(gone) PROVE gone[k].class # "upgrade"
    <3>1. CASE k = Len(out) + 1
      BY <2>3, <2>4, <3>1
    <3>2. CASE k # Len(out) + 1
      <4>1. k \in 1 .. Len(out)
        <5>1. Len(out) \in Nat
          BY <1>1
        <5> QED
          BY <2>3, <3>2, <5>1
      <4> QED
        BY <1>1, <2>3, <2>7, <4>1
    <3> QED
      BY <3>1, <3>2
  <2> QED
    BY <2>1, <2>2, <2>3, <2>5, <2>6, <2>7 DEF Goal
<1>5. CASE IsQueuable(o, p) /\ ~(rest # <<>> /\ ~IsQueueAppendable(Last(rest)))
  <2>1. kept = rest /\ gone = out
    BY <1>5 DEF Kept, Replaced
  <2> HIDE DEF out, rest, kept, gone
  <2>2. ASSUME NEW k \in 1 .. Len(kept)
        PROVE  /\ kept[k].class # "morph"
               /\ \E j \in 1 .. Len(q) : kept[k] = q[j] /\ (j = 1 => k = 1)
    <3>1. PICK j \in 1 .. Len(q) : /\ rest[k] = q[j] /\ (j = 1 => k = 1)
                                   /\ (j = Len(q) => k = Len(rest))
      BY <1>1, <2>1 DEF PartOf
    <3>2. ASSUME rest[k].class = "morph" PROVE FALSE
      <4>1. j = Len(q) /\ k = Len(rest)
        BY <3>1, <3>2
      <4>2. rest # <<>> /\ Last(rest) = rest[k]
        BY <1>1, <2>1, <4>1 DEF Last
      <4>3. ~IsQueueAppendable(Last(rest))
        BY <3>2, <4>2, Priorities
      <4> QED
        BY <1>5, <4>2, <4>3
    <3> QED
      BY <2>1, <3>1, <3>2
  <2>3. o.class = "upgrade" => \A k \in 1 .. Len(gone) : gone[k].class # "upgrade"
    BY <1>1, <2>1
  <2> QED
    BY <1>1, <2>1, <2>2, <2>3 DEF Goal
<1> HIDE DEF out, rest, kept, gone
<1> QED
  BY <1>3, <1>4, <1>5


-----------------------------------------------------------------------------
(* The inductive invariant: types and queues.  A command is one its unit may be      *)
(* given; a morph is the last of its queue; only the build command at the head of a  *)
(* queue has a building site, and its unit works there.                              *)

CommandOK(u, k, n) ==
    LET c == u.commands[k]
    IN  /\ c.site <= n
        /\ [class |-> c.class, what |-> c.what] \in Orders[u.type]
        /\ c.class = "morph" => k = Len(u.commands)
        /\ c.site # None => k = 1 /\ c.class = "build" /\ u.target = c.site

QueueOK(u, n) ==
    /\ u.target <= n
    /\ Len(u.commands) <= MaxQueue
    /\ u.skill \in {"beBuilt", "die", "gone"} => u.commands = <<>>
    /\ u.skill \in {"die", "gone"} => ~u.alive
    /\ \A k \in 1 .. Len(u.commands) : CommandOK(u, k, n)

Sane ==
    /\ units \in Seq(Unit)
    /\ Len(units) <= MaxUnits
    /\ Account \in Solvent
    /\ \A i \in Id : QueueOK(units[i], Len(units))

\* A unit becomes x; a unit becomes x and the unit y is there.
Replaces(i, x) ==
    /\ i \in Id /\ x \in Unit /\ QueueOK(x, Len(units))
    /\ units' = [units EXCEPT ![i] = x]

Adds(i, x, y) ==
    /\ i \in Id /\ Len(units) < MaxUnits
    /\ x \in Unit /\ QueueOK(x, Len(units) + 1)
    /\ y \in Unit /\ QueueOK(y, Len(units) + 1)
    /\ units' = Append([units EXCEPT ![i] = x], y)

LEMMA AccountSet ==
    ASSUME NEW a \in Solvent, SetAccount(a)
    PROVE  Account' = a
<1>1. a = [gold |-> a.gold, food |-> a.food, store |-> a.store, upgrades |-> a.upgrades]
  BY SolventFields
<1> QED
  BY <1>1 DEF SetAccount, Account

LEMMA UnitFields ==
    ASSUME NEW u \in Unit
    PROVE  /\ u.type \in UnitType /\ u.skill \in Skill /\ u.alive \in BOOLEAN
           /\ u.commands \in Seq(Command) /\ u.target \in Nat
           /\ \A k \in 1 .. Len(u.commands) : u.commands[k] \in Command
           /\ u = [type |-> u.type, skill |-> u.skill, alive |-> u.alive,
                   commands |-> u.commands, target |-> u.target]
  BY DEF Unit

LEMMA MoreUnits ==
    ASSUME NEW u \in Unit, NEW n \in Nat, QueueOK(u, n)
    PROVE  QueueOK(u, n + 1)
<1>1. u.target \in Nat /\ \A k \in 1 .. Len(u.commands) : u.commands[k].site \in Nat
  BY UnitFields, CommandFields
<1>2. u.target <= n + 1
  BY <1>1 DEF QueueOK
<1>3. \A k \in 1 .. Len(u.commands) : CommandOK(u, k, n + 1)
  BY <1>1 DEF QueueOK, CommandOK
<1> QED
  BY <1>2, <1>3 DEF QueueOK

\* What becomes of the list of units, and of whatever the units add up to.
LEMMA UnitReplaced ==
    ASSUME Sane, NEW i, NEW x, Replaces(i, x), Account' \in Solvent
    PROVE  /\ Sane'
           /\ Len(units') = Len(units) /\ units'[i] = x /\ units[i] \in Unit
           /\ \A j \in Id : j # i => units'[j] = units[j]
           /\ \A h \in [Unit -> Int] :
                  Weight(h, units') = Weight(h, units) - h[units[i]] + h[x]
<1>1. /\ units \in Seq(Unit) /\ Len(units) \in Nat /\ i \in 1 .. Len(units) /\ x \in Unit
      /\ units' = [units EXCEPT ![i] = x]
  BY DEF Sane, Replaces, Id
<1>2. /\ units' \in Seq(Unit) /\ Len(units') = Len(units) /\ units'[i] = x /\ units[i] \in Unit
      /\ \A j \in 1 .. Len(units) : j # i => units'[j] = units[j]
  BY <1>1
<1>3. \A j \in 1 .. Len(units) : QueueOK(units'[j], Len(units))
  BY <1>2 DEF Sane, Replaces, Id
<1>4. Sane'
  BY <1>2, <1>3 DEF Sane, Id
<1>5. ASSUME NEW h \in [Unit -> Int]
      PROVE  Weight(h, units') = Weight(h, units) - h[units[i]] + h[x]
  <2>1. Weight(h, [units EXCEPT ![i] = x]) = Weight(h, units) - h[units[i]] + h[x]
    BY <1>1, WeightChange
  <2> QED
    BY <1>1, <2>1
<1> QED
  BY <1>2, <1>4, <1>5 DEF Id

LEMMA UnitAdded ==
    ASSUME Sane, NEW i, NEW x, NEW y, Adds(i, x, y), Account' \in Solvent
    PROVE  /\ Sane'
           /\ Len(units') = Len(units) + 1 /\ units[i] \in Unit
           /\ units'[i] = x /\ units'[Len(units) + 1] = y
           /\ \A j \in Id : j # i => units'[j] = units[j]
           /\ \A h \in [Unit -> Int] :
                  Weight(h, units') = Weight(h, units) - h[units[i]] + h[x] + h[y]
<1> DEFINE us == [units EXCEPT ![i] = x]
           n == Len(units)
<1>1. /\ units \in Seq(Unit) /\ n \in Nat /\ i \in 1 .. n /\ x \in Unit /\ y \in Unit
      /\ units' = Append(us, y) /\ n < MaxUnits /\ MaxUnits \in Nat
  BY StartingAssumption DEF Sane, Adds, Id
<1>2. /\ us \in Seq(Unit) /\ Len(us) = n /\ us[i] = x /\ units[i] \in Unit
      /\ \A j \in 1 .. n : j # i => us[j] = units[j]
  BY <1>1
<1> HIDE DEF us
<1>3. /\ units' \in Seq(Unit) /\ Len(units') = n + 1 /\ units'[n + 1] = y
      /\ \A j \in 1 .. n : units'[j] = us[j]
  <2>1. us \in Seq(Unit) /\ y \in Unit /\ Len(us) = n /\ units' = Append(us, y)
    BY <1>1, <1>2
  <2> HIDE DEF n
  <2>2. /\ Append(us, y) \in Seq(Unit) /\ Len(Append(us, y)) = Len(us) + 1
        /\ DOMAIN us = 1 .. Len(us)
        /\ \A j \in DOMAIN us : Append(us, y)[j] = us[j]
        /\ Append(us, y)[Len(us) + 1] = y
    BY <2>1, AppendFacts
  <2> QED
    BY <2>1, <2>2
<1>4. ASSUME NEW j \in 1 .. n + 1 PROVE QueueOK(units'[j], n + 1)
  <2>1. CASE j = n + 1
    BY <1>3, <2>1 DEF Adds
  <2>2. CASE j = i
    BY <1>1, <1>2, <1>3, <2>2 DEF Adds
  <2>3. CASE j # i /\ j # n + 1
    <3>1. j \in 1 .. n
      BY <1>1, <2>3
    <3>2. units'[j] = units[j] /\ units[j] \in Unit /\ QueueOK(units[j], n)
      BY <1>1, <1>2, <1>3, <2>3, <3>1 DEF Sane, Id
    <3> QED
      BY <1>1, <3>2, MoreUnits
  <2> QED
    BY <2>1, <2>2, <2>3
<1>5. Sane'
  BY <1>1, <1>3, <1>4 DEF Sane, Id
<1>6. ASSUME NEW h \in [Unit -> Int]
      PROVE  Weight(h, units') = Weight(h, units) - h[units[i]] + h[x] + h[y]
  <2>2. Weight(h, us) = Weight(h, units) - h[units[i]] + h[x]
    BY <1>1, WeightChange DEF us
  <2>3. Weight(h, Append(us, y)) = Weight(h, us) + h[y]
    BY <1>1, <1>2, WeightAppend
  <2> QED
    BY <1>1, <1>2, <2>2, <2>3
<1>7. units'[i] = x /\ \A j \in 1 .. n : j # i => units'[j] = units[j]
  BY <1>1, <1>2, <1>3
<1> QED
  BY <1>2, <1>3, <1>5, <1>6, <1>7 DEF Id


LEMMA UnitOf ==
    ASSUME Sane, NEW i \in Id
    PROVE  /\ units[i] \in Unit /\ QueueOK(units[i], Len(units))
           /\ units \in Seq(Unit) /\ Len(units) \in Nat /\ Account \in Solvent
  BY DEF Sane, Id

\* u with the commands q and the skill s.
Doing(u, q, s) == [u EXCEPT !.commands = q, !.skill = s]

LEMMA DoingFields ==
    ASSUME NEW u \in Unit, NEW q \in Seq(Command), NEW s \in Skill
    PROVE  /\ Doing(u, q, s) \in Unit
           /\ Doing(u, q, s).type = u.type /\ Doing(u, q, s).alive = u.alive
           /\ Doing(u, q, s).target = u.target
           /\ Doing(u, q, s).commands = q /\ Doing(u, q, s).skill = s
  BY DEF Unit, Doing

\* A queue that has only commands of the old one, in their order, is as good.
LEMMA ShorterQueue ==
    ASSUME NEW u \in Unit, NEW n \in Nat, QueueOK(u, n), NEW q \in Seq(Command),
           NEW s \in Skill,
           Len(q) <= MaxQueue,
           \A k \in 1 .. Len(q) :
               /\ q[k].class = "morph" => k = Len(q)
               /\ \E j \in 1 .. Len(u.commands) : q[k] = u.commands[j] /\ (j = 1 => k = 1),
           s \in {"beBuilt", "die", "gone"} => q = <<>>,
           s \in {"die", "gone"} => ~u.alive
    PROVE  Doing(u, q, s) \in Unit /\ QueueOK(Doing(u, q, s), n)
<1> DEFINE x == Doing(u, q, s)
<1>1. /\ x \in Unit /\ x.type = u.type /\ x.alive = u.alive /\ x.target = u.target
      /\ x.commands = q /\ x.skill = s
  BY DoingFields
<1> HIDE DEF x
<1>2. ASSUME NEW k \in 1 .. Len(q) PROVE CommandOK(x, k, n)
  <2>1. PICK j \in 1 .. Len(u.commands) : q[k] = u.commands[j] /\ (j = 1 => k = 1)
    OBVIOUS
  <2>2. CommandOK(u, j, n)
    BY <2>1 DEF QueueOK
  <2>3. q[k].class = "morph" => k = Len(q)
    OBVIOUS
  <2> QED
    BY <1>1, <2>1, <2>2, <2>3 DEF CommandOK
<1>3. QueueOK(x, n)
  BY <1>1, <1>2 DEF QueueOK
<1> QED
  BY <1>1, <1>3 DEF x

LEMMA SameQueue ==
    ASSUME NEW u \in Unit, NEW n \in Nat, QueueOK(u, n), NEW s \in Skill,
           s \in {"beBuilt", "die", "gone"} => u.commands = <<>>,
           s \in {"die", "gone"} => ~u.alive
    PROVE  Doing(u, u.commands, s) \in Unit /\ QueueOK(Doing(u, u.commands, s), n)
<1> DEFINE q == u.commands
<1>1. q \in Seq(Command)
  BY UnitFields
<1>2. ASSUME NEW k \in 1 .. Len(q)
      PROVE  /\ q[k].class = "morph" => k = Len(q)
             /\ \E j \in 1 .. Len(u.commands) : q[k] = u.commands[j] /\ (j = 1 => k = 1)
  BY DEF QueueOK, CommandOK
<1>3. Len(q) <= MaxQueue
  BY DEF QueueOK
<1> QED
  BY <1>1, <1>2, <1>3, ShorterQueue

LEMMA FrontQueue ==
    ASSUME NEW u \in Unit, NEW n \in Nat, QueueOK(u, n), u.commands # <<>>,
           NEW s \in {u.skill, "stop"}
    PROVE  Doing(u, Front(u.commands), s) \in Unit /\ QueueOK(Doing(u, Front(u.commands), s), n)
<1> DEFINE q == Front(u.commands)
<1>1. /\ u.commands \in Seq(Command) /\ s \in Skill
      /\ s \notin {"beBuilt", "die", "gone"}
  BY UnitFields DEF QueueOK, Skill, Class
<1>2. /\ q \in Seq(Command) /\ Len(q) = Len(u.commands) - 1 /\ Len(u.commands) \in Nat \ {0}
      /\ \A k \in 1 .. Len(u.commands) - 1 : q[k] = u.commands[k]
  BY <1>1, FrontFacts
<1> HIDE DEF q
<1>3. ASSUME NEW k \in 1 .. Len(q)
      PROVE  /\ q[k].class = "morph" => k = Len(q)
             /\ \E j \in 1 .. Len(u.commands) : q[k] = u.commands[j] /\ (j = 1 => k = 1)
  <2>1. k \in 1 .. Len(u.commands) /\ q[k] = u.commands[k] /\ k # Len(u.commands)
    BY <1>2
  <2> QED
    BY <2>1 DEF QueueOK, CommandOK
<1>4. Len(q) <= MaxQueue
  BY <1>2, StartingAssumption DEF QueueOK
<1>5. Doing(u, q, s) \in Unit /\ QueueOK(Doing(u, q, s), n)
  BY <1>1, <1>2, <1>3, <1>4, ShorterQueue
<1> QED
  BY <1>5 DEF q

LEMMA TailQueue ==
    ASSUME NEW u \in Unit, NEW n \in Nat, QueueOK(u, n), u.commands # <<>>
    PROVE  /\ Doing(u, Tail(u.commands), "stop") \in Unit
           /\ QueueOK(Doing(u, Tail(u.commands), "stop"), n)
           /\ Finished(u) = Doing(u, Tail(u.commands), "stop")
<1> DEFINE q == Tail(u.commands)
<1>1. u.commands \in Seq(Command) /\ "stop" \in Skill
  BY UnitFields DEF Skill, Class
<1>2. /\ q \in Seq(Command) /\ Len(q) = Len(u.commands) - 1 /\ Len(u.commands) \in Nat \ {0}
      /\ \A k \in 1 .. Len(q) : q[k] = u.commands[k + 1]
  BY <1>1
<1>3. Finished(u) = Doing(u, q, "stop")
  BY DEF Finished, Doing, Unit
<1> HIDE DEF q
<1>4. ASSUME NEW k \in 1 .. Len(q)
      PROVE  /\ q[k].class = "morph" => k = Len(q)
             /\ \E j \in 1 .. Len(u.commands) : q[k] = u.commands[j] /\ (j = 1 => k = 1)
  <2>1. k + 1 \in 1 .. Len(u.commands) /\ q[k] = u.commands[k + 1] /\ k + 1 # 1
    BY <1>2
  <2>2. q[k].class = "morph" => k + 1 = Len(u.commands)
    BY <2>1 DEF QueueOK, CommandOK
  <2>3. k + 1 = Len(u.commands) => k = Len(q)
    BY <1>2
  <2> QED
    BY <2>1, <2>2, <2>3
<1>5. Len(q) <= MaxQueue
  BY <1>2, StartingAssumption DEF QueueOK
<1>6. Doing(u, q, "stop") \in Unit /\ QueueOK(Doing(u, q, "stop"), n)
  BY <1>1, <1>2, <1>4, <1>5, ShorterQueue
<1> QED
  BY <1>3, <1>6 DEF q

LEMMA EmptyQueue ==
    ASSUME NEW u \in Unit, NEW n \in Nat, QueueOK(u, n), NEW s \in Skill,
           s \in {"die", "gone"} => ~u.alive
    PROVE  Doing(u, <<>>, s) \in Unit /\ QueueOK(Doing(u, <<>>, s), n)
<1> DEFINE q == <<>>
<1>1. q \in Seq(Command) /\ Len(q) = 0 /\ Len(q) <= MaxQueue /\ q = <<>>
  BY StartingAssumption
<1>2. \A k \in 1 .. 0 : FALSE
  OBVIOUS
<1> HIDE DEF q
<1>3. Doing(u, q, s) \in Unit /\ QueueOK(Doing(u, q, s), n)
  BY <1>1, <1>2, ShorterQueue
<1> QED
  BY <1>3 DEF q


\* A command not begun may follow commands that are no morphs.
LEMMA LongerQueue ==
    ASSUME NEW u \in Unit, NEW n \in Nat, QueueOK(u, n), NEW q \in Seq(Command),
           Len(q) < MaxQueue, u.skill \notin {"beBuilt", "die", "gone"},
           \A k \in 1 .. Len(q) :
               /\ q[k].class # "morph"
               /\ \E j \in 1 .. Len(u.commands) : q[k] = u.commands[j] /\ (j = 1 => k = 1),
           NEW c \in Command, c.site = None,
           [class |-> c.class, what |-> c.what] \in Orders[u.type]
    PROVE  /\ Doing(u, Append(q, c), u.skill) \in Unit
           /\ QueueOK(Doing(u, Append(q, c), u.skill), n)
<1> DEFINE r == Append(q, c)
           x == Doing(u, r, u.skill)
<1>1. /\ r \in Seq(Command) /\ Len(r) = Len(q) + 1 /\ r[Len(q) + 1] = c /\ Len(q) \in Nat
      /\ \A k \in 1 .. Len(q) : r[k] = q[k]
  BY AppendFacts
<1>2. u.skill \in Skill
  BY UnitFields
<1> HIDE DEF r
<1>3. /\ x \in Unit /\ x.type = u.type /\ x.alive = u.alive /\ x.target = u.target
      /\ x.commands = r /\ x.skill = u.skill
  BY <1>1, <1>2, DoingFields
<1> HIDE DEF x
<1>4. ASSUME NEW k \in 1 .. Len(r) PROVE CommandOK(x, k, n)
  <2>1. CASE k = Len(q) + 1
    <3>1. x.commands[k] = c /\ Len(x.commands) = k
      BY <1>1, <1>3, <2>1
    <3> QED
      BY <1>3, <3>1 DEF CommandOK, None
  <2>2. CASE k # Len(q) + 1
    <3>0. k \in 1 .. Len(q)
      BY <1>1, <2>2
    <3>1. PICK j \in 1 .. Len(u.commands) : q[k] = u.commands[j] /\ (j = 1 => k = 1)
      BY <3>0
    <3>2. CommandOK(u, j, n)
      BY <3>1 DEF QueueOK
    <3>3. x.commands[k] = u.commands[j] /\ u.commands[j].class # "morph"
      BY <1>1, <1>3, <3>0, <3>1
    <3> QED
      BY <1>3, <3>1, <3>2, <3>3 DEF CommandOK
  <2> QED
    BY <2>1, <2>2
<1>5. Len(r) <= MaxQueue
  BY <1>1, StartingAssumption
<1>6. QueueOK(x, n)
  BY <1>3, <1>4, <1>5 DEF QueueOK
<1> QED
  BY <1>3, <1>6 DEF x, r

-----------------------------------------------------------------------------
(* What every step does to the list of units and to the account. *)

\* The account is a; no command is undone.
LEMMA AccountSame ==
    ASSUME Sane, UNCHANGED <<gold, food, store, upgrades>>
    PROVE  Account' \in Solvent
  BY DEF Sane, Account

LEMMA AccountFields ==
    ASSUME Sane
    PROVE  /\ Account \in Solvent /\ Account.gold = gold /\ Account.food = food
           /\ Account.store = store /\ Account.upgrades = upgrades
           /\ food \in Int /\ store \in Nat /\ upgrades \in Managers
<1>1. Account \in Solvent
  BY DEF Sane
<1>2. /\ Account.gold = gold /\ Account.food = food /\ Account.store = store
      /\ Account.upgrades = upgrades
  BY DEF Account
<1> QED
  BY <1>1, <1>2, SolventFields

LEMMA GiveCommandStep ==
    ASSUME Sane, NEW i \in Id, NEW o \in Orders[units[i].type], NEW p \in BOOLEAN,
           GiveCommand(i, o, p)
    PROVE  LET u    == units[i]
               gone == Replaced(u, o, p)
               kept == Kept(u, o, p)
               a    == UndoCommands(Account, u, gone)
               us   == [units EXCEPT ![i].commands = kept]
               new  == [class |-> o.class, what |-> o.what, site |-> None]
               q    == IF o.class # "stop" /\ CheckCommand(a, us, i, o)
                          THEN Append(kept, new) ELSE kept
           IN  /\ gone \in Seq(Command) /\ kept \in Seq(Command)
               /\ \A h \in [Command -> Int] :
                      Weight(h, gone) + Weight(h, kept) = Weight(h, u.commands)
               /\ o.class = "upgrade" => \A k \in 1 .. Len(gone) : gone[k].class # "upgrade"
               /\ OnMap(u) /\ a \in Solvent
               /\ Replaces(i, Doing(u, q, u.skill))
               /\ Account' \in Solvent
               /\ store' = store
               /\ food' = food + Weight(Refund(u), gone)
                          - (IF o.class # "stop" /\ CheckCommand(a, us, i, o)
                                THEN Uses(o.what) ELSE 0)
               /\ upgrades' = IF o.class = "upgrade" /\ CheckCommand(a, us, i, o)
                                 THEN Manager!StartUpgrade(a.upgrades, o.what)
                                 ELSE a.upgrades
<1> DEFINE u    == units[i]
           gone == Replaced(u, o, p)
           kept == Kept(u, o, p)
           a    == UndoCommands(Account, u, gone)
           us   == [units EXCEPT ![i].commands = kept]
           new  == [class |-> o.class, what |-> o.what, site |-> None]
           ok   == CheckCommand(a, us, i, o)
           q    == IF o.class # "stop" /\ ok THEN Append(kept, new) ELSE kept
<1> SUFFICES /\ gone \in Seq(Command) /\ kept \in Seq(Command)
             /\ \A h \in [Command -> Int] :
                    Weight(h, gone) + Weight(h, kept) = Weight(h, u.commands)
             /\ o.class = "upgrade" => \A k \in 1 .. Len(gone) : gone[k].class # "upgrade"
             /\ OnMap(u) /\ a \in Solvent
             /\ Replaces(i, Doing(u, q, u.skill))
             /\ Account' \in Solvent
             /\ store' = store
             /\ food' = food + Weight(Refund(u), gone)
                        - (IF o.class # "stop" /\ ok THEN Uses(o.what) ELSE 0)
             /\ upgrades' = IF o.class = "upgrade" /\ ok
                               THEN Manager!StartUpgrade(a.upgrades, o.what)
                               ELSE a.upgrades
  OBVIOUS
<1>1. /\ u \in Unit /\ QueueOK(u, Len(units)) /\ units \in Seq(Unit) /\ Len(units) \in Nat
      /\ Account \in Solvent /\ Account.food = food /\ Account.store = store /\ food \in Int
  BY UnitOf, AccountFields
<1>2. /\ u.type \in UnitType /\ u.skill \in Skill /\ u.alive \in BOOLEAN
      /\ u.commands \in Seq(Command)
  BY <1>1, UnitFields
<1>3. /\ o.class \in {"stop", "build", "produce", "morph", "upgrade"}
      /\ o.class # "stop" => new \in Command /\ o = [class |-> o.class, what |-> o.what]
      /\ o.class = "upgrade" => o.what \in Upgrade
      /\ o.class \in {"build", "produce", "morph"} => o.what \in UnitType
  BY <1>2, Classes
<1>4. /\ kept \in Seq(Command) /\ gone \in Seq(Command)
      /\ \A k \in 1 .. Len(kept) :
             /\ kept[k].class # "morph"
             /\ \E j \in 1 .. Len(u.commands) : kept[k] = u.commands[j] /\ (j = 1 => k = 1)
      /\ \A h \in [Command -> Int] : Weight(h, gone) + Weight(h, kept) = Weight(h, u.commands)
      /\ o.class = "upgrade" => \A k \in 1 .. Len(gone) : gone[k].class # "upgrade"
  <2>1. \A k \in 1 .. Len(u.commands) : u.commands[k].class = "morph" => k = Len(u.commands)
    BY <1>1 DEF QueueOK, CommandOK
  <2>2. /\ u.commands \in Seq(Command)
        /\ o.class \in {"stop", "build", "produce", "morph", "upgrade"}
    BY <1>2, <1>3
  <2> HIDE DEF u, a, us, new, ok, q
  <2> QED
    BY <2>1, <2>2, ReplacedAndKept
<1>5. /\ a \in Solvent /\ a.food = food + Weight(Refund(u), gone) /\ a.store = store
  BY <1>1, <1>4, CommandsUndone
<1>6. /\ OnMap(u) /\ Len(us[i].commands) < MaxQueue
      /\ IF ok
            THEN /\ SetAccount(ApplyCommand(a, o))
                 /\ units' = [us EXCEPT ![i].commands =
                                  IF o.class = "stop" THEN @ ELSE Append(@, new)]
            ELSE units' = us /\ SetAccount(a)
  BY DEF GiveCommand
<1>7. us[i].commands = kept /\ units' = [units EXCEPT ![i] = Doing(u, q, u.skill)]
  <2>1. us[i].commands = kept
    BY <1>1 DEF Unit, Id
  <2>2. \A r : [u EXCEPT !.commands = r] = Doing(u, r, u.skill)
    BY <1>1 DEF Unit, Doing
  <2>3. us = [units EXCEPT ![i] = Doing(u, kept, u.skill)]
    BY <2>2
  <2>4. \A r : [us EXCEPT ![i].commands = r] = [units EXCEPT ![i] = Doing(u, r, u.skill)]
    BY <2>2, <2>3 DEF Doing
  <2> HIDE DEF us, kept, a, new, gone
  <2> QED
    BY <1>6, <2>1, <2>3, <2>4
<1> HIDE DEF us, kept, a, new, gone
<1>8. Len(kept) < MaxQueue
  BY <1>6, <1>7
<1>9. CASE o.class # "stop" /\ ok
  <2>1. IsOperative(us[i]) /\ CheckCosts(a, o.what)
    BY <1>9 DEF CheckCommand
  <2>2. u.skill \notin {"beBuilt", "die", "gone"}
    <3>1. us[i].skill = u.skill
      BY <1>1 DEF us, Unit, Id
    <3> QED
      BY <1>6, <2>1, <3>1 DEF IsOperative, IsBeingBuilt, OnMap
  <2>3. /\ new.site = None /\ [class |-> new.class, what |-> new.what] = o
        /\ o.what \in UnitType \cup Upgrade
    BY <1>3, <1>9 DEF new
  <2>4. q = Append(kept, new)
    BY <1>9
  <2>5. /\ Doing(u, Append(kept, new), u.skill) \in Unit
        /\ QueueOK(Doing(u, Append(kept, new), u.skill), Len(units))
    <3> HIDE DEF u, ok
    <3>1. [class |-> new.class, what |-> new.what] \in Orders[u.type]
      BY <2>3 DEF u
    <3>2. new \in Command
      BY <1>3, <1>9
    <3> QED
      BY <1>1, <1>4, <1>8, <2>2, <2>3, <3>1, <3>2, LongerQueue
  <2>6. /\ ApplyCosts(a, o.what) \in Solvent
        /\ ApplyCosts(a, o.what).food = a.food - Uses(o.what)
        /\ ApplyCosts(a, o.what).store = a.store
        /\ ApplyCosts(a, o.what).upgrades = a.upgrades
    BY <1>5, <2>1, <2>3, CostsPaid
  <2> DEFINE b == ApplyCommand(a, o)
  <2>7. /\ b \in Solvent /\ b.food = a.food - Uses(o.what) /\ b.store = a.store
        /\ b.upgrades = IF o.class = "upgrade" THEN Manager!StartUpgrade(a.upgrades, o.what)
                        ELSE a.upgrades
    <3> DEFINE c == ApplyCosts(a, o.what)
    <3>1. /\ c \in Solvent /\ c.food = a.food - Uses(o.what) /\ c.store = a.store
          /\ c.upgrades = a.upgrades
      BY <2>6
    <3>2. CASE o.class # "upgrade"
      <4>1. b = c
        BY <1>3, <1>9, <3>2 DEF ApplyCommand
      <4> QED
        BY <3>1, <3>2, <4>1
    <3>3. CASE o.class = "upgrade"
      <4> DEFINE m == Manager!StartUpgrade(c.upgrades, o.what)
      <4>1. b = [c EXCEPT !.upgrades = m]
        BY <1>3, <1>9, <3>3 DEF ApplyCommand
      <4> HIDE DEF b, c
      <4>2. /\ c.gold \in Nat /\ c.food \in Int /\ c.store \in Nat /\ c.upgrades \in Managers
            /\ c.gold <= c.store
            /\ c = [gold |-> c.gold, food |-> c.food, store |-> c.store, upgrades |-> c.upgrades]
        BY <3>1, SolventFields
      <4>3. m \in Managers
        BY <1>3, <3>3, <4>2, StartUpgradeType
      <4> HIDE DEF m
      <4>4. b = [gold |-> c.gold, food |-> c.food, store |-> c.store, upgrades |-> m]
        BY <4>1, <4>2
      <4>5. b \in Solvent
        BY <4>2, <4>3, <4>4 DEF Solvent
      <4> QED
        BY <3>1, <3>3, <4>4, <4>5 DEF m
    <3> QED
      BY <3>2, <3>3
  <2>8. SetAccount(b)
    BY <1>6, <1>9
  <2> HIDE DEF b
  <2>9. Account' = b /\ store' = b.store /\ food' = b.food /\ upgrades' = b.upgrades
    BY <2>7, <2>8, AccountSet DEF SetAccount
  <2>10. Replaces(i, Doing(u, q, u.skill))
    BY <1>7, <2>4, <2>5 DEF Replaces
  <2> HIDE DEF q, u, ok
  <2>11. food' = food + Weight(Refund(u), gone)
                 - (IF o.class # "stop" /\ ok THEN Uses(o.what) ELSE 0)
    <3> DEFINE d == IF o.class # "stop" /\ ok THEN Uses(o.what) ELSE 0
    <3>1. d = Uses(o.what)
      BY <1>9
    <3>2. food' = (food + Weight(Refund(u), gone)) - Uses(o.what)
      BY <1>5, <2>7, <2>9
    <3> HIDE DEF d
    <3>3. food' = food + Weight(Refund(u), gone) - d
      <4>1. Weight(Refund(u), gone) \in Int
        BY <1>4, RefundType, WeightSteps
      <4>2. Uses(o.what) \in Int
        BY <2>3, UsesAndYields
      <4> QED
        BY <1>1, <3>1, <3>2, <4>1, <4>2
    <3> QED
      BY <3>3 DEF d
  <2>12. upgrades' = IF o.class = "upgrade" /\ ok
                        THEN Manager!StartUpgrade(a.upgrades, o.what)
                        ELSE a.upgrades
    BY <1>9, <2>7, <2>9
  <2> QED
    BY <1>4, <1>5, <1>6, <2>7, <2>9, <2>10, <2>11, <2>12
<1>10. CASE o.class = "stop" \/ ~ok
  <2>1. SetAccount(a)
    BY <1>6, <1>10 DEF ApplyCommand
  <2>2. Account' = a /\ store' = a.store /\ food' = a.food /\ upgrades' = a.upgrades
    BY <1>5, <2>1, AccountSet DEF SetAccount
  <2>3. q = kept
    BY <1>10
  <2>4. Doing(u, kept, u.skill) \in Unit /\ QueueOK(Doing(u, kept, u.skill), Len(units))
    <3>1. u.skill \in {"beBuilt", "die", "gone"} => u.commands = <<>>
      BY <1>1 DEF QueueOK
    <3>2. u.commands = <<>> => kept = <<>>
      <4>1. u.commands = <<>> => Len(kept) = 0
        BY <1>4
      <4> QED
        BY <1>4, <4>1
    <3>3. u.skill \in {"die", "gone"} => ~u.alive
      BY <1>1 DEF QueueOK
    <3>4. Len(kept) <= MaxQueue
      BY <1>4, <1>8, StartingAssumption
    <3>5. ASSUME NEW k \in 1 .. Len(kept)
          PROVE  /\ kept[k].class = "morph" => k = Len(kept)
                 /\ \E j \in 1 .. Len(u.commands) : kept[k] = u.commands[j] /\ (j = 1 => k = 1)
      BY <1>4
    <3> HIDE DEF u
    <3> QED
      BY <1>1, <1>2, <1>4, <3>1, <3>2, <3>3, <3>4, <3>5, ShorterQueue
  <2>5. Replaces(i, Doing(u, q, u.skill))
    BY <1>7, <2>3, <2>4 DEF Replaces
  <2>6. food + Weight(Refund(u), gone) - 0 = food + Weight(Refund(u), gone)
    <3>1. Weight(Refund(u), gone) \in Int
      BY <1>4, RefundType, WeightSteps
    <3> QED
      BY <1>1, <3>1
  <2>7. ~(o.class = "upgrade" /\ ok) /\ ~(o.class # "stop" /\ ok)
    BY <1>10
  <2> HIDE DEF q, u, ok
  <2> QED
    BY <1>4, <1>5, <1>6, <2>2, <2>5, <2>6, <2>7
<1> QED
  BY <1>9, <1>10


LEMMA HeadOf ==
    ASSUME Sane, NEW i \in Id, NEW class, Has(i, class)
    PROVE  /\ units[i].commands # <<>> /\ units[i].commands \in Seq(Command)
           /\ 1 \in 1 .. Len(units[i].commands) /\ units[i].commands[1] = Current(i)
           /\ Current(i) \in Command /\ Current(i).class = class
           /\ Current(i).class = "upgrade" => Current(i).what \in Upgrade
           /\ Current(i).class # "upgrade" => Current(i).what \in UnitType
           /\ units[i].skill \notin {"beBuilt", "die", "gone"}
           /\ [class |-> class, what |-> Current(i).what] \in Orders[units[i].type]
<1>1. units[i] \in Unit /\ QueueOK(units[i], Len(units))
  BY UnitOf
<1>2. units[i].commands # <<>> /\ Current(i) = Head(units[i].commands) /\ Current(i).class = class
  BY DEF Has, Current
<1>3. units[i].commands \in Seq(Command)
  BY <1>1, UnitFields
<1>4. /\ 1 \in 1 .. Len(units[i].commands) /\ units[i].commands[1] = Current(i)
      /\ Current(i) \in Command
  BY <1>2, <1>3
<1>5. [class |-> class, what |-> Current(i).what] \in Orders[units[i].type]
  BY <1>1, <1>2, <1>4 DEF QueueOK, CommandOK
<1>6. units[i].skill \notin {"beBuilt", "die", "gone"}
  BY <1>1, <1>2 DEF QueueOK
<1> QED
  BY <1>2, <1>3, <1>4, <1>5, <1>6, CommandFields

LEMMA CancelLastStep ==
    ASSUME Sane, NEW i \in Id, NEW s \in {units[i].skill, "stop"}, CancelLast(i, s)
    PROVE  LET u == units[i]
               c == Last(u.commands)
           IN  /\ u.commands # <<>> /\ u.commands \in Seq(Command) /\ c \in Command
               /\ u.skill \notin {"beBuilt", "die", "gone"}
               /\ Replaces(i, Doing(u, Front(u.commands), s))
               /\ Account' \in Solvent
               /\ store' = store
               /\ food' = food + Refund(u)[c]
               /\ upgrades' = IF c.class = "upgrade" THEN Manager!CancelUpgrade(upgrades, c.what)
                              ELSE upgrades
<1> DEFINE u == units[i]
           c == Last(u.commands)
           a == UndoCommand(Account, u, c)
<1>1. /\ u \in Unit /\ QueueOK(u, Len(units)) /\ units \in Seq(Unit) /\ Len(units) \in Nat
  BY UnitOf
<1>2. /\ u.commands # <<>> /\ SetAccount(a)
      /\ units' = [units EXCEPT ![i].commands = Front(@), ![i].skill = s]
  BY DEF CancelLast
<1>3. u.commands \in Seq(Command) /\ c \in Command
  BY <1>1, <1>2, UnitFields, FrontFacts
<1>4. u.skill \notin {"beBuilt", "die", "gone"}
  BY <1>1, <1>2 DEF QueueOK
<1>5. units' = [units EXCEPT ![i] = Doing(u, Front(u.commands), s)]
  BY <1>1, <1>2 DEF Doing, Unit, Id
<1>6. /\ Account \in Solvent /\ Account.food = food /\ Account.store = store
      /\ Account.upgrades = upgrades
  BY AccountFields
<1>7. /\ a \in Solvent /\ a.food = food + Refund(u)[c] /\ a.store = store
      /\ a.upgrades = IF c.class = "upgrade" THEN Manager!CancelUpgrade(upgrades, c.what)
                      ELSE upgrades
  <2> HIDE DEF u, c
  <2>1. /\ a \in Solvent /\ a.food = Account.food + Refund(u)[c] /\ a.store = Account.store
        /\ a.upgrades = IF c.class = "upgrade"
                           THEN Manager!CancelUpgrade(Account.upgrades, c.what)
                           ELSE Account.upgrades
    BY <1>3, <1>6, CommandUndone
  <2> HIDE DEF a
  <2> QED
    BY <1>6, <2>1
<1> HIDE DEF a
<1>8. Account' = a /\ store' = a.store /\ food' = a.food /\ upgrades' = a.upgrades
  BY <1>2, <1>7, AccountSet DEF SetAccount
<1>9. Replaces(i, Doing(u, Front(u.commands), s))
  <2>1. /\ Doing(u, Front(u.commands), s) \in Unit
        /\ QueueOK(Doing(u, Front(u.commands), s), Len(units))
    BY <1>1, <1>2, FrontQueue
  <2> QED
    BY <1>5, <2>1 DEF Replaces
<1> QED
  BY <1>2, <1>3, <1>4, <1>7, <1>8, <1>9

LEMMA FinishedStep ==
    ASSUME Sane, NEW i \in Id, NEW class, Has(i, class),
           units' = [units EXCEPT ![i] = Finished(@)]
    PROVE  Replaces(i, Doing(units[i], Tail(units[i].commands), "stop"))
<1>1. units[i] \in Unit /\ QueueOK(units[i], Len(units)) /\ Len(units) \in Nat
  BY UnitOf
<1>2. units[i].commands # <<>>
  BY HeadOf
<1>3. /\ Doing(units[i], Tail(units[i].commands), "stop") \in Unit
      /\ QueueOK(Doing(units[i], Tail(units[i].commands), "stop"), Len(units))
      /\ Finished(units[i]) = Doing(units[i], Tail(units[i].commands), "stop")
  BY <1>1, <1>2, TailQueue
<1>4. units' = [units EXCEPT ![i] = Finished(units[i])]
  OBVIOUS
<1> QED
  BY <1>3, <1>4 DEF Replaces

LEMMA SkillStep ==
    ASSUME Sane, NEW i \in Id, NEW s \in Skill, units' = [units EXCEPT ![i].skill = s],
           s \in {"beBuilt", "die", "gone"} => units[i].commands = <<>>,
           s \in {"die", "gone"} => ~units[i].alive
    PROVE  Replaces(i, Doing(units[i], units[i].commands, s))
<1>1. units[i] \in Unit /\ QueueOK(units[i], Len(units)) /\ Len(units) \in Nat
  BY UnitOf
<1>2. /\ Doing(units[i], units[i].commands, s) \in Unit
      /\ QueueOK(Doing(units[i], units[i].commands, s), Len(units))
  BY <1>1, SameQueue
<1>3. Doing(units[i], units[i].commands, s) = [units[i] EXCEPT !.skill = s]
  BY <1>1 DEF Unit, Doing
<1>4. units' = [units EXCEPT ![i] = Doing(units[i], units[i].commands, s)]
  BY <1>3
<1> QED
  BY <1>2, <1>4 DEF Replaces

LEMMA NewUnitFits ==
    ASSUME NEW t \in UnitType, NEW s \in {"stop", "beBuilt"}, NEW n \in Nat
    PROVE  NewUnit(t, s) \in Unit /\ QueueOK(NewUnit(t, s), n)
<1>1. <<>> \in Seq(Command) /\ Len(<<>>) = 0 /\ 0 <= MaxQueue
  BY StartingAssumption
<1>2. NewUnit(t, s) \in Unit
  BY <1>1 DEF NewUnit, Unit, Skill, Class, None
<1> QED
  BY <1>1, <1>2 DEF NewUnit, QueueOK, None


-----------------------------------------------------------------------------
(* The store, and the steps that change it. *)

StoreHeld == [u \in Unit |-> IF OnMap(u) /\ ~IsBeingBuilt(u) THEN Store[u.type] ELSE 0]

StoreOK == store = Weight(StoreHeld, units)

LEMMA StoreHeldType ==
    /\ StoreHeld \in [Unit -> Int]
    /\ \A u \in Unit : StoreHeld[u] >= 0 /\ StoreHeld[u] \in Int
<1>1. \A u \in Unit : Store[u.type] \in Nat
  BY UnitFields, UsesAndYields
<1> QED
  BY <1>1 DEF StoreHeld

LEMMA StoreCovers ==
    ASSUME Sane, StoreOK, NEW i \in Id, OnMap(units[i]), ~IsBeingBuilt(units[i])
    PROVE  Store[units[i].type] <= store
<1>1. units \in Seq(Unit) /\ i \in 1 .. Len(units) /\ units[i] \in Unit
  BY UnitOf DEF Id
<1>2. \A k \in 1 .. Len(units) : StoreHeld[units[k]] >= 0
  BY <1>1, StoreHeldType
<1>3. StoreHeld[units[i]] <= Weight(StoreHeld, units)
  BY <1>1, <1>2, StoreHeldType, WeightNotNegative
<1>4. StoreHeld[units[i]] = Store[units[i].type]
  BY <1>1 DEF StoreHeld
<1> QED
  BY <1>3, <1>4 DEF StoreOK

\* A unit that is born: its store and its static production.
LEMMA BornAccount ==
    ASSUME NEW a \in Solvent, NEW t \in UnitType
    PROVE  LET b == ApplyStaticProduction(AddStore(a, t), t)
           IN  /\ b \in Solvent /\ b.store = a.store + Store[t]
               /\ b.food = a.food + Yields(t) /\ b.upgrades = a.upgrades
<1> DEFINE c == AddStore(a, t)
<1>1. c \in Solvent /\ c.store = a.store + Store[t] /\ c.food = a.food /\ c.upgrades = a.upgrades
  BY StoreAdded
<1>2. Yields(t) \in Int
  BY UsesAndYields
<1> HIDE DEF c
<1>3. /\ IncFood(c, Yields(t)) \in Solvent /\ IncFood(c, Yields(t)).food = c.food + Yields(t)
      /\ IncFood(c, Yields(t)).store = c.store /\ IncFood(c, Yields(t)).upgrades = c.upgrades
  BY <1>1, <1>2, FoodChanges
<1> QED
  BY <1>1, <1>3 DEF ApplyStaticProduction, c

LEMMA BornStep ==
    ASSUME Sane, NEW t \in UnitType,
           SetAccount(ApplyStaticProduction(AddStore(Account, t), t))
    PROVE  /\ Account' \in Solvent
           /\ store' = store + Store[t] /\ food' = food + Yields(t) /\ upgrades' = upgrades
<1> DEFINE b == ApplyStaticProduction(AddStore(Account, t), t)
<1>1. /\ Account \in Solvent /\ Account.food = food /\ Account.store = store
      /\ Account.upgrades = upgrades
  BY AccountFields
<1>2. /\ b \in Solvent /\ b.store = store + Store[t]
      /\ b.food = food + Yields(t) /\ b.upgrades = upgrades
  BY <1>1, BornAccount
<1> HIDE DEF b
<1>3. SetAccount(b)
  BY DEF b
<1>4. Account' = b /\ store' = b.store /\ food' = b.food /\ upgrades' = b.upgrades
  BY <1>2, <1>3, AccountSet DEF SetAccount
<1> QED
  BY <1>2, <1>4

LEMMA FinishProductionStep ==
    ASSUME Sane, NEW i \in Id, FinishProduction(i)
    PROVE  LET u == units[i]
               t == Current(i).what
           IN  /\ Has(i, "produce") /\ t \in UnitType
               /\ Adds(i, Doing(u, Tail(u.commands), "stop"), NewUnit(t, "stop"))
               /\ Account' \in Solvent
               /\ store' = store + Store[t] /\ food' = food + Yields(t) /\ upgrades' = upgrades
<1> DEFINE u == units[i]
           t == Current(i).what
<1>1. /\ Has(i, "produce") /\ Len(units) < MaxUnits
      /\ units' = Append([units EXCEPT ![i] = Finished(@)], NewUnit(t, "stop"))
      /\ SetAccount(ApplyStaticProduction(AddStore(Account, t), t))
  BY DEF FinishProduction
<1>2. t \in UnitType /\ u.commands # <<>>
  <2>1. /\ units[i].commands # <<>> /\ Current(i).class = "produce"
        /\ Current(i).class # "upgrade" => Current(i).what \in UnitType
    BY <1>1, HeadOf
  <2> QED
    BY <2>1
<1>3. u \in Unit /\ QueueOK(u, Len(units)) /\ Len(units) \in Nat
  BY UnitOf
<1>4. /\ Doing(u, Tail(u.commands), "stop") \in Unit
      /\ QueueOK(Doing(u, Tail(u.commands), "stop"), Len(units))
      /\ Finished(u) = Doing(u, Tail(u.commands), "stop")
  BY <1>2, <1>3, TailQueue
<1>5. QueueOK(Doing(u, Tail(u.commands), "stop"), Len(units) + 1)
  BY <1>3, <1>4, MoreUnits
<1>6. NewUnit(t, "stop") \in Unit /\ QueueOK(NewUnit(t, "stop"), Len(units) + 1)
  BY <1>2, <1>3, NewUnitFits
<1>7. Adds(i, Doing(u, Tail(u.commands), "stop"), NewUnit(t, "stop"))
  BY <1>1, <1>4, <1>5, <1>6 DEF Adds
<1>8. /\ Account' \in Solvent
      /\ store' = store + Store[t] /\ food' = food + Yields(t) /\ upgrades' = upgrades
  BY <1>1, <1>2, BornStep
<1> QED
  BY <1>1, <1>2, <1>7, <1>8

LEMMA FinishMorphStep ==
    ASSUME Sane, StoreOK, NEW i \in Id, FinishMorph(i)
    PROVE  LET u == units[i]
               t == Current(i).what
               x == [Doing(u, <<>>, "stop") EXCEPT !.type = t]
           IN  /\ Has(i, "morph") /\ t \in UnitType
               /\ Len(u.commands) = 1
               /\ Replaces(i, x)
               /\ Account' \in Solvent
               /\ store' = store + Store[t] - Store[u.type]
               /\ food' = food + Food[u.type] + Yields(t) /\ upgrades' = upgrades
<1> DEFINE u == units[i]
           t == Current(i).what
           x == [Doing(u, <<>>, "stop") EXCEPT !.type = t]
           a1 == DeApplyStaticCosts(Account, u.type)
           a2 == AddStore(a1, t)
           a3 == RemoveStore(a2, u.type)
           a4 == ApplyStaticProduction(a3, t)
<1>1. /\ Has(i, "morph") /\ SetAccount(a4)
      /\ units' = [units EXCEPT ![i] = [Finished(@) EXCEPT !.type = t]]
  BY DEF FinishMorph
<1>2. /\ t \in UnitType /\ u.commands # <<>> /\ u.commands \in Seq(Command)
      /\ 1 \in 1 .. Len(u.commands) /\ u.commands[1].class = "morph"
      /\ u.skill \notin {"beBuilt", "die", "gone"}
  <2>1. /\ units[i].commands # <<>> /\ units[i].commands \in Seq(Command)
        /\ 1 \in 1 .. Len(units[i].commands) /\ units[i].commands[1] = Current(i)
        /\ Current(i).class = "morph"
        /\ Current(i).class # "upgrade" => Current(i).what \in UnitType
        /\ units[i].skill \notin {"beBuilt", "die", "gone"}
    BY <1>1, HeadOf
  <2> QED
    BY <2>1
<1>3. u \in Unit /\ QueueOK(u, Len(units)) /\ Len(units) \in Nat
  BY UnitOf
<1>4. Len(u.commands) = 1
  BY <1>2, <1>3 DEF QueueOK, CommandOK
<1>5. Tail(u.commands) = <<>>
  <2> DEFINE q == u.commands
             r == Tail(q)
  <2>1. q \in Seq(Command) /\ Len(q) = 1
    BY <1>2, <1>4
  <2> HIDE DEF q
  <2>2. r \in Seq(Command) /\ Len(r) = 0
    BY <2>1
  <2> HIDE DEF r
  <2>3. r = <<>>
    BY <2>2
  <2> QED
    BY <2>3 DEF r, q
<1>6. Finished(u) = Doing(u, <<>>, "stop")
  <2>1. Finished(u) = Doing(u, Tail(u.commands), "stop")
    BY <1>2, <1>3, TailQueue
  <2> QED
    BY <1>5, <2>1
<1>7. units' = [units EXCEPT ![i] = x]
  BY <1>1, <1>6
<1>8. u.type \in UnitType /\ "stop" \in Skill
  BY <1>3, UnitFields DEF Skill, Class
<1>9. Replaces(i, x)
  <2> DEFINE y == Doing(u, <<>>, "stop")
  <2>1. y \in Unit /\ QueueOK(y, Len(units))
    BY <1>3, <1>8, EmptyQueue
  <2>2. y.commands = <<>> /\ y.skill = "stop"
    BY <1>3 DEF Doing, Unit
  <2> HIDE DEF y
  <2>3. /\ x \in Unit /\ x.commands = <<>> /\ x.skill = "stop" /\ x.target = y.target
        /\ x.alive = y.alive
    BY <1>2, <2>1, <2>2 DEF Unit, y
  <2> HIDE DEF x
  <2>4. Len(x.commands) = 0
    BY <2>3
  <2>5. QueueOK(x, Len(units))
    BY <2>1, <2>2, <2>3, <2>4 DEF QueueOK
  <2> QED
    BY <1>7, <2>3, <2>5 DEF Replaces
<1>10. /\ Food[u.type] \in Int /\ Yields(t) \in Int /\ Store[u.type] \in Nat /\ Store[t] \in Nat
       /\ store \in Nat /\ food \in Int /\ Store[u.type] <= store
  <2>1. OnMap(u) /\ ~IsBeingBuilt(u)
    BY <1>2 DEF OnMap, IsBeingBuilt
  <2> QED
    BY <1>2, <1>8, <2>1, StoreCovers, UsesAndYields, AccountFields
<1> HIDE DEF u, t, x, a4, a3, a2, a1
<1>11. a1 \in Solvent /\ a1.food = food + Food[u.type] /\ a1.store = store /\ a1.upgrades = upgrades
  BY <1>10, AccountFields, FoodChanges DEF a1, DeApplyStaticCosts
<1>12. a2 \in Solvent /\ a2.food = a1.food /\ a2.store = store + Store[t] /\ a2.upgrades = upgrades
  BY <1>2, <1>11, StoreAdded DEF a2
<1>13. /\ a3 \in Solvent /\ a3.food = a2.food /\ a3.store = (store + Store[t]) - Store[u.type]
       /\ a3.upgrades = upgrades
  <2>1. Store[u.type] <= a2.store
    BY <1>10, <1>12
  <2> QED
    BY <1>8, <1>12, <2>1, StoreRemoved DEF a3
<1>14. /\ a4 \in Solvent /\ a4.food = a3.food + Yields(t) /\ a4.store = a3.store
       /\ a4.upgrades = upgrades
  BY <1>10, <1>13, FoodChanges DEF a4, ApplyStaticProduction
<1>15. Account' = a4 /\ store' = a4.store /\ food' = a4.food /\ upgrades' = a4.upgrades
  BY <1>1, <1>14, AccountSet DEF SetAccount
<1>16. store' = store + Store[t] - Store[u.type] /\ food' = food + Food[u.type] + Yields(t)
  BY <1>10, <1>11, <1>12, <1>13, <1>14, <1>15
<1> QED
  BY <1>1, <1>2, <1>4, <1>9, <1>14, <1>15, <1>16 DEF u, t, x


\* The head of q has the building site s.
Begun(q, s) == [q EXCEPT ![1] = [q[1] EXCEPT !.site = s]]

LEMMA BegunFacts ==
    ASSUME NEW q \in Seq(Command), q # <<>>, NEW s \in Nat
    PROVE  /\ Begun(q, s) \in Seq(Command) /\ Len(Begun(q, s)) = Len(q)
           /\ Len(q) \in Nat /\ 1 \in 1 .. Len(q) /\ q[1] \in Command /\ Begun(q, s)[1] \in Command
           /\ Begun(q, s)[1].class = q[1].class /\ Begun(q, s)[1].what = q[1].what
           /\ Begun(q, s)[1].site = s
           /\ \A k \in 1 .. Len(q) : k # 1 => Begun(q, s)[k] = q[k]
           /\ \A h \in [Command -> Int] :
                  Weight(h, Begun(q, s)) = Weight(h, q) - h[q[1]] + h[Begun(q, s)[1]]
<1> DEFINE x == [q[1] EXCEPT !.site = s]
<1>1. Len(q) \in Nat /\ 1 \in 1 .. Len(q) /\ q[1] \in Command
  OBVIOUS
<1>2. x \in Command /\ x.class = q[1].class /\ x.what = q[1].what /\ x.site = s
  BY <1>1 DEF Command
<1>3. Begun(q, s) = [q EXCEPT ![1] = x]
  BY DEF Begun
<1> HIDE DEF x
<1>4. /\ Begun(q, s) \in Seq(Command) /\ Len(Begun(q, s)) = Len(q) /\ Begun(q, s)[1] = x
      /\ \A k \in 1 .. Len(q) : k # 1 => Begun(q, s)[k] = q[k]
  BY <1>1, <1>2, <1>3
<1>5. ASSUME NEW h \in [Command -> Int]
      PROVE  Weight(h, Begun(q, s)) = Weight(h, q) - h[q[1]] + h[x]
  <2>0. 1 \in 1 .. Len(q) /\ x \in Command
    BY <1>1, <1>2
  <2>1. Weight(h, [q EXCEPT ![1] = x]) = Weight(h, q) - h[q[1]] + h[x]
    BY <2>0, WeightChange
  <2> QED
    BY <1>3, <2>1
<1> QED
  BY <1>1, <1>2, <1>4, <1>5

LEMMA BeginBuildingStep ==
    ASSUME Sane, NEW i \in Id, BeginBuilding(i)
    PROVE  LET u == units[i]
               t == Current(i).what
               site == Len(units) + 1
               x == [u EXCEPT !.skill = "build", !.target = site,
                              !.commands = Begun(u.commands, site)]
           IN  /\ Has(i, "build") /\ u.skill # "build" /\ t \in UnitType
               /\ Adds(i, x, NewUnit(t, "beBuilt"))
               /\ UNCHANGED <<gold, food, store, upgrades>>
<1> DEFINE u == units[i]
           t == Current(i).what
           site == Len(units) + 1
           q == Begun(u.commands, site)
           x == [u EXCEPT !.skill = "build", !.target = site, !.commands = q]
<1>1. /\ Has(i, "build") /\ u.skill # "build" /\ Len(units) < MaxUnits
      /\ units' = Append([units EXCEPT ![i].skill = "build", ![i].target = site,
                                       ![i].commands[1].site = site], NewUnit(t, "beBuilt"))
      /\ UNCHANGED <<gold, food, store, upgrades>>
  BY DEF BeginBuilding
<1>2. /\ units[i].commands # <<>> /\ units[i].commands \in Seq(Command)
      /\ units[i].commands[1] = Current(i) /\ Current(i).class = "build"
      /\ Current(i).class # "upgrade" => Current(i).what \in UnitType
  BY <1>1, HeadOf
<1>3. u \in Unit /\ QueueOK(u, Len(units)) /\ Len(units) \in Nat /\ t \in UnitType
  BY <1>2, UnitOf
<1>4. /\ q \in Seq(Command) /\ Len(q) = Len(u.commands) /\ q[1].class = "build"
      /\ q[1].what = t /\ q[1].site = site /\ 1 \in 1 .. Len(u.commands)
      /\ \A k \in 1 .. Len(u.commands) : k # 1 => q[k] = u.commands[k]
  <2>1. site \in Nat
    BY <1>3
  <2> HIDE DEF site
  <2> QED
    BY <1>2, <2>1, BegunFacts
<1>5. units' = Append([units EXCEPT ![i] = x], NewUnit(t, "beBuilt"))
  <2>1. x = [u EXCEPT !.skill = "build", !.target = site,
                      !.commands = [u.commands EXCEPT ![1] = [u.commands[1] EXCEPT !.site = site]]]
    BY DEF Begun
  <2> QED
    <3>1. [units EXCEPT ![i].skill = "build", ![i].target = site,
                        ![i].commands[1].site = site] = [units EXCEPT ![i] = x]
      <4>1. units \in Seq(Unit) /\ i \in DOMAIN units
        BY UnitOf DEF Id
      <4> QED
        BY <2>1, <4>1
    <3> QED
      BY <1>1, <3>1
<1> HIDE DEF q
<1>6. /\ x \in Unit /\ x.commands = q /\ x.skill = "build" /\ x.target = site
      /\ x.type = u.type /\ x.alive = u.alive
  <2>1. site \in Nat /\ "build" \in Skill
    BY <1>3 DEF Skill, Class
  <2> HIDE DEF site
  <2> QED
    BY <1>3, <1>4, <2>1 DEF Unit
<1> HIDE DEF x
<1>7. ASSUME NEW k \in 1 .. Len(q) PROVE CommandOK(x, k, site)
  <2>1. k \in 1 .. Len(u.commands) /\ CommandOK(u, k, Len(units)) /\ CommandOK(u, 1, Len(units))
    BY <1>3, <1>4 DEF QueueOK
  <2>2. CASE k = 1
    BY <1>2, <1>3, <1>4, <1>6, <2>1, <2>2 DEF CommandOK
  <2>3. CASE k # 1
    <3>1. x.commands[k] = u.commands[k] /\ u.commands[k] \in Command /\ u.commands[k].site \in Nat
      BY <1>2, <1>4, <1>6, <2>1, <2>3, CommandFields
    <3> QED
      BY <1>3, <1>4, <1>6, <2>1, <2>3, <3>1 DEF CommandOK
  <2> QED
    BY <2>2, <2>3
<1>8. QueueOK(x, site)
  BY <1>3, <1>4, <1>6, <1>7 DEF QueueOK
<1>9. NewUnit(t, "beBuilt") \in Unit /\ QueueOK(NewUnit(t, "beBuilt"), Len(units) + 1)
  BY <1>3, NewUnitFits
<1>10. Adds(i, x, NewUnit(t, "beBuilt"))
  BY <1>1, <1>5, <1>6, <1>8, <1>9 DEF Adds
<1> QED
  BY <1>1, <1>3, <1>10 DEF x, q

\* Two units become others.
ReplacesTwo(i, b, x, y) ==
    /\ i \in Id /\ b \in Id /\ b # i
    /\ x \in Unit /\ QueueOK(x, Len(units))
    /\ y \in Unit /\ QueueOK(y, Len(units))
    /\ units' = [units EXCEPT ![i] = x, ![b] = y]

LEMMA TwoReplaced ==
    ASSUME Sane, NEW i, NEW b, NEW x, NEW y, ReplacesTwo(i, b, x, y), Account' \in Solvent
    PROVE  /\ Sane'
           /\ Len(units') = Len(units) /\ units'[i] = x /\ units'[b] = y
           /\ \A j \in Id : j # i /\ j # b => units'[j] = units[j]
           /\ \A h \in [Unit -> Int] :
                  Weight(h, units') = Weight(h, units) - h[units[i]] + h[x] - h[units[b]] + h[y]
<1> DEFINE us == [units EXCEPT ![i] = x]
           n == Len(units)
<1>1. /\ units \in Seq(Unit) /\ n \in Nat /\ i \in 1 .. n /\ b \in 1 .. n
      /\ units[i] \in Unit /\ units[b] \in Unit
      /\ b # i /\ x \in Unit /\ y \in Unit
      /\ QueueOK(x, n) /\ QueueOK(y, n)
      /\ units' = [units EXCEPT ![i] = x, ![b] = y]
  BY DEF Sane, Id, ReplacesTwo
<1>2. /\ us \in Seq(Unit) /\ Len(us) = n /\ us[i] = x /\ us[b] = units[b]
      /\ \A j \in 1 .. n : j # i => us[j] = units[j]
  BY <1>1
<1>3. units' = [us EXCEPT ![b] = y]
  BY <1>1
<1> HIDE DEF us
<1>4. /\ units' \in Seq(Unit) /\ Len(units') = n /\ units'[i] = x /\ units'[b] = y
      /\ \A j \in 1 .. n : j # i /\ j # b => units'[j] = units[j]
  BY <1>1, <1>2, <1>3
<1>5. ASSUME NEW j \in 1 .. n PROVE QueueOK(units'[j], n)
  <2>1. CASE j = i \/ j = b
    BY <1>1, <1>4, <2>1
  <2>2. CASE j # i /\ j # b
    BY <1>4, <2>2 DEF Sane, Id
  <2> QED
    BY <2>1, <2>2
<1>6. Sane'
  BY <1>4, <1>5 DEF Sane, Id
<1>7. ASSUME NEW h \in [Unit -> Int]
      PROVE  Weight(h, units') = Weight(h, units) - h[units[i]] + h[x] - h[units[b]] + h[y]
  <2>0. units \in Seq(Unit) /\ i \in 1 .. Len(units) /\ x \in Unit
    BY <1>1
  <2>1. Weight(h, us) = Weight(h, units) - h[units[i]] + h[x]
    BY <2>0, WeightChange DEF us
  <2>2. Weight(h, units') = Weight(h, us) - h[us[b]] + h[y]
    <3>0. us \in Seq(Unit) /\ b \in 1 .. Len(us)
      BY <1>1, <1>2
    <3>1. Weight(h, [us EXCEPT ![b] = y]) = Weight(h, us) - h[us[b]] + h[y]
      BY <1>1, <3>0, WeightChange
    <3> QED
      BY <1>3, <3>1
  <2>3. Weight(h, units) \in Int
    BY <1>1, WeightSteps
  <2>4. h[units[i]] \in Int /\ h[units[b]] \in Int /\ h[x] \in Int /\ h[y] \in Int
    BY <1>1
  <2> QED
    BY <1>2, <2>1, <2>2, <2>3, <2>4
<1> QED
  BY <1>4, <1>6, <1>7 DEF Id

LEMMA FinishBuildingStep ==
    ASSUME Sane, NEW i \in Id, FinishBuilding(i)
    PROVE  LET u == units[i]
               b == AtTarget(i)
               x == Doing(u, Tail(u.commands), "stop")
               y == Doing(units[b], <<>>, "stop")
               t == units[b].type
           IN  /\ Has(i, "build") /\ u.skill = "build"
               /\ b \in Id /\ IsBeingBuilt(units[b]) /\ units[b].commands = <<>>
               /\ b = Current(i).site /\ GetUnit(Current(i)) = b
               /\ ReplacesTwo(i, b, x, y)
               /\ t \in UnitType
               /\ Account' \in Solvent
               /\ store' = store + Store[t] /\ food' = food + Yields(t) /\ upgrades' = upgrades
<1> DEFINE u == units[i]
           b == AtTarget(i)
           x == Doing(u, Tail(u.commands), "stop")
           y == Doing(units[b], <<>>, "stop")
           t == units[b].type
<1>1. /\ Has(i, "build") /\ u.skill = "build" /\ b # None /\ b = GetUnit(Current(i))
      /\ IsBeingBuilt(units[b])
      /\ units' = [units EXCEPT ![i] = Finished(@), ![b].skill = "stop"]
      /\ SetAccount(ApplyStaticProduction(AddStore(Account, t), t))
  BY DEF FinishBuilding, Born
<1>2. u \in Unit /\ QueueOK(u, Len(units)) /\ Len(units) \in Nat
  BY UnitOf
<1>3. b = u.target /\ b \in Id
  <2>1. b = u.target
    BY <1>1 DEF AtTarget
  <2>2. u.target \in Nat /\ u.target <= Len(units)
    BY <1>2, UnitFields DEF QueueOK
  <2> QED
    BY <1>1, <1>2, <2>1, <2>2 DEF Id, None
<1>4. b = Current(i).site
  BY <1>1 DEF GetUnit
<1> HIDE DEF b
<1>5. units[b] \in Unit /\ QueueOK(units[b], Len(units)) /\ t \in UnitType
  BY <1>3, UnitOf, UnitFields
<1>6. units[b].commands = <<>> /\ "stop" \in Skill
  BY <1>1, <1>5 DEF QueueOK, IsBeingBuilt, Skill, Class
<1>7. u.commands # <<>>
  BY <1>1, HeadOf
<1>8. b # i
  BY <1>6, <1>7
<1>9. x \in Unit /\ QueueOK(x, Len(units)) /\ Finished(u) = x
  BY <1>2, <1>7, TailQueue
<1>10. y \in Unit /\ QueueOK(y, Len(units))
  BY <1>2, <1>5, <1>6, EmptyQueue
<1>11. [units[b] EXCEPT !.skill = "stop"] = y
  BY <1>5, <1>6 DEF Doing, Unit
<1>12. units' = [units EXCEPT ![i] = x, ![b] = y]
  <2> DEFINE us == [units EXCEPT ![i] = x]
  <2>1. units' = [us EXCEPT ![b].skill = "stop"]
    BY <1>1, <1>9
  <2>2. us[b] = units[b]
    BY <1>3, <1>8
  <2>3. units' = [us EXCEPT ![b] = y]
    BY <1>11, <2>1, <2>2
  <2> QED
    BY <2>3
<1>13. /\ Account' \in Solvent
       /\ store' = store + Store[t] /\ food' = food + Yields(t) /\ upgrades' = upgrades
  BY <1>1, <1>5, BornStep
<1>14. ReplacesTwo(i, b, x, y)
  BY <1>3, <1>8, <1>9, <1>10, <1>12 DEF ReplacesTwo
<1> QED
  BY <1>1, <1>3, <1>4, <1>5, <1>6, <1>13, <1>14 DEF b


LEMMA RepairStep ==
    ASSUME Sane, NEW b \in Id, Repair(b)
    PROVE  LET t == units[b].type
           IN  /\ IsBeingBuilt(units[b]) /\ units[b].commands = <<>> /\ t \in UnitType
               /\ Replaces(b, Doing(units[b], units[b].commands, "stop"))
               /\ Account' \in Solvent
               /\ store' = store + Store[t] /\ food' = food + Yields(t) /\ upgrades' = upgrades
<1> DEFINE t == units[b].type
<1>1. /\ IsBeingBuilt(units[b])
      /\ units' = [units EXCEPT ![b].skill = "stop"]
      /\ SetAccount(ApplyStaticProduction(AddStore(Account, t), t))
  BY DEF Repair, Born
<1>2. units[b] \in Unit /\ QueueOK(units[b], Len(units)) /\ t \in UnitType
  BY UnitOf, UnitFields
<1>3. units[b].commands = <<>> /\ "stop" \in Skill
  BY <1>1, <1>2 DEF QueueOK, IsBeingBuilt, Skill, Class
<1>4. Replaces(b, Doing(units[b], units[b].commands, "stop"))
  BY <1>1, <1>3, SkillStep
<1>5. /\ Account' \in Solvent
      /\ store' = store + Store[t] /\ food' = food + Yields(t) /\ upgrades' = upgrades
  BY <1>1, <1>2, BornStep
<1> QED
  BY <1>1, <1>2, <1>3, <1>4, <1>5

LEMMA DecHpStep ==
    ASSUME Sane, NEW i \in Id, DecHp(i)
    PROVE  LET x == [units[i] EXCEPT !.alive = FALSE]
           IN  /\ Replaces(i, x)
               /\ UNCHANGED <<gold, food, store, upgrades>>
<1> DEFINE u == units[i]
           x == [u EXCEPT !.alive = FALSE]
<1>1. /\ units' = [units EXCEPT ![i] = x]
      /\ UNCHANGED <<gold, food, store, upgrades>>
  BY DEF DecHp
<1>2. u \in Unit /\ QueueOK(u, Len(units))
  BY UnitOf
<1>3. /\ x \in Unit /\ x.type = u.type /\ x.skill = u.skill /\ x.commands = u.commands
      /\ x.target = u.target /\ x.alive = FALSE
  BY <1>2 DEF Unit
<1> HIDE DEF x
<1>4. QueueOK(x, Len(units))
  BY <1>2, <1>3 DEF QueueOK, CommandOK
<1> QED
  BY <1>1, <1>3, <1>4 DEF Replaces, x

LEMMA UndertakeStep ==
    ASSUME Sane, NEW i \in Id, Undertake(i)
    PROVE  /\ units[i].skill = "die" /\ units[i].commands = <<>>
           /\ Replaces(i, Doing(units[i], units[i].commands, "gone"))
           /\ UNCHANGED <<gold, food, store, upgrades>>
<1>1. /\ units[i].skill = "die" /\ units' = [units EXCEPT ![i].skill = "gone"]
      /\ UNCHANGED <<gold, food, store, upgrades>>
  BY DEF Undertake
<1>2. units[i].commands = <<>> /\ ~units[i].alive /\ "gone" \in Skill
  BY <1>1, UnitOf DEF QueueOK, Skill
<1>3. Replaces(i, Doing(units[i], units[i].commands, "gone"))
  BY <1>1, <1>2, SkillStep
<1> QED
  BY <1>1, <1>2, <1>3

LEMMA KillStep ==
    ASSUME Sane, StoreOK, NEW i \in Id, Kill(i)
    PROVE  LET u == units[i]
               a == IF IsBeingBuilt(u) THEN DeApplyStaticConsumption(Account, u.type)
                                       ELSE DeApplyStaticCosts(Account, u.type)
               c == ClearCommands(a, u)
           IN  /\ ~u.alive /\ OnMap(u)
               /\ u.commands \in Seq(Command) /\ Reverse(u.commands) \in Seq(Command)
               /\ a \in Solvent /\ a.upgrades = upgrades /\ c \in Solvent
               /\ c = UndoCommands(a, u, Reverse(u.commands))
               /\ Replaces(i, Doing(u, <<>>, "die"))
               /\ Account' \in Solvent
               /\ store' = store - StoreHeld[u]
               /\ food' = food + HeldByUnit(u) + Weight(Refund(u), u.commands)
               /\ upgrades' = c.upgrades
<1> DEFINE u == units[i]
           a == IF IsBeingBuilt(u) THEN DeApplyStaticConsumption(Account, u.type)
                                   ELSE DeApplyStaticCosts(Account, u.type)
           c == ClearCommands(a, u)
           d == IF IsBeingBuilt(u) THEN c ELSE RemoveStore(c, u.type)
           h == Refund(u)
           q == Reverse(u.commands)
<1>1. /\ ~u.alive /\ OnMap(u) /\ SetAccount(d)
      /\ units' = [units EXCEPT ![i].commands = <<>>, ![i].skill = "die"]
  BY DEF Kill
<1>2. /\ u \in Unit /\ QueueOK(u, Len(units)) /\ Len(units) \in Nat /\ u.type \in UnitType
      /\ u.commands \in Seq(Command)
  BY UnitOf, UnitFields
<1>3. /\ Account \in Solvent /\ Account.food = food /\ Account.store = store
      /\ Account.upgrades = upgrades /\ food \in Int /\ store \in Nat
  BY AccountFields
<1>4. Food[u.type] \in Int /\ Uses(u.type) \in Int /\ Store[u.type] \in Nat
  BY <1>2, UsesAndYields
<1>5. Replaces(i, Doing(u, <<>>, "die"))
  <2>1. Doing(u, <<>>, "die") \in Unit /\ QueueOK(Doing(u, <<>>, "die"), Len(units))
    BY <1>1, <1>2, EmptyQueue DEF Skill
  <2>2. units' = [units EXCEPT ![i] = Doing(u, <<>>, "die")]
    BY <1>1 DEF Doing
  <2> QED
    BY <2>1, <2>2 DEF Replaces
<1>6. h \in [Command -> Int] /\ HeldByUnit(u) = IF IsBeingBuilt(u) THEN Uses(u.type) ELSE Food[u.type]
  BY <1>1, RefundType DEF HeldByUnit
<1>7. StoreHeld[u] = IF IsBeingBuilt(u) THEN 0 ELSE Store[u.type]
  BY <1>1, <1>2 DEF StoreHeld
<1>8. ~IsBeingBuilt(u) => Store[u.type] <= store
  BY <1>1, StoreCovers
<1>9. c = UndoCommands(a, u, q)
  BY DEF ClearCommands
<1> HIDE DEF u, a, c, d, h, q
<1>10. a \in Solvent /\ a.food = food + HeldByUnit(u) /\ a.store = store /\ a.upgrades = upgrades
  <2>1. CASE IsBeingBuilt(u)
    <3>1. a = IncFood(Account, Uses(u.type))
      BY <2>1 DEF a, DeApplyStaticConsumption
    <3> DEFINE n == Uses(u.type)
    <3>2. n \in Int
      BY <1>4
    <3> HIDE DEF n
    <3>3. /\ IncFood(Account, n) \in Solvent /\ IncFood(Account, n).food = food + n
          /\ IncFood(Account, n).store = store /\ IncFood(Account, n).upgrades = upgrades
      BY <1>3, <3>2, FoodChanges
    <3> QED
      BY <1>6, <2>1, <3>1, <3>3 DEF n
  <2>2. CASE ~IsBeingBuilt(u)
    <3>1. a = IncFood(Account, Food[u.type])
      BY <2>2 DEF a, DeApplyStaticCosts
    <3> DEFINE n == Food[u.type]
    <3>2. n \in Int
      BY <1>4
    <3> HIDE DEF n
    <3>3. /\ IncFood(Account, n) \in Solvent /\ IncFood(Account, n).food = food + n
          /\ IncFood(Account, n).store = store /\ IncFood(Account, n).upgrades = upgrades
      BY <1>3, <3>2, FoodChanges
    <3> QED
      BY <1>6, <2>2, <3>1, <3>3 DEF n
  <2> QED
    BY <2>1, <2>2
<1>11. q \in Seq(Command) /\ Weight(h, q) = Weight(h, u.commands) /\ Weight(h, q) \in Int
  <2>1. q \in Seq(Command) /\ Weight(h, q) = Weight(h, u.commands)
    BY <1>2, <1>6, WeightReverse DEF q
  <2> QED
    BY <1>6, <2>1, WeightSteps
<1>12. c \in Solvent /\ c.food = a.food + Weight(h, q) /\ c.store = a.store
  BY <1>9, <1>10, <1>11, CommandsUndone DEF h
<1>13. /\ d \in Solvent /\ d.food = c.food /\ d.store = store - StoreHeld[u]
       /\ d.upgrades = c.upgrades
  <2>1. CASE IsBeingBuilt(u)
    <3>1. d = c
      BY <2>1 DEF d
    <3> QED
      BY <1>3, <1>7, <1>10, <1>12, <2>1, <3>1
  <2>2. CASE ~IsBeingBuilt(u)
    <3>1. d = RemoveStore(c, u.type)
      BY <2>2 DEF d
    <3>2. Store[u.type] <= c.store
      BY <1>8, <1>10, <1>12, <2>2
    <3> QED
      BY <1>2, <1>7, <1>10, <1>12, <2>2, <3>1, <3>2, StoreRemoved
  <2> QED
    BY <2>1, <2>2
<1>14. Account' = d /\ store' = d.store /\ food' = d.food /\ upgrades' = d.upgrades
  BY <1>1, <1>13, AccountSet DEF SetAccount
<1>15. HeldByUnit(u) \in Int
  BY <1>4, <1>6
<1>16. food' = food + HeldByUnit(u) + Weight(h, u.commands)
  BY <1>3, <1>10, <1>11, <1>12, <1>13, <1>14, <1>15
<1> QED
  BY <1>1, <1>2, <1>5, <1>9, <1>10, <1>11, <1>12, <1>13, <1>14, <1>16 DEF u, a, c, h, q


LEMMA FinishUpgradeStep ==
    ASSUME Sane, NEW i \in Id, FinishUpgrade(i)
    PROVE  /\ Has(i, "upgrade") /\ Current(i).what \in Upgrade
           /\ Replaces(i, Doing(units[i], Tail(units[i].commands), "stop"))
           /\ Account' \in Solvent
           /\ upgrades' = Manager!FinishUpgrade(upgrades, Current(i).what)
           /\ UNCHANGED <<gold, food, store>>
<1> DEFINE m == Manager!FinishUpgrade(upgrades, Current(i).what)
           b == [gold |-> gold, food |-> food, store |-> store, upgrades |-> m]
<1>1. /\ Has(i, "upgrade") /\ upgrades' = m
      /\ units' = [units EXCEPT ![i] = Finished(@)]
      /\ UNCHANGED <<gold, food, store>>
  BY DEF FinishUpgrade
<1>2. Current(i).what \in Upgrade
  BY <1>1, HeadOf
<1>3. Replaces(i, Doing(units[i], Tail(units[i].commands), "stop"))
  BY <1>1, FinishedStep
<1>4. Account \in Solvent /\ upgrades \in Managers
  BY AccountFields
<1>5. m \in Managers
  BY <1>2, <1>4, FinishUpgradeType
<1>6. gold \in Nat /\ food \in Int /\ store \in Nat /\ gold <= store
  BY <1>4 DEF Account, Solvent
<1> HIDE DEF m
<1>7. b \in Solvent
  BY <1>5, <1>6 DEF Solvent
<1>8. Account' = b
  BY <1>1 DEF Account
<1> QED
  BY <1>1, <1>2, <1>3, <1>7, <1>8 DEF m

LEMMA HarvestStep ==
    ASSUME Sane, Harvest
    PROVE  /\ Account' \in Solvent
           /\ UNCHANGED <<units, food, store, upgrades>>
<1> DEFINE b == IncGold(Account, 1)
<1>1. SetAccount(b) /\ units' = units
  BY DEF Harvest
<1>2. /\ Account \in Solvent /\ Account.food = food /\ Account.store = store
      /\ Account.upgrades = upgrades
  BY AccountFields
<1>3. 1 \in Int /\ Account.gold + 1 >= 0
  BY <1>2, SolventFields
<1>4. b \in Solvent /\ b.food = food /\ b.store = store /\ b.upgrades = upgrades
  BY <1>2, <1>3, GoldChanges
<1> HIDE DEF b
<1>5. Account' = b /\ store' = b.store /\ food' = b.food /\ upgrades' = b.upgrades
  BY <1>1, <1>4, AccountSet DEF SetAccount
<1> QED
  BY <1>1, <1>4, <1>5

-----------------------------------------------------------------------------
(* The store is the units'. *)

LEMMA StoreHeldOf ==
    ASSUME NEW u \in Unit, NEW q \in Seq(Command), NEW s \in Skill
    PROVE  /\ StoreHeld[u] = IF u.skill \in {"beBuilt", "die", "gone"} THEN 0 ELSE Store[u.type]
           /\ StoreHeld[Doing(u, q, s)]
                = IF s \in {"beBuilt", "die", "gone"} THEN 0 ELSE Store[u.type]
<1>1. \A x \in Unit : StoreHeld[x] = IF x.skill \in {"beBuilt", "die", "gone"} THEN 0
                                     ELSE Store[x.type]
  BY DEF StoreHeld, OnMap, IsBeingBuilt
<1> QED
  BY <1>1, DoingFields

LEMMA StoreReplaced ==
    ASSUME Sane, StoreOK, NEW i, NEW x, Replaces(i, x), Account' \in Solvent,
           store' = store - StoreHeld[units[i]] + StoreHeld[x]
    PROVE  Sane' /\ StoreOK'
<1>1. Sane' /\ \A h \in [Unit -> Int] : Weight(h, units') = Weight(h, units) - h[units[i]] + h[x]
  BY UnitReplaced
<1>2. Weight(StoreHeld, units') = Weight(StoreHeld, units) - StoreHeld[units[i]] + StoreHeld[x]
  BY <1>1, StoreHeldType
<1>3. store' = Weight(StoreHeld, units')
  BY <1>2 DEF StoreOK
<1> QED
  BY <1>1, <1>3 DEF StoreOK

\* Most steps change the commands and the skill of a unit that stands or does not.
LEMMA StoreKept ==
    ASSUME Sane, StoreOK, NEW i \in Id, NEW q \in Seq(Command), NEW s \in Skill,
           Replaces(i, Doing(units[i], q, s)), Account' \in Solvent, store' = store,
           s \in {"beBuilt", "die", "gone"} <=> units[i].skill \in {"beBuilt", "die", "gone"}
    PROVE  Sane' /\ StoreOK'
<1>1. units[i] \in Unit
  BY UnitOf
<1>2. StoreHeld[Doing(units[i], q, s)] = StoreHeld[units[i]] /\ StoreHeld[units[i]] \in Int
  BY <1>1, StoreHeldOf, StoreHeldType
<1>3. store' = store - StoreHeld[units[i]] + StoreHeld[Doing(units[i], q, s)]
  BY <1>2, AccountFields
<1> QED
  BY <1>3, StoreReplaced


\* A unit that is born, by whatever step.
LEMMA StoreOfBorn ==
    ASSUME NEW u \in Unit, IsBeingBuilt(u)
    PROVE  StoreHeld[u] = 0 /\ StoreHeld[Doing(u, <<>>, "stop")] = Store[u.type]
<1>1. <<>> \in Seq(Command) /\ "stop" \in Skill
  BY DEF Skill, Class
<1> QED
  BY <1>1, StoreHeldOf DEF IsBeingBuilt

LEMMA StoreOfNew ==
    ASSUME NEW t \in UnitType, NEW s \in {"stop", "beBuilt"}
    PROVE  StoreHeld[NewUnit(t, s)] = IF s = "beBuilt" THEN 0 ELSE Store[t]
<1>1. NewUnit(t, s) \in Unit
  BY NewUnitFits
<1> QED
  BY <1>1 DEF StoreHeld, NewUnit, OnMap, IsBeingBuilt

LEMMA StoreAddedUnit ==
    ASSUME Sane, StoreOK, NEW i, NEW x, NEW y, Adds(i, x, y), Account' \in Solvent,
           StoreHeld[x] = StoreHeld[units[i]], store' = store + StoreHeld[y]
    PROVE  Sane' /\ StoreOK'
<1>1. /\ Sane' /\ units[i] \in Unit
      /\ \A h \in [Unit -> Int] :
             Weight(h, units') = Weight(h, units) - h[units[i]] + h[x] + h[y]
  BY UnitAdded
<1>2. /\ x \in Unit /\ y \in Unit /\ StoreHeld[x] \in Int /\ StoreHeld[y] \in Int
      /\ StoreHeld[units[i]] \in Int
  BY <1>1, StoreHeldType DEF Adds
<1>3. Weight(StoreHeld, units')
        = Weight(StoreHeld, units) - StoreHeld[units[i]] + StoreHeld[x] + StoreHeld[y]
  BY <1>1, StoreHeldType
<1>4. Weight(StoreHeld, units) \in Int
  BY AccountFields DEF StoreOK
<1>5. store' = Weight(StoreHeld, units')
  BY <1>2, <1>3, <1>4 DEF StoreOK
<1> QED
  BY <1>1, <1>5 DEF StoreOK

LEMMA BooksOfPlayer ==
    ASSUME Sane, StoreOK, NEW i \in Id, Player(i)
    PROVE  Sane' /\ StoreOK'
<1>0. units[i] \in Unit /\ units[i].skill \in Skill
  BY UnitOf, UnitFields
<1>1. ASSUME NEW o \in Orders[units[i].type], NEW p \in BOOLEAN, GiveCommand(i, o, p)
      PROVE  Sane' /\ StoreOK'
  <2>1. PICK q : /\ Replaces(i, Doing(units[i], q, units[i].skill))
                 /\ Account' \in Solvent /\ store' = store
    BY <1>1, GiveCommandStep
  <2>2. Doing(units[i], q, units[i].skill) \in Unit
    BY <2>1 DEF Replaces
  <2>3. q \in Seq(Command)
    BY <1>0, <2>2 DEF Doing, Unit
  <2> QED
    BY <1>0, <2>1, <2>3, StoreKept
<1>2. CASE CancelCommand(i)
  <2> DEFINE q == Front(units[i].commands)
  <2>1. CancelLast(i, units[i].skill)
    BY <1>2 DEF CancelCommand
  <2>2. /\ units[i].commands # <<>> /\ units[i].commands \in Seq(Command)
        /\ Replaces(i, Doing(units[i], q, units[i].skill))
        /\ Account' \in Solvent /\ store' = store
    BY <2>1, CancelLastStep
  <2>3. q \in Seq(Command)
    BY <2>2, FrontFacts
  <2> HIDE DEF q
  <2> QED
    BY <1>0, <2>2, <2>3, StoreKept
<1> QED
  BY <1>1, <1>2 DEF Player

\* A command that is cancelled by its unit, and one that is finished.
LEMMA BooksOfCancelLast ==
    ASSUME Sane, StoreOK, NEW i \in Id, NEW s \in {units[i].skill, "stop"}, CancelLast(i, s)
    PROVE  Sane' /\ StoreOK'
<1> DEFINE q == Front(units[i].commands)
<1>1. /\ units[i].commands # <<>> /\ units[i].commands \in Seq(Command)
      /\ units[i].skill \notin {"beBuilt", "die", "gone"}
      /\ Replaces(i, Doing(units[i], q, s))
      /\ Account' \in Solvent /\ store' = store
  BY CancelLastStep
<1>2. q \in Seq(Command)
  BY <1>1, FrontFacts
<1>3. s \in Skill /\ s \notin {"beBuilt", "die", "gone"}
  BY <1>1, UnitOf, UnitFields DEF Skill, Class
<1> HIDE DEF q
<1> QED
  BY <1>1, <1>2, <1>3, StoreKept

LEMMA BooksOfFinished ==
    ASSUME Sane, StoreOK, NEW i \in Id, NEW class, Has(i, class),
           Replaces(i, Doing(units[i], Tail(units[i].commands), "stop")),
           Account' \in Solvent, store' = store
    PROVE  Sane' /\ StoreOK'
<1> DEFINE q == Tail(units[i].commands)
<1>1. /\ units[i].commands # <<>> /\ units[i].commands \in Seq(Command)
      /\ units[i].skill \notin {"beBuilt", "die", "gone"}
  BY HeadOf
<1>2. q \in Seq(Command) /\ "stop" \in Skill
  BY <1>1 DEF Skill, Class
<1> HIDE DEF q
<1>3. Replaces(i, Doing(units[i], q, "stop"))
  BY DEF q
<1> QED
  BY <1>1, <1>2, <1>3, StoreKept

LEMMA BooksOfSkill ==
    ASSUME Sane, StoreOK, NEW i \in Id, NEW class, Has(i, class), NEW s \in Class,
           units' = [units EXCEPT ![i].skill = s],
           UNCHANGED <<gold, food, store, upgrades>>
    PROVE  /\ Sane' /\ StoreOK' /\ Account' \in Solvent
           /\ Replaces(i, Doing(units[i], units[i].commands, s))
<1>1. s \in Skill /\ s \notin {"beBuilt", "die", "gone"}
  BY DEF Skill, Class
<1>2. units[i].skill \notin {"beBuilt", "die", "gone"} /\ units[i].commands \in Seq(Command)
  BY HeadOf
<1>3. Replaces(i, Doing(units[i], units[i].commands, s))
  BY <1>1, SkillStep
<1>4. Account' \in Solvent /\ store' = store
  BY AccountSame
<1> QED
  BY <1>1, <1>2, <1>3, <1>4, StoreKept


LEMMA BooksOfFinishMorph ==
    ASSUME Sane, StoreOK, NEW i \in Id, FinishMorph(i)
    PROVE  Sane' /\ StoreOK'
<1> DEFINE u == units[i]
           t == Current(i).what
           y == Doing(u, <<>>, "stop")
           x == [y EXCEPT !.type = t]
<1>1. /\ Has(i, "morph") /\ t \in UnitType /\ Replaces(i, x) /\ Account' \in Solvent
      /\ store' = store + Store[t] - Store[u.type]
  BY FinishMorphStep
<1>2. u \in Unit /\ u.skill \notin {"beBuilt", "die", "gone"}
  BY <1>1, UnitOf, HeadOf
<1>3. StoreHeld[u] = Store[u.type] /\ StoreHeld[x] = Store[t]
  <2>1. <<>> \in Seq(Command) /\ "stop" \in Skill
    BY DEF Skill, Class
  <2>2. StoreHeld[u] = Store[u.type]
    BY <1>2, <2>1, StoreHeldOf
  <2>3. y \in Unit /\ y.skill = "stop"
    BY <1>2, <2>1, DoingFields
  <2> HIDE DEF y
  <2>4. x.type = t /\ x.skill = "stop" /\ x \in Unit
    BY <1>1, <2>3 DEF Unit, Replaces
  <2>5. StoreHeld[x] = Store[t]
    BY <2>4 DEF StoreHeld, OnMap, IsBeingBuilt
  <2> QED
    BY <2>2, <2>5
<1>4. Store[t] \in Nat /\ Store[u.type] \in Nat /\ store \in Nat
  BY <1>1, <1>2, UnitFields, UsesAndYields, AccountFields
<1> HIDE DEF u, t, x
<1>5. store' = store - StoreHeld[u] + StoreHeld[x]
  BY <1>1, <1>3, <1>4
<1>6. store' = store - StoreHeld[units[i]] + StoreHeld[x]
  BY <1>5 DEF u
<1> QED
  BY <1>1, <1>6, StoreReplaced

LEMMA BooksOfFinishBuilding ==
    ASSUME Sane, StoreOK, NEW i \in Id, FinishBuilding(i)
    PROVE  Sane' /\ StoreOK'
<1> DEFINE u == units[i]
           b == AtTarget(i)
           q == Tail(u.commands)
           x == Doing(u, q, "stop")
           y == Doing(units[b], <<>>, "stop")
           t == units[b].type
<1>1. /\ Has(i, "build") /\ b \in Id /\ IsBeingBuilt(units[b])
      /\ ReplacesTwo(i, b, x, y)
      /\ t \in UnitType
      /\ Account' \in Solvent /\ store' = store + Store[t]
  BY FinishBuildingStep
<1> HIDE DEF b
<1>2. /\ u \in Unit /\ units[b] \in Unit /\ u.commands # <<>> /\ u.commands \in Seq(Command)
      /\ u.skill \notin {"beBuilt", "die", "gone"}
  BY <1>1, UnitOf, HeadOf
<1>3. StoreHeld[x] = StoreHeld[u]
  <2>1. q \in Seq(Command) /\ "stop" \in Skill
    BY <1>2 DEF Skill, Class
  <2> HIDE DEF q, u
  <2> QED
    BY <1>2, <2>1, StoreHeldOf
<1>4. StoreHeld[units[b]] = 0 /\ StoreHeld[y] = Store[t]
  BY <1>1, <1>2, StoreOfBorn
<1> HIDE DEF x, y
<1>5. /\ Sane'
      /\ \A h \in [Unit -> Int] :
             Weight(h, units') = Weight(h, units) - h[units[i]] + h[x] - h[units[b]] + h[y]
  BY <1>1, TwoReplaced
<1>6. Weight(StoreHeld, units') = Weight(StoreHeld, units) - StoreHeld[units[i]] + StoreHeld[x]
                                  - StoreHeld[units[b]] + StoreHeld[y]
  BY <1>5, StoreHeldType
<1>7. StoreHeld[u] \in Int /\ Store[t] \in Int /\ store \in Int
  BY <1>1, <1>2, StoreHeldType, UsesAndYields, AccountFields
<1> HIDE DEF t
<1>8. store' = Weight(StoreHeld, units')
  BY <1>1, <1>3, <1>4, <1>6, <1>7 DEF StoreOK, u
<1> QED
  BY <1>5, <1>8 DEF StoreOK

LEMMA BooksOfKill ==
    ASSUME Sane, StoreOK, NEW i \in Id, Kill(i)
    PROVE  Sane' /\ StoreOK'
<1> DEFINE x == Doing(units[i], <<>>, "die")
<1>1. Replaces(i, x) /\ Account' \in Solvent /\ store' = store - StoreHeld[units[i]]
  BY KillStep
<1>2. StoreHeld[x] = 0
  <2>1. <<>> \in Seq(Command) /\ "die" \in Skill
    BY DEF Skill
  <2> QED
    BY <2>1, UnitOf, StoreHeldOf
<1>3. StoreHeld[units[i]] \in Int /\ store \in Int
  BY UnitOf, StoreHeldType, AccountFields
<1> HIDE DEF x
<1>4. store' = store - StoreHeld[units[i]] + StoreHeld[x]
  BY <1>1, <1>2, <1>3
<1> QED
  BY <1>1, <1>4, StoreReplaced

LEMMA BooksOfUpdate ==
    ASSUME Sane, StoreOK, NEW i \in Id, Update(i)
    PROVE  Sane' /\ StoreOK'
<1>0. {"produce", "upgrade", "morph", "stop"} \subseteq Class
  BY DEF Class
<1>1. CASE BeginTask(i)
  <2>1. PICK class \in {"produce", "upgrade", "morph"} :
            Has(i, class) /\ units' = [units EXCEPT ![i].skill = class]
    BY <1>1 DEF BeginTask
  <2> QED
    BY <1>0, <1>1, <2>1, BooksOfSkill DEF BeginTask
<1>2. CASE NoRoomToMorph(i)
  BY <1>2, BooksOfCancelLast DEF NoRoomToMorph
<1>3. CASE FinishProduction(i)
  <2> DEFINE t == Current(i).what
             x == Doing(units[i], Tail(units[i].commands), "stop")
             y == NewUnit(t, "stop")
  <2>1. /\ Has(i, "produce") /\ t \in UnitType /\ Adds(i, x, y)
        /\ Account' \in Solvent /\ store' = store + Store[t]
    BY <1>3, FinishProductionStep
  <2>2. StoreHeld[y] = Store[t]
    BY <2>1, StoreOfNew
  <2>3. StoreHeld[x] = StoreHeld[units[i]]
    <3>1. /\ units[i].commands # <<>> /\ units[i].commands \in Seq(Command)
          /\ units[i].skill \notin {"beBuilt", "die", "gone"} /\ units[i] \in Unit
      BY <2>1, HeadOf, UnitOf
    <3>2. Tail(units[i].commands) \in Seq(Command) /\ "stop" \in Skill
      BY <3>1 DEF Skill, Class
    <3> QED
      BY <3>1, <3>2, StoreHeldOf
  <2> HIDE DEF x, y
  <2> QED
    BY <2>1, <2>2, <2>3, StoreAddedUnit
<1>4. CASE NoPlaceForProduct(i)
  <2>1. /\ Has(i, "produce") /\ units' = [units EXCEPT ![i] = Finished(@)]
        /\ UNCHANGED <<gold, food, store, upgrades>>
    BY <1>4 DEF NoPlaceForProduct
  <2> QED
    BY <2>1, AccountSame, FinishedStep, BooksOfFinished
<1>5. CASE FinishUpgrade(i)
  BY <1>5, FinishUpgradeStep, BooksOfFinished
<1>6. CASE FinishMorph(i)
  BY <1>6, BooksOfFinishMorph
<1>7. CASE BeginBuilding(i)
  <2> DEFINE u == units[i]
             t == Current(i).what
             site == Len(units) + 1
             x == [u EXCEPT !.skill = "build", !.target = site,
                            !.commands = Begun(u.commands, site)]
             y == NewUnit(t, "beBuilt")
  <2>1. /\ Has(i, "build") /\ t \in UnitType /\ Adds(i, x, y)
        /\ UNCHANGED <<gold, food, store, upgrades>>
    BY <1>7, BeginBuildingStep
  <2>2. u \in Unit /\ u.skill \notin {"beBuilt", "die", "gone"}
    BY <2>1, HeadOf, UnitOf
  <2>3. StoreHeld[y] = 0
    BY <2>1, StoreOfNew
  <2>4. x \in Unit /\ x.skill = "build" /\ x.type = u.type
    BY <2>1, <2>2 DEF Adds, Unit
  <2> HIDE DEF x, y
  <2>5. StoreHeld[x] = StoreHeld[units[i]]
    BY <2>2, <2>4 DEF StoreHeld, OnMap, IsBeingBuilt
  <2>6. store' = store + StoreHeld[y] /\ Account' \in Solvent
    BY <2>1, <2>3, AccountSame, AccountFields
  <2> QED
    BY <2>1, <2>5, <2>6, StoreAddedUnit
<1>8. CASE NoPlaceToBuild(i)
  BY <1>8, BooksOfCancelLast DEF NoPlaceToBuild
<1>9. CASE Distracted(i)
  BY <1>0, <1>9, BooksOfSkill DEF Distracted
<1>10. CASE NothingToBuild(i)
  <2>1. /\ Has(i, "build") /\ units' = [units EXCEPT ![i] = Finished(@)]
        /\ UNCHANGED <<gold, food, store, upgrades>>
    BY <1>10 DEF NothingToBuild
  <2> QED
    BY <2>1, AccountSame, FinishedStep, BooksOfFinished
<1>11. CASE FinishBuilding(i)
  BY <1>11, BooksOfFinishBuilding
<1>12. CASE Kill(i)
  BY <1>12, BooksOfKill
<1> QED
  BY <1>1, <1>2, <1>3, <1>4, <1>5, <1>6, <1>7, <1>8, <1>9, <1>10, <1>11, <1>12 DEF Update

LEMMA BooksStep ==
    ASSUME Sane, StoreOK, [Next]_vars
    PROVE  Sane' /\ StoreOK'
<1>1. ASSUME NEW i \in Id, Player(i) PROVE Sane' /\ StoreOK'
  BY <1>1, BooksOfPlayer
<1>2. ASSUME NEW i \in Id, Update(i) PROVE Sane' /\ StoreOK'
  BY <1>2, BooksOfUpdate
<1>3. ASSUME NEW i \in Id, Repair(i) PROVE Sane' /\ StoreOK'
  <2> DEFINE x == Doing(units[i], units[i].commands, "stop")
  <2>1. /\ IsBeingBuilt(units[i]) /\ units[i].commands = <<>> /\ units[i].type \in UnitType
        /\ Replaces(i, x) /\ Account' \in Solvent /\ store' = store + Store[units[i].type]
    BY <1>3, RepairStep
  <2>2. StoreHeld[units[i]] = 0 /\ StoreHeld[x] = Store[units[i].type]
    BY <2>1, UnitOf, StoreOfBorn
  <2>3. store \in Int /\ Store[units[i].type] \in Int
    BY <2>1, AccountFields, UsesAndYields
  <2> HIDE DEF x
  <2> QED
    BY <2>1, <2>2, <2>3, StoreReplaced
<1>4. ASSUME NEW i \in Id, DecHp(i) PROVE Sane' /\ StoreOK'
  <2> DEFINE x == [units[i] EXCEPT !.alive = FALSE]
  <2>1. Replaces(i, x) /\ UNCHANGED <<gold, food, store, upgrades>>
    BY <1>4, DecHpStep
  <2>2. units[i] \in Unit /\ x \in Unit /\ x.skill = units[i].skill /\ x.type = units[i].type
    BY <2>1, UnitOf DEF Replaces, Unit
  <2> HIDE DEF x
  <2>3. StoreHeld[x] = StoreHeld[units[i]] /\ StoreHeld[units[i]] \in Int
    BY <2>2, StoreHeldType DEF StoreHeld, OnMap, IsBeingBuilt
  <2>4. store' = store - StoreHeld[units[i]] + StoreHeld[x]
    BY <2>1, <2>3, AccountFields
  <2> QED
    BY <2>1, <2>4, AccountSame, StoreReplaced
<1>5. ASSUME NEW i \in Id, Undertake(i) PROVE Sane' /\ StoreOK'
  <2>1. /\ units[i].skill = "die" /\ units[i] \in Unit /\ units[i].commands \in Seq(Command)
        /\ Replaces(i, Doing(units[i], units[i].commands, "gone"))
        /\ UNCHANGED <<gold, food, store, upgrades>> /\ "gone" \in Skill
    BY <1>5, UndertakeStep, UnitOf, UnitFields DEF Skill
  <2> QED
    BY <2>1, AccountSame, StoreKept
<1>6. CASE Harvest
  <2>1. Account' \in Solvent /\ UNCHANGED <<units, food, store, upgrades>>
    BY <1>6, HarvestStep
  <2>2. Sane'
    BY <2>1 DEF Sane, Id
  <2> QED
    BY <2>1, <2>2 DEF StoreOK
<1>7. CASE UNCHANGED vars
  <2>1. Sane'
    BY <1>7, AccountSame DEF Sane, Id, vars
  <2> QED
    BY <1>7, <2>1 DEF StoreOK, vars
<1> QED
  BY <1>1, <1>2, <1>3, <1>4, <1>5, <1>6, <1>7 DEF Next


\* The first units are born, and the gold the faction has fits into their store.
LEMMA BooksInit ==
    ASSUME Init
    PROVE  Sane /\ StoreOK
<1> DEFINE n == Len(Starting)
           f == [i \in 1 .. n |-> Store[Starting[i]]]
           g == [i \in 1 .. n |-> Food[Starting[i]]]
<1>1. /\ n \in Nat /\ DOMAIN Starting = 1 .. n /\ n <= MaxUnits
      /\ \A i \in 1 .. n : Starting[i] \in UnitType
  BY StartingAssumption
<1>2. /\ units = [i \in 1 .. n |-> NewUnit(Starting[i], "stop")]
      /\ gold = InitGold /\ food = InitFood - SumFunction(g) /\ store = SumFunction(f)
      /\ upgrades = Manager!NoUpgrades
  BY <1>1 DEF Init
<1>3. f \in [1 .. n -> Int] /\ g \in [1 .. n -> Int]
  BY <1>1, UsesAndYields
<1>4. /\ units \in Seq(Unit) /\ Len(units) = n
      /\ \A i \in 1 .. n : units[i] = NewUnit(Starting[i], "stop") /\ QueueOK(units[i], n)
  <2>1. ASSUME NEW i \in 1 .. n
        PROVE  NewUnit(Starting[i], "stop") \in Unit /\ QueueOK(NewUnit(Starting[i], "stop"), n)
    BY <1>1, NewUnitFits
  <2> QED
    BY <1>1, <1>2, <2>1
<1>5. \A i \in 1 .. n : StoreHeld[units[i]] = Store[Starting[i]]
  BY <1>1, <1>4, StoreOfNew
<1>6. SumFunction(f) = Weight(StoreHeld, units)
  <2>1. DOMAIN units = 1 .. n
    BY <1>2
  <2>2. [k \in DOMAIN units |-> StoreHeld[units[k]]] = f
    BY <1>5, <2>1
  <2> QED
    BY <2>2 DEF Weight
<1>7. SumFunction(f) \in Nat
  <2>1. \A k \in 1 .. Len(units) : StoreHeld[units[k]] >= 0
    BY <1>1, <1>4, <1>5, UsesAndYields
  <2> QED
    BY <1>4, <1>6, <2>1, StoreHeldType, WeightNotNegative
<1>8. SumFunction(g) \in Int
  <2>1. SumFunction(g) = SumFunctionOnSet(g, 1 .. n)
    BY DEF SumFunction, SumFunctionOnSet, FoldFunction
  <2>2. n \in 0 .. n
    BY <1>1
  <2> HIDE DEF g
  <2> QED
    <3>1. n \in Nat /\ g \in [1 .. n -> Int]
      BY <1>1, <1>3
    <3> HIDE DEF n
    <3>2. SumFunctionOnSet(g, 1 .. n) \in Int
      BY <2>2, <3>1, SumList
    <3> QED
      BY <2>1, <3>2
<1>9. Manager!NoUpgrades \in Managers
  <2>1. <<>> \in Seq(Research) /\ Len(<<>>) = 0
    OBVIOUS
  <2> QED
    BY <2>1 DEF Manager!NoUpgrades, Managers
<1>10. InitGold \in Nat /\ InitFood \in Int /\ InitGold <= SumFunction(f)
  BY <1>1, CostAssumption
<1> HIDE DEF f, g
<1>11. Account \in Solvent
  BY <1>2, <1>7, <1>8, <1>9, <1>10 DEF Account, Solvent
<1>12. Sane
  BY <1>1, <1>4, <1>11 DEF Sane, Id
<1> QED
  BY <1>2, <1>6, <1>12 DEF StoreOK

LEMMA SaneTypes == Sane => TypeOK
<1> SUFFICES ASSUME Sane PROVE TypeOK
  OBVIOUS
<1>1. ASSUME NEW i \in Id
      PROVE  /\ units[i].type \in UnitType
             /\ units[i].skill \in Class \cup {"beBuilt", "die", "gone"}
             /\ units[i].alive \in BOOLEAN
             /\ units[i].target \in Id \cup {None}
             /\ Len(units[i].commands) <= MaxQueue
             /\ \A k \in DOMAIN units[i].commands :
                   /\ [class |-> units[i].commands[k].class, what |-> units[i].commands[k].what]
                         \in UNION {Orders[t] : t \in UnitType}
                   /\ units[i].commands[k].site \in Id \cup {None}
  <2> DEFINE u == units[i]
  <2>1. u \in Unit /\ QueueOK(u, Len(units)) /\ Len(units) \in Nat
    BY UnitOf
  <2> HIDE DEF u
  <2>2. /\ u.type \in UnitType /\ u.skill \in Skill /\ u.alive \in BOOLEAN
        /\ u.commands \in Seq(Command) /\ u.target \in Nat /\ u.target <= Len(units)
        /\ Len(u.commands) <= MaxQueue
    BY <2>1, UnitFields DEF QueueOK
  <2>3. u.target \in Id \cup {None}
    BY <2>1, <2>2 DEF Id, None
  <2>4. ASSUME NEW k \in DOMAIN u.commands
        PROVE  /\ [class |-> u.commands[k].class, what |-> u.commands[k].what]
                     \in UNION {Orders[t] : t \in UnitType}
               /\ u.commands[k].site \in Id \cup {None}
    <3>1. k \in 1 .. Len(u.commands) /\ u.commands[k] \in Command
      BY <2>2
    <3>2. CommandOK(u, k, Len(units)) /\ u.commands[k].site \in Nat
      BY <2>1, <3>1, CommandFields DEF QueueOK
    <3>3. /\ u.commands[k].site <= Len(units)
          /\ [class |-> u.commands[k].class, what |-> u.commands[k].what] \in Orders[u.type]
      BY <3>2 DEF CommandOK
    <3>4. u.commands[k].site \in Id \cup {None}
      BY <2>1, <3>2, <3>3 DEF Id, None
    <3> QED
      BY <2>2, <3>3, <3>4
  <2> QED
    BY <2>2, <2>3, <2>4 DEF u, Skill
<1>2. gold \in Nat /\ food \in Int /\ store \in Nat
  BY DEF Sane, Account, Solvent
<1>3. /\ upgrades.list \in Seq([type : Upgrade, state : {"upgrading", "upgraded"}])
      /\ upgrades.index \in [Upgrade -> 0 .. Len(upgrades.list)]
  <2>1. upgrades \in Managers
    BY AccountFields
  <2>2. /\ upgrades.list \in Seq(Research) /\ upgrades.index \in [Upgrade -> Nat]
        /\ Len(upgrades.list) \in Nat
        /\ \A u \in Upgrade : upgrades.index[u] <= Len(upgrades.list)
    BY <2>1 DEF Managers
  <2> QED
    BY <2>2 DEF Research
<1> QED
  BY <1>1, <1>2, <1>3 DEF TypeOK, Sane

\* The units, their queues and the account have their types.  (By Sane a queue even holds
\* only what its unit's own type may be ordered, whatever it was before.)
THEOREM TypeCorrect == Spec => []TypeOK
<1>1. Init => Sane /\ StoreOK
  BY BooksInit
<1>2. Sane /\ StoreOK /\ [Next]_vars => (Sane /\ StoreOK)'
  BY BooksStep
<1>3. Sane => TypeOK
  BY SaneTypes
<1> QED
  BY <1>1, <1>2, <1>3, PTL DEF Spec

\* The store (Faction's store amounts, addStore and removeStore) is what the units
\* that are born and not dead can hold, whatever was built, repaired, morphed or
\* killed, and the gold always fits into it.
THEOREM StoreIsTheUnitsHolds == Spec => []StoreIsTheUnits
<1>1. Init => Sane /\ StoreOK
  BY BooksInit
<1>2. Sane /\ StoreOK /\ [Next]_vars => (Sane /\ StoreOK)'
  BY BooksStep
<1>3. Sane /\ StoreOK => StoreIsTheUnits
  <2> SUFFICES ASSUME Sane, StoreOK PROVE StoreIsTheUnits
    OBVIOUS
  <2> DEFINE f == [i \in Id |-> IF OnMap(units[i]) /\ ~IsBeingBuilt(units[i])
                                   THEN Store[units[i].type] ELSE 0]
  <2>1. units \in Seq(Unit) /\ \A i \in Id : units[i] \in Unit
    BY DEF Sane, Id
  <2>2. f = [k \in DOMAIN units |-> StoreHeld[units[k]]]
    BY <2>1 DEF StoreHeld, Id
  <2>3. store = SumFunction(f)
    BY <2>2 DEF StoreOK, Weight
  <2>4. gold <= store
    BY DEF Sane, Account, Solvent
  <2> QED
    BY <2>3, <2>4 DEF StoreIsTheUnits
<1> QED
  BY <1>1, <1>2, <1>3, PTL DEF Spec


-----------------------------------------------------------------------------
(* Food is conserved. *)

Committed == [c \in Command |-> HeldByCommand(c)]

\* The food a unit of a type uses, by what it does.
Bound(t, s) == IF s \in {"die", "gone"} THEN 0 ELSE IF s = "beBuilt" THEN Uses(t) ELSE Food[t]

Held == [u \in Unit |-> Bound(u.type, u.skill) + Weight(Committed, u.commands)]

LEMMA CommittedType ==
    /\ Committed \in [Command -> Int]
    /\ \A c \in Command :
          Committed[c] = IF c.class = "build" /\ c.site # None THEN 0 ELSE Uses(c.what)
<1>1. \A c \in Command : Uses(c.what) \in Int
  BY CommandFields, UsesAndYields
<1>2. \A c \in Command : c.class = "upgrade" => Uses(c.what) = 0
  BY CommandFields, UsesAndYields
<1>3. ASSUME NEW c \in Command
      PROVE  Committed[c] = IF c.class = "build" /\ c.site # None THEN 0 ELSE Uses(c.what)
  BY <1>2, CommandFields DEF Committed, HeldByCommand
<1>4. Committed \in [Command -> Int]
  BY <1>1 DEF Committed, HeldByCommand
<1> QED
  BY <1>3, <1>4

LEMMA BoundType == \A t \in UnitType : \A s : Bound(t, s) \in Int
  BY UsesAndYields DEF Bound

LEMMA HeldType == Held \in [Unit -> Int]
<1>1. ASSUME NEW u \in Unit
      PROVE  Bound(u.type, u.skill) + Weight(Committed, u.commands) \in Int
  <2>1. u.type \in UnitType /\ u.commands \in Seq(Command)
    BY UnitFields
  <2>2. Weight(Committed, u.commands) \in Int
    BY <2>1, CommittedType, WeightSteps
  <2> QED
    BY <2>1, <2>2, BoundType
<1> QED
  BY <1>1 DEF Held

LEMMA HeldOf ==
    ASSUME NEW u \in Unit, NEW q \in Seq(Command), NEW s \in Skill
    PROVE  /\ Held[u] = Bound(u.type, u.skill) + Weight(Committed, u.commands)
           /\ Held[Doing(u, q, s)] = Bound(u.type, s) + Weight(Committed, q)
           /\ Weight(Committed, u.commands) \in Int /\ Weight(Committed, q) \in Int
           /\ Bound(u.type, u.skill) \in Int /\ Bound(u.type, s) \in Int
<1>1. u.type \in UnitType /\ u.commands \in Seq(Command)
  BY UnitFields
<1>2. Weight(Committed, u.commands) \in Int /\ Weight(Committed, q) \in Int
  BY <1>1, CommittedType, WeightSteps
<1>3. \A x \in Unit : Held[x] = Bound(x.type, x.skill) + Weight(Committed, x.commands)
  BY DEF Held
<1> DEFINE x == Doing(u, q, s)
<1>4. x \in Unit /\ x.type = u.type /\ x.skill = s /\ x.commands = q
  BY DoingFields
<1> HIDE DEF x
<1>5. Held[x] = Bound(u.type, s) + Weight(Committed, q)
  BY <1>3, <1>4
<1>6. Held[u] = Bound(u.type, u.skill) + Weight(Committed, u.commands)
  BY <1>3
<1>7. Bound(u.type, u.skill) \in Int /\ Bound(u.type, s) \in Int
  BY <1>1, BoundType
<1> QED
  BY <1>2, <1>5, <1>6, <1>7 DEF x

LEMMA BalanceIs ==
    Sane => Balance = food + Weight(Held, units) /\ Weight(Held, units) \in Int
<1> SUFFICES ASSUME Sane
             PROVE  Balance = food + Weight(Held, units) /\ Weight(Held, units) \in Int
  OBVIOUS
<1>1. units \in Seq(Unit)
  BY DEF Sane
<1>2. ASSUME NEW i \in DOMAIN units
      PROVE  HeldByUnit(units[i])
             + SumFunction([k \in DOMAIN units[i].commands |-> HeldByCommand(units[i].commands[k])])
             = Held[units[i]]
  <2> DEFINE u == units[i]
             f == [k \in DOMAIN u.commands |-> HeldByCommand(u.commands[k])]
  <2>1. u \in Unit
    BY <1>1
  <2> HIDE DEF u
  <2>2. u.commands \in Seq(Command)
    BY <2>1, UnitFields
  <2>3. f = [k \in DOMAIN u.commands |-> Committed[u.commands[k]]]
    BY <2>2 DEF Committed
  <2>4. SumFunction(f) = Weight(Committed, u.commands)
    BY <2>3 DEF Weight
  <2>5. HeldByUnit(u) = Bound(u.type, u.skill)
    BY DEF HeldByUnit, OnMap, IsBeingBuilt, Bound
  <2>6. HeldByUnit(u) + SumFunction(f) = Held[u]
    BY <2>1, <2>4, <2>5 DEF Held
  <2> QED
    BY <2>6 DEF u
<1>3. DOMAIN units = Id
  BY <1>1 DEF Id
<1>4. [i \in Id |-> HeldByUnit(units[i])
             + SumFunction([k \in DOMAIN units[i].commands |-> HeldByCommand(units[i].commands[k])])]
      = [i \in DOMAIN units |-> Held[units[i]]]
  BY <1>2, <1>3
<1>5. Balance = food + Weight(Held, units)
  BY <1>4 DEF Balance, Weight
<1> QED
  BY <1>1, <1>5, HeldType, WeightSteps

LEMMA BalanceReplaced ==
    ASSUME Sane, NEW i, NEW x, Replaces(i, x), Account' \in Solvent,
           food' = (food + Held[units[i]]) - Held[x]
    PROVE  Balance' = Balance
<1>1. /\ Sane' /\ units[i] \in Unit
      /\ \A h \in [Unit -> Int] : Weight(h, units') = Weight(h, units) - h[units[i]] + h[x]
  BY UnitReplaced
<1>2. Weight(Held, units') = Weight(Held, units) - Held[units[i]] + Held[x]
  BY <1>1, HeldType
<1>3. Held[units[i]] \in Int /\ Held[x] \in Int /\ food \in Int
  BY <1>1, HeldType, AccountFields DEF Replaces
<1>4. Balance = food + Weight(Held, units) /\ Weight(Held, units) \in Int
  BY BalanceIs
<1>5. (Balance = food + Weight(Held, units) /\ Weight(Held, units) \in Int)'
  BY <1>1, BalanceIs, PTL
<1>6. Balance' = food' + Weight(Held, units')
  BY <1>5
<1> QED
  BY <1>2, <1>3, <1>4, <1>6


LEMMA BalanceAdded ==
    ASSUME Sane, NEW i, NEW x, NEW y, Adds(i, x, y), Account' \in Solvent,
           food' = ((food + Held[units[i]]) - Held[x]) - Held[y]
    PROVE  Balance' = Balance
<1>1. /\ Sane' /\ units[i] \in Unit
      /\ \A h \in [Unit -> Int] :
             Weight(h, units') = Weight(h, units) - h[units[i]] + h[x] + h[y]
  BY UnitAdded
<1>2. Weight(Held, units') = Weight(Held, units) - Held[units[i]] + Held[x] + Held[y]
  BY <1>1, HeldType
<1>3. Held[units[i]] \in Int /\ Held[x] \in Int /\ Held[y] \in Int /\ food \in Int
  BY <1>1, HeldType, AccountFields DEF Adds
<1>4. Balance = food + Weight(Held, units) /\ Weight(Held, units) \in Int
  BY BalanceIs
<1>5. (Balance = food + Weight(Held, units) /\ Weight(Held, units) \in Int)'
  BY <1>1, BalanceIs, PTL
<1>6. Balance' = food' + Weight(Held, units')
  BY <1>5
<1> QED
  BY <1>2, <1>3, <1>4, <1>6

\* What a unit's type and skill bind does not change with its commands, as long as it
\* does neither build itself nor die.
LEMMA BalanceOfQueue ==
    ASSUME Sane, NEW i \in Id, NEW q \in Seq(Command), NEW s \in Skill,
           Replaces(i, Doing(units[i], q, s)), Account' \in Solvent,
           s = units[i].skill \/ {s, units[i].skill} \cap {"beBuilt", "die", "gone"} = {},
           food' = (food + Weight(Committed, units[i].commands)) - Weight(Committed, q)
    PROVE  Balance' = Balance
<1> DEFINE u == units[i]
<1>1. u \in Unit /\ u.type \in UnitType
  BY UnitOf, UnitFields
<1>2. Bound(u.type, s) = Bound(u.type, u.skill)
  BY DEF Bound
<1>3. /\ Held[u] = Bound(u.type, u.skill) + Weight(Committed, u.commands)
      /\ Held[Doing(u, q, s)] = Bound(u.type, s) + Weight(Committed, q)
      /\ Weight(Committed, u.commands) \in Int /\ Weight(Committed, q) \in Int
      /\ Bound(u.type, u.skill) \in Int
  BY <1>1, HeldOf
<1>4. food \in Int
  BY AccountFields
<1> HIDE DEF u
<1>5. food' = (food + Held[u]) - Held[Doing(u, q, s)]
  BY <1>2, <1>3, <1>4 DEF u
<1> QED
  BY <1>5, BalanceReplaced DEF u

\* The commands that undoing returns what they are worth for.
LEMMA WellJudged ==
    ASSUME Sane, NEW i \in Id, ~Misjudged(i), units[i].skill # "die"
    PROVE  \A k \in 1 .. Len(units[i].commands) :
               Refund(units[i])[units[i].commands[k]] = Committed[units[i].commands[k]]
<1> DEFINE u == units[i]
<1>1. /\ u.commands \in Seq(Command) /\ DOMAIN u.commands = 1 .. Len(u.commands)
      /\ \A k \in 1 .. Len(u.commands) : u.commands[k] \in Command
  BY UnitOf, UnitFields
<1>2. ASSUME NEW k \in 1 .. Len(u.commands)
      PROVE  Refund(u)[u.commands[k]] = Committed[u.commands[k]]
  <2> DEFINE c == u.commands[k]
  <2>1. c \in Command /\ (c.class = "build" => ((u.skill = "build") <=> (c.site # None)))
    BY <1>1 DEF Misjudged
  <2> HIDE DEF c
  <2>2. Committed[c] = IF c.class = "build" /\ c.site # None THEN 0 ELSE Uses(c.what)
    BY <2>1, CommittedType
  <2>3. Refund(u)[c] = IF c.class = "build" /\ u.skill \in {"build", "die"} THEN 0 ELSE Uses(c.what)
    BY <2>1 DEF Refund
  <2>4. Refund(u)[c] = Committed[c]
    BY <2>1, <2>2, <2>3
  <2> QED
    BY <2>4 DEF c
<1> QED
  BY <1>2

\* An order only undoes commands of the queue.
LEMMA ReplacedAreOf ==
    ASSUME NEW q \in Seq(Command), NEW gone \in Seq(Command), NEW kept \in Seq(Command),
           \A h \in [Command -> Int] : Weight(h, gone) + Weight(h, kept) = Weight(h, q)
    PROVE  \A k \in 1 .. Len(gone) : \E j \in 1 .. Len(q) : gone[k] = q[j]
<1> DEFINE h == [c \in Command |-> IF \E j \in 1 .. Len(q) : c = q[j] THEN 0 ELSE 1]
<1>1. h \in [Command -> Int] /\ \A c \in Command : h[c] >= 0
  OBVIOUS
<1>2. \A c \in Command : h[c] = IF \E j \in 1 .. Len(q) : c = q[j] THEN 0 ELSE 1
  OBVIOUS
<1>3. /\ \A k \in 1 .. Len(gone) : gone[k] \in Command
      /\ \A k \in 1 .. Len(kept) : kept[k] \in Command
      /\ \A k \in 1 .. Len(q) : q[k] \in Command
  OBVIOUS
<1> HIDE DEF h
<1>4. Weight(h, q) = 0
  <2>1. \A k \in 1 .. Len(q) : h[q[k]] = 0
    BY <1>2, <1>3
  <2> QED
    BY <1>1, <2>1, WeightZero
<1>5. Weight(h, gone) + Weight(h, kept) = 0
  BY <1>1, <1>4
<1>6. /\ Weight(h, gone) \in Nat /\ Weight(h, kept) \in Nat
      /\ \A k \in 1 .. Len(gone) : h[gone[k]] <= Weight(h, gone)
  BY <1>1, <1>3, WeightNotNegative
<1>7. Weight(h, gone) = 0
  BY <1>5, <1>6
<1> TAKE k \in 1 .. Len(gone)
<1>8. h[gone[k]] <= 0
  BY <1>6, <1>7
<1>9. (~ \E j \in 1 .. Len(q) : gone[k] = q[j]) => h[gone[k]] = 1
  BY <1>2, <1>3
<1> QED
  BY <1>8, <1>9


LEMMA FoodOfGiveCommand ==
    ASSUME Sane, NEW i \in Id, NEW o \in Orders[units[i].type], NEW p \in BOOLEAN,
           GiveCommand(i, o, p), ~Misjudged(i)
    PROVE  Balance' = Balance
<1> DEFINE u    == units[i]
           gone == Replaced(u, o, p)
           kept == Kept(u, o, p)
           a    == UndoCommands(Account, u, gone)
           us   == [units EXCEPT ![i].commands = kept]
           new  == [class |-> o.class, what |-> o.what, site |-> None]
           ok   == o.class # "stop" /\ CheckCommand(a, us, i, o)
           q    == IF ok THEN Append(kept, new) ELSE kept
<1>1. /\ gone \in Seq(Command) /\ kept \in Seq(Command) /\ OnMap(u)
      /\ \A h \in [Command -> Int] : Weight(h, gone) + Weight(h, kept) = Weight(h, u.commands)
      /\ Replaces(i, Doing(u, q, u.skill)) /\ Account' \in Solvent
      /\ food' = food + Weight(Refund(u), gone) - (IF ok THEN Uses(o.what) ELSE 0)
  BY GiveCommandStep
<1>2. u \in Unit /\ u.type \in UnitType /\ u.skill \in Skill /\ u.commands \in Seq(Command)
  BY UnitOf, UnitFields
<1>3. ok => new \in Command /\ Committed[new] = Uses(o.what) /\ Uses(o.what) \in Int
  <2>1. ok => /\ [class |-> o.class, what |-> o.what, site |-> None] \in Command
    BY <1>2, Classes
  <2>2. new.site = None /\ new.what = o.what
    OBVIOUS
  <2>3. ok => new \in Command
    BY <2>1
  <2> HIDE DEF new, ok
  <2>4. ok => Committed[new] = Uses(new.what) /\ Committed[new] \in Int
    BY <2>2, <2>3, CommittedType
  <2> QED
    BY <2>2, <2>3, <2>4
<1>4. \A k \in 1 .. Len(u.commands) : Refund(u)[u.commands[k]] = Committed[u.commands[k]]
  BY <1>1, WellJudged DEF OnMap
<1> HIDE DEF gone, kept, new, ok, u
<1>5. \A k \in 1 .. Len(gone) : \E j \in 1 .. Len(u.commands) : gone[k] = u.commands[j]
  BY <1>1, <1>2, ReplacedAreOf
<1>6. \A k \in 1 .. Len(gone) : Refund(u)[gone[k]] = Committed[gone[k]]
  BY <1>4, <1>5
<1>7. Refund(u) \in [Command -> Int] /\ Committed \in [Command -> Int]
  BY RefundType, CommittedType
<1>8. Weight(Refund(u), gone) = Weight(Committed, gone)
  <2> DEFINE h == Refund(u)
             g == Committed
  <2>1. h \in [Command -> Int] /\ g \in [Command -> Int] /\ \A k \in 1 .. Len(gone) : h[gone[k]] = g[gone[k]]
    BY <1>6, <1>7
  <2> HIDE DEF h, g
  <2>2. Weight(h, gone) = Weight(g, gone)
    BY <1>1, <2>1, WeightAgree
  <2> QED
    BY <2>2 DEF h, g
<1>9. /\ Weight(Committed, gone) + Weight(Committed, kept) = Weight(Committed, u.commands)
      /\ Weight(Committed, gone) \in Int /\ Weight(Committed, kept) \in Int
      /\ Weight(Committed, u.commands) \in Int /\ food \in Int
  BY <1>1, <1>2, <1>7, WeightSteps, AccountFields
<1>10. q \in Seq(Command) /\ food' = (food + Weight(Committed, u.commands)) - Weight(Committed, q)
  <2>1. CASE ok
    <3>1. q = Append(kept, new) /\ food' = food + Weight(Refund(u), gone) - Uses(o.what)
      BY <1>1, <2>1
    <3>2. new \in Command /\ Uses(o.what) \in Int /\ Committed[new] = Uses(o.what)
      BY <1>3, <2>1
    <3>3. /\ Append(kept, new) \in Seq(Command)
          /\ Weight(Committed, Append(kept, new)) = Weight(Committed, kept) + Committed[new]
      BY <1>1, <1>7, <3>2, WeightAppend
    <3> QED
      BY <1>8, <1>9, <3>1, <3>2, <3>3
  <2>2. CASE ~ok
    <3>1. q = kept /\ food' = food + Weight(Refund(u), gone) - 0
      BY <1>1, <2>2
    <3> QED
      BY <1>1, <1>8, <1>9, <3>1
  <2> QED
    BY <2>1, <2>2
<1> HIDE DEF q
<1>11. Replaces(i, Doing(units[i], q, units[i].skill)) /\ units[i].skill \in Skill
  BY <1>1, <1>2 DEF u
<1>12. food' = (food + Weight(Committed, units[i].commands)) - Weight(Committed, q)
  BY <1>10 DEF u
<1> QED
  BY <1>1, <1>10, <1>11, <1>12, BalanceOfQueue

LEMMA FoodOfCancelLast ==
    ASSUME Sane, NEW i \in Id, NEW s \in {units[i].skill, "stop"}, CancelLast(i, s), ~Misjudged(i)
    PROVE  Balance' = Balance
<1> DEFINE u == units[i]
           q == Front(u.commands)
           c == Last(u.commands)
<1>1. /\ u.commands # <<>> /\ u.commands \in Seq(Command) /\ c \in Command
      /\ u.skill \notin {"beBuilt", "die", "gone"}
      /\ Replaces(i, Doing(u, q, s)) /\ Account' \in Solvent
      /\ food' = food + Refund(u)[c]
  BY CancelLastStep
<1>2. \A k \in 1 .. Len(u.commands) : Refund(u)[u.commands[k]] = Committed[u.commands[k]]
  BY <1>1, WellJudged
<1> HIDE DEF u
<1>3. c = u.commands[Len(u.commands)] /\ Len(u.commands) \in Nat \ {0}
  BY <1>1, FrontFacts
<1>4. Refund(u)[c] = Committed[c]
  BY <1>2, <1>3
<1>5. /\ q \in Seq(Command) /\ Weight(Committed, u.commands) = Weight(Committed, q) + Committed[c]
  BY <1>1, CommittedType, WeightFront
<1>6. Weight(Committed, q) \in Int /\ Committed[c] \in Int /\ food \in Int
  BY <1>1, <1>5, CommittedType, WeightSteps, AccountFields
<1> HIDE DEF q, c
<1>7. food' = (food + Weight(Committed, u.commands)) - Weight(Committed, q)
  BY <1>1, <1>4, <1>5, <1>6
<1>8. s \in Skill /\ (s = units[i].skill \/ {s, units[i].skill} \cap {"beBuilt", "die", "gone"} = {})
  BY <1>1, UnitOf, UnitFields DEF Skill, Class, u
<1>9. /\ Replaces(i, Doing(units[i], q, s))
      /\ food' = (food + Weight(Committed, units[i].commands)) - Weight(Committed, q)
  BY <1>1, <1>7 DEF u
<1> QED
  BY <1>1, <1>5, <1>8, <1>9, BalanceOfQueue

\* A command that is finished: what it was worth has gone to another account.
LEMMA FoodOfFinished ==
    ASSUME Sane, NEW i \in Id, NEW class, Has(i, class),
           Replaces(i, Doing(units[i], Tail(units[i].commands), "stop")),
           Account' \in Solvent, food' = food, Committed[Current(i)] = 0
    PROVE  Balance' = Balance
<1> DEFINE u == units[i]
           q == Tail(u.commands)
<1>1. /\ u.commands # <<>> /\ u.commands \in Seq(Command) /\ Current(i) = Head(u.commands)
      /\ u.skill \notin {"beBuilt", "die", "gone"}
  BY HeadOf DEF Current
<1> HIDE DEF u
<1>2. q \in Seq(Command) /\ Weight(Committed, u.commands) = Committed[Current(i)] + Weight(Committed, q)
  BY <1>1, CommittedType, WeightTail
<1>3. Weight(Committed, q) \in Int /\ food \in Int
  BY <1>2, CommittedType, WeightSteps, AccountFields
<1>4. food' = (food + Weight(Committed, u.commands)) - Weight(Committed, q)
  BY <1>2, <1>3
<1>5. Replaces(i, Doing(u, q, "stop")) /\ "stop" \in Skill
  BY DEF u, Skill, Class
<1> HIDE DEF q
<1>6. {"stop", units[i].skill} \cap {"beBuilt", "die", "gone"} = {}
  BY <1>1 DEF u
<1>7. /\ Replaces(i, Doing(units[i], q, "stop"))
      /\ food' = (food + Weight(Committed, units[i].commands)) - Weight(Committed, q)
  BY <1>4, <1>5 DEF u
<1> QED
  BY <1>2, <1>5, <1>6, <1>7, BalanceOfQueue


\* A command is begun or not as the skill says, so that a builder that builds has
\* nothing left to pay for.
LEMMA BegunIsPaid ==
    ASSUME Sane, NEW i \in Id, Has(i, "build"), ~Misjudged(i)
    PROVE  (units[i].skill = "build") <=> (Current(i).site # None)
<1>1. /\ units[i].commands \in Seq(Command) /\ 1 \in 1 .. Len(units[i].commands)
      /\ units[i].commands[1] = Current(i) /\ Current(i).class = "build"
  BY HeadOf
<1>2. 1 \in DOMAIN units[i].commands
  BY <1>1
<1> QED
  BY <1>1, <1>2 DEF Misjudged

LEMMA FoodOfFinishProduction ==
    ASSUME Sane, NEW i \in Id, FinishProduction(i)
    PROVE  Balance' = Balance
<1> DEFINE u == units[i]
           t == Current(i).what
           q == Tail(u.commands)
           x == Doing(u, q, "stop")
           y == NewUnit(t, "stop")
<1>1. /\ Has(i, "produce") /\ t \in UnitType /\ Adds(i, x, y) /\ Account' \in Solvent
      /\ food' = food + Yields(t)
  BY FinishProductionStep
<1>2. /\ u.commands # <<>> /\ u.commands \in Seq(Command) /\ Current(i) = Head(u.commands)
      /\ Current(i) \in Command /\ Current(i).class = "produce"
      /\ u.skill \notin {"beBuilt", "die", "gone"} /\ u \in Unit
  BY <1>1, HeadOf, UnitOf DEF Current
<1>3. Held[y] = Food[t]
  <2>1. y \in Unit /\ y.type = t /\ y.skill = "stop" /\ y.commands = <<>>
    BY <1>1, NewUnitFits DEF Adds, NewUnit
  <2> HIDE DEF y
  <2>2. Held[y] = Bound(t, "stop") + Weight(Committed, <<>>)
    BY <2>1 DEF Held
  <2>3. Bound(t, "stop") = Food[t] /\ Food[t] \in Int /\ Weight(Committed, <<>>) = 0
    BY <1>1, WeightOfEmpty, CommittedType, UsesAndYields DEF Bound
  <2> QED
    BY <2>2, <2>3
<1>4. /\ Held[u] = Bound(u.type, u.skill) + Weight(Committed, u.commands)
      /\ Held[x] = Bound(u.type, "stop") + Weight(Committed, q)
      /\ Bound(u.type, "stop") = Bound(u.type, u.skill) /\ Bound(u.type, u.skill) \in Int
      /\ Weight(Committed, q) \in Int
  <2>1. q \in Seq(Command) /\ "stop" \in Skill
    BY <1>2 DEF Skill, Class
  <2> HIDE DEF q
  <2>2. Bound(u.type, "stop") = Bound(u.type, u.skill)
    BY <1>2 DEF Bound
  <2> HIDE DEF u
  <2> QED
    BY <1>2, <2>1, <2>2, HeldOf
<1>5. Weight(Committed, u.commands) = Uses(t) + Weight(Committed, q)
  <2> HIDE DEF u
  <2>1. Weight(Committed, u.commands) = Committed[Current(i)] + Weight(Committed, q)
    BY <1>2, CommittedType, WeightTail
  <2>2. Committed[Current(i)] = Uses(t)
    BY <1>2, CommittedType
  <2> QED
    BY <2>1, <2>2
<1>6. food \in Int /\ Food[t] = Uses(t) - Yields(t) /\ Uses(t) \in Int /\ Yields(t) \in Int
  BY <1>1, UsesAndYields, AccountFields
<1> HIDE DEF u, t, q, x, y
<1>7. food' = ((food + Held[u]) - Held[x]) - Held[y]
  BY <1>1, <1>3, <1>4, <1>5, <1>6
<1> QED
  BY <1>1, <1>7, BalanceAdded DEF u

LEMMA FoodOfFinishMorph ==
    ASSUME Sane, StoreOK, NEW i \in Id, FinishMorph(i)
    PROVE  Balance' = Balance
<1> DEFINE u == units[i]
           t == Current(i).what
           y == Doing(u, <<>>, "stop")
           x == [y EXCEPT !.type = t]
<1>1. /\ Has(i, "morph") /\ t \in UnitType /\ Len(u.commands) = 1 /\ Replaces(i, x)
      /\ Account' \in Solvent /\ food' = food + Food[u.type] + Yields(t)
  BY FinishMorphStep
<1>2. /\ u.commands # <<>> /\ u.commands \in Seq(Command) /\ Current(i) = Head(u.commands)
      /\ Current(i) \in Command /\ Current(i).class = "morph" /\ u.type \in UnitType
      /\ u.skill \notin {"beBuilt", "die", "gone"} /\ u \in Unit
  BY <1>1, HeadOf, UnitOf, UnitFields DEF Current
<1>3. Held[x] = Food[t]
  <2>0. <<>> \in Seq(Command) /\ "stop" \in Skill
    BY DEF Skill, Class
  <2>1. y \in Unit /\ y.skill = "stop" /\ y.commands = <<>>
    <3> HIDE DEF u
    <3>1. u \in Unit
      BY <1>2
    <3> QED
      BY <2>0, <3>1, DoingFields
  <2> HIDE DEF y
  <2>2. x.type = t /\ x.skill = "stop" /\ x.commands = <<>> /\ x \in Unit
    BY <1>1, <2>1 DEF Unit, Replaces
  <2> HIDE DEF x
  <2>3. Held[x] = Bound(t, "stop") + Weight(Committed, <<>>)
    BY <2>2 DEF Held
  <2>4. Bound(t, "stop") = Food[t] /\ Food[t] \in Int /\ Weight(Committed, <<>>) = 0
    BY <1>1, WeightOfEmpty, CommittedType, UsesAndYields DEF Bound
  <2> QED
    BY <2>3, <2>4
<1>4. Held[u] = Food[u.type] + Uses(t)
  <2>1. Held[u] = Bound(u.type, u.skill) + Weight(Committed, u.commands)
    BY <1>2 DEF Held
  <2>2. Bound(u.type, u.skill) = Food[u.type]
    BY <1>2 DEF Bound
  <2> HIDE DEF u
  <2>3. Weight(Committed, u.commands) = Committed[Current(i)] + Weight(Committed, Tail(u.commands))
    BY <1>2, CommittedType, WeightTail
  <2>4. Tail(u.commands) = <<>>
    <3> DEFINE q == Tail(u.commands)
    <3>1. q \in Seq(Command) /\ Len(q) = 0
      BY <1>1, <1>2
    <3> HIDE DEF q
    <3>2. q = <<>>
      BY <3>1
    <3> QED
      BY <3>2 DEF q
  <2>5. Weight(Committed, <<>>) = 0 /\ Committed[Current(i)] = Uses(t) /\ Uses(t) \in Int
    BY <1>1, <1>2, WeightOfEmpty, CommittedType, UsesAndYields
  <2> HIDE DEF t
  <2>6. Weight(Committed, Tail(u.commands)) = 0
    BY <2>4, <2>5
  <2>7. Weight(Committed, u.commands) = Uses(t)
    BY <2>3, <2>5, <2>6
  <2> QED
    BY <2>1, <2>2, <2>7
<1> HIDE DEF u, t, x
<1>5. /\ food \in Int /\ Food[t] = Uses(t) - Yields(t) /\ Uses(t) \in Int /\ Yields(t) \in Int
      /\ Food[u.type] \in Int
  BY <1>1, <1>2, UsesAndYields, AccountFields
<1>6. food' = (food + Held[u]) - Held[x]
  BY <1>1, <1>3, <1>4, <1>5
<1> QED
  BY <1>1, <1>6, BalanceReplaced DEF u


LEMMA FoodOfBeginBuilding ==
    ASSUME Sane, NEW i \in Id, BeginBuilding(i), ~Misjudged(i)
    PROVE  Balance' = Balance
<1> DEFINE u == units[i]
           t == Current(i).what
           site == Len(units) + 1
           q == Begun(u.commands, site)
           x == [u EXCEPT !.skill = "build", !.target = site, !.commands = q]
           y == NewUnit(t, "beBuilt")
<1>1. /\ Has(i, "build") /\ u.skill # "build" /\ t \in UnitType /\ Adds(i, x, y)
      /\ UNCHANGED <<gold, food, store, upgrades>>
  BY BeginBuildingStep
<1>2. /\ u.commands # <<>> /\ u.commands \in Seq(Command) /\ Current(i) = u.commands[1]
      /\ Current(i) \in Command /\ Current(i).class = "build"
      /\ u.skill \notin {"beBuilt", "die", "gone"} /\ u \in Unit /\ u.type \in UnitType
      /\ Len(units) \in Nat
  BY <1>1, HeadOf, UnitOf, UnitFields
<1>3. Current(i).site = None
  BY <1>1, BegunIsPaid
<1>4. Held[y] = Uses(t) /\ Uses(t) \in Int
  <2>1. y \in Unit /\ y.type = t /\ y.skill = "beBuilt" /\ y.commands = <<>>
    BY <1>1, NewUnitFits DEF Adds, NewUnit
  <2> HIDE DEF y
  <2>2. Held[y] = Bound(t, "beBuilt") + Weight(Committed, <<>>)
    BY <2>1 DEF Held
  <2>3. Bound(t, "beBuilt") = Uses(t) /\ Uses(t) \in Int /\ Weight(Committed, <<>>) = 0
    BY <1>1, WeightOfEmpty, CommittedType, UsesAndYields DEF Bound
  <2> QED
    BY <2>2, <2>3
<1>5. site \in Nat /\ site # None
  BY <1>2 DEF None
<1> HIDE DEF site
<1>6. /\ q \in Seq(Command) /\ q[1] \in Command /\ q[1].class = "build" /\ q[1].site = site
      /\ Weight(Committed, q) = Weight(Committed, u.commands) - Committed[u.commands[1]] + Committed[q[1]]
  <2> DEFINE r == u.commands
             h == Committed
  <2>1. r # <<>> /\ r \in Seq(Command) /\ r[1].class = "build"
    BY <1>2
  <2>2. h \in [Command -> Int]
    BY CommittedType
  <2> SUFFICES /\ q \in Seq(Command) /\ q[1] \in Command /\ q[1].class = "build" /\ q[1].site = site
               /\ Weight(h, q) = Weight(h, r) - h[r[1]] + h[q[1]]
    OBVIOUS
  <2>3. q = Begun(r, site)
    OBVIOUS
  <2> HIDE DEF u, r, h, q
  <2>4. /\ Begun(r, site) \in Seq(Command) /\ Begun(r, site)[1] \in Command
        /\ Begun(r, site)[1].class = r[1].class /\ Begun(r, site)[1].site = site
        /\ Weight(h, Begun(r, site)) = Weight(h, r) - h[r[1]] + h[Begun(r, site)[1]]
    BY <1>5, <2>1, <2>2, BegunFacts
  <2> QED
    BY <2>1, <2>3, <2>4
<1>7. Committed[u.commands[1]] = Uses(t) /\ Committed[q[1]] = 0
  <2>1. Committed[Current(i)] = Uses(t)
    BY <1>2, <1>3, CommittedType
  <2> HIDE DEF q
  <2>2. Committed[q[1]] = 0
    BY <1>5, <1>6, CommittedType
  <2> QED
    BY <1>2, <2>1, <2>2
<1>8. /\ Held[u] = Bound(u.type, u.skill) + Weight(Committed, u.commands)
      /\ Held[x] = Bound(u.type, u.skill) + Weight(Committed, q)
  <2> HIDE DEF q
  <2>1. x \in Unit /\ x.type = u.type /\ x.skill = "build" /\ x.commands = q
    BY <1>1, <1>2 DEF Adds, Unit
  <2>2. Bound(u.type, "build") = Bound(u.type, u.skill)
    BY <1>2 DEF Bound
  <2> HIDE DEF x, u
  <2> QED
    BY <1>2, <2>1, <2>2 DEF Held
<1>9. Weight(Committed, u.commands) \in Int /\ Bound(u.type, u.skill) \in Int /\ food \in Int
  BY <1>2, CommittedType, WeightSteps, BoundType, AccountFields
<1> HIDE DEF u, t, q, x, y
<1>10. food' = ((food + Held[u]) - Held[x]) - Held[y]
  BY <1>1, <1>4, <1>6, <1>7, <1>8, <1>9
<1>11. Account' \in Solvent
  BY <1>1, AccountSame
<1> QED
  BY <1>1, <1>10, <1>11, BalanceAdded DEF u

LEMMA FoodOfFinishBuilding ==
    ASSUME Sane, NEW i \in Id, FinishBuilding(i)
    PROVE  Balance' = Balance
<1> DEFINE u == units[i]
           b == AtTarget(i)
           q == Tail(u.commands)
           x == Doing(u, q, "stop")
           y == Doing(units[b], <<>>, "stop")
           t == units[b].type
<1>1. /\ Has(i, "build") /\ u.skill = "build" /\ b = Current(i).site
      /\ b \in Id /\ IsBeingBuilt(units[b]) /\ units[b].commands = <<>>
      /\ ReplacesTwo(i, b, x, y) /\ t \in UnitType
      /\ Account' \in Solvent /\ food' = food + Yields(t)
  BY FinishBuildingStep
<1> HIDE DEF b
<1>2. /\ u.commands # <<>> /\ u.commands \in Seq(Command) /\ Current(i) = Head(u.commands)
      /\ Current(i) \in Command /\ Current(i).class = "build"
      /\ u \in Unit /\ u.type \in UnitType /\ units[b] \in Unit
  BY <1>1, HeadOf, UnitOf, UnitFields DEF Current
<1>3. Weight(Committed, u.commands) = Weight(Committed, q) /\ Weight(Committed, q) \in Int
  <2> HIDE DEF u
  <2>1. q \in Seq(Command) /\ Weight(Committed, u.commands) = Committed[Current(i)] + Weight(Committed, q)
    BY <1>2, CommittedType, WeightTail
  <2>2. Current(i).site # None
    BY <1>1 DEF Id, None
  <2>3. Committed[Current(i)] = 0
    BY <1>2, <2>2, CommittedType
  <2>4. Weight(Committed, q) \in Int
    BY <2>1, CommittedType, WeightSteps
  <2> QED
    BY <2>1, <2>3, <2>4
<1>4. Held[x] = Held[u]
  <2>1. q \in Seq(Command) /\ "stop" \in Skill
    BY <1>2 DEF Skill, Class
  <2>2. Bound(u.type, "stop") = Bound(u.type, u.skill)
    BY <1>1 DEF Bound
  <2> HIDE DEF q, u
  <2>3. /\ Held[u] = Bound(u.type, u.skill) + Weight(Committed, u.commands)
        /\ Held[x] = Bound(u.type, "stop") + Weight(Committed, q)
    BY <1>2, <2>1, HeldOf
  <2> QED
    BY <1>3, <2>2, <2>3
<1>5. Held[units[b]] = Uses(t) /\ Held[y] = Food[t]
  <2> DEFINE v == units[b]
  <2>1. v \in Unit /\ v.commands = <<>> /\ v.skill = "beBuilt" /\ v.type = t
    BY <1>1, <1>2 DEF IsBeingBuilt
  <2>2. <<>> \in Seq(Command) /\ "stop" \in Skill
    BY DEF Skill, Class
  <2> HIDE DEF v
  <2>3. /\ Held[v] = Bound(v.type, v.skill) + Weight(Committed, v.commands)
        /\ Held[Doing(v, <<>>, "stop")] = Bound(v.type, "stop") + Weight(Committed, <<>>)
    BY <2>1, <2>2, HeldOf
  <2>4. /\ Bound(t, "stop") = Food[t] /\ Food[t] \in Int /\ Weight(Committed, <<>>) = 0
        /\ Bound(t, "beBuilt") = Uses(t) /\ Uses(t) \in Int
    BY <1>1, WeightOfEmpty, CommittedType, UsesAndYields DEF Bound
  <2> HIDE DEF t
  <2>5. Held[v] = Uses(t) /\ Held[Doing(v, <<>>, "stop")] = Food[t]
    BY <2>1, <2>3, <2>4
  <2> QED
    BY <2>5 DEF v
<1> HIDE DEF u, q, x, y, t
<1>6. /\ Sane'
      /\ \A h \in [Unit -> Int] :
             Weight(h, units') = Weight(h, units) - h[units[i]] + h[x] - h[units[b]] + h[y]
  BY <1>1, TwoReplaced
<1>7. Weight(Held, units') = Weight(Held, units) - Held[units[i]] + Held[x] - Held[units[b]] + Held[y]
  BY <1>6, HeldType
<1>8. Held[u] \in Int /\ food \in Int
  BY <1>2, HeldType, AccountFields
<1>9. /\ Food[t] = Uses(t) - Yields(t) /\ Uses(t) \in Int /\ Yields(t) \in Int
  BY <1>1, UsesAndYields
<1>10. Balance = food + Weight(Held, units) /\ Weight(Held, units) \in Int
  BY BalanceIs
<1>11. (Balance = food + Weight(Held, units) /\ Weight(Held, units) \in Int)'
  BY <1>6, BalanceIs, PTL
<1>12. Balance' = food' + Weight(Held, units')
  BY <1>11
<1>13. Weight(Held, units') = Weight(Held, units) - Yields(t)
  BY <1>4, <1>5, <1>7, <1>8, <1>9, <1>10 DEF u
<1> QED
  BY <1>1, <1>8, <1>9, <1>10, <1>12, <1>13

LEMMA FoodOfKill ==
    ASSUME Sane, StoreOK, NEW i \in Id, Kill(i), ~Misjudged(i)
    PROVE  Balance' = Balance
<1> DEFINE u == units[i]
           x == Doing(u, <<>>, "die")
<1>1. /\ OnMap(u) /\ u.commands \in Seq(Command) /\ Replaces(i, x) /\ Account' \in Solvent
      /\ food' = food + HeldByUnit(u) + Weight(Refund(u), u.commands)
  BY KillStep
<1>2. u \in Unit
  BY UnitOf
<1>3. \A k \in 1 .. Len(u.commands) : Refund(u)[u.commands[k]] = Committed[u.commands[k]]
  BY <1>1, WellJudged DEF OnMap
<1> HIDE DEF u
<1>4. Weight(Refund(u), u.commands) = Weight(Committed, u.commands)
  <2> DEFINE h == Refund(u)
  <2>1. \A k \in 1 .. Len(u.commands) : h[u.commands[k]] = Committed[u.commands[k]]
    BY <1>3
  <2> HIDE DEF h
  <2>2. Weight(h, u.commands) = Weight(Committed, u.commands)
    BY <1>1, <2>1, WeightAgree
  <2> QED
    BY <2>2 DEF h
<1>5. HeldByUnit(u) = Bound(u.type, u.skill)
  BY DEF HeldByUnit, OnMap, IsBeingBuilt, Bound
<1>6. /\ Held[u] = Bound(u.type, u.skill) + Weight(Committed, u.commands)
      /\ Held[x] = 0
      /\ Weight(Committed, u.commands) \in Int /\ Bound(u.type, u.skill) \in Int
  <2>1. <<>> \in Seq(Command) /\ "die" \in Skill
    BY DEF Skill
  <2>2. Bound(u.type, "die") = 0 /\ Weight(Committed, <<>>) = 0
    BY CommittedType, WeightOfEmpty DEF Bound
  <2>3. /\ Held[u] = Bound(u.type, u.skill) + Weight(Committed, u.commands)
        /\ Held[Doing(u, <<>>, "die")] = Bound(u.type, "die") + Weight(Committed, <<>>)
        /\ Weight(Committed, u.commands) \in Int /\ Bound(u.type, u.skill) \in Int
    BY <1>2, <2>1, HeldOf
  <2> QED
    BY <2>2, <2>3
<1>7. food \in Int
  BY AccountFields
<1> HIDE DEF x
<1>8. food' = (food + Held[u]) - Held[x]
  BY <1>1, <1>4, <1>5, <1>6, <1>7
<1> QED
  BY <1>1, <1>8, BalanceReplaced DEF u

\* A unit does something else, and its queue stays.
LEMMA FoodOfSkill ==
    ASSUME Sane, StoreOK, NEW i \in Id, NEW class, Has(i, class), NEW s \in Class,
           units' = [units EXCEPT ![i].skill = s],
           UNCHANGED <<gold, food, store, upgrades>>
    PROVE  Balance' = Balance
<1>1. /\ Account' \in Solvent /\ Replaces(i, Doing(units[i], units[i].commands, s))
      /\ units[i].skill \notin {"beBuilt", "die", "gone"} /\ units[i].commands \in Seq(Command)
  BY BooksOfSkill, HeadOf
<1>2. s \in Skill /\ {s, units[i].skill} \cap {"beBuilt", "die", "gone"} = {}
  BY <1>1 DEF Skill, Class
<1>3. Weight(Committed, units[i].commands) \in Int /\ food \in Int /\ food' = food
  BY <1>1, CommittedType, WeightSteps, AccountFields
<1>4. food' = (food + Weight(Committed, units[i].commands)) - Weight(Committed, units[i].commands)
  BY <1>3
<1> QED
  BY <1>1, <1>2, <1>4, BalanceOfQueue

LEMMA FoodOfPlayer ==
    ASSUME Sane, StoreOK, NEW i \in Id, Player(i), ~Misjudged(i)
    PROVE  Balance' = Balance
<1>1. ASSUME NEW o \in Orders[units[i].type], NEW p \in BOOLEAN, GiveCommand(i, o, p)
      PROVE  Balance' = Balance
  BY <1>1, FoodOfGiveCommand
<1>2. CASE CancelCommand(i)
  BY <1>2, FoodOfCancelLast DEF CancelCommand
<1> QED
  BY <1>1, <1>2 DEF Player

LEMMA FoodOfUpdate ==
    ASSUME Sane, StoreOK, NEW i \in Id, Update(i), ~Misjudged(i), ~NoPlaceForProduct(i)
    PROVE  Balance' = Balance
<1>0. {"produce", "upgrade", "morph", "stop"} \subseteq Class
  BY DEF Class
<1>1. CASE BeginTask(i)
  <2>1. PICK class \in {"produce", "upgrade", "morph"} :
            Has(i, class) /\ units' = [units EXCEPT ![i].skill = class]
    BY <1>1 DEF BeginTask
  <2> QED
    BY <1>0, <1>1, <2>1, FoodOfSkill DEF BeginTask
<1>2. CASE NoRoomToMorph(i)
  BY <1>2, FoodOfCancelLast DEF NoRoomToMorph
<1>3. CASE FinishProduction(i)
  BY <1>3, FoodOfFinishProduction
<1>4. CASE FinishUpgrade(i)
  <2>1. /\ Has(i, "upgrade") /\ Current(i) \in Command /\ Current(i).class = "upgrade"
        /\ Replaces(i, Doing(units[i], Tail(units[i].commands), "stop"))
        /\ Account' \in Solvent /\ food' = food /\ Current(i).what \in Upgrade
    BY <1>4, FinishUpgradeStep, HeadOf
  <2>2. Committed[Current(i)] = 0
    BY <2>1, CommittedType, UsesAndYields
  <2> QED
    BY <2>1, <2>2, FoodOfFinished
<1>5. CASE FinishMorph(i)
  BY <1>5, FoodOfFinishMorph
<1>6. CASE BeginBuilding(i)
  BY <1>6, FoodOfBeginBuilding
<1>7. CASE NoPlaceToBuild(i)
  BY <1>7, FoodOfCancelLast DEF NoPlaceToBuild
<1>8. CASE Distracted(i)
  BY <1>0, <1>8, FoodOfSkill DEF Distracted
<1>9. CASE NothingToBuild(i)
  <2>1. /\ Has(i, "build") /\ units[i].skill = "build"
        /\ units' = [units EXCEPT ![i] = Finished(@)]
        /\ UNCHANGED <<gold, food, store, upgrades>>
    BY <1>9 DEF NothingToBuild
  <2>2. Current(i).site # None /\ Current(i) \in Command /\ Current(i).class = "build"
    BY <2>1, BegunIsPaid, HeadOf
  <2>3. Committed[Current(i)] = 0
    BY <2>2, CommittedType
  <2> QED
    BY <2>1, <2>3, AccountSame, FinishedStep, FoodOfFinished
<1>10. CASE FinishBuilding(i)
  BY <1>10, FoodOfFinishBuilding
<1>11. CASE Kill(i)
  BY <1>11, FoodOfKill
<1> QED
  BY <1>1, <1>2, <1>3, <1>4, <1>5, <1>6, <1>7, <1>8, <1>9, <1>10, <1>11 DEF Update


LEMMA FoodStep ==
    ASSUME Sane, StoreOK, Next, \A i \in Id : ~NoPlaceForProduct(i) /\ ~Misjudged(i)
    PROVE  Balance' = Balance
<1>1. ASSUME NEW i \in Id, Player(i) PROVE Balance' = Balance
  BY <1>1, FoodOfPlayer
<1>2. ASSUME NEW i \in Id, Update(i) PROVE Balance' = Balance
  BY <1>2, FoodOfUpdate
<1>3. ASSUME NEW i \in Id, Repair(i) PROVE Balance' = Balance
  <2> DEFINE u == units[i]
             x == Doing(u, u.commands, "stop")
             t == u.type
  <2>1. /\ IsBeingBuilt(u) /\ t \in UnitType /\ Replaces(i, x) /\ Account' \in Solvent
        /\ food' = food + Yields(t)
    BY <1>3, RepairStep
  <2>2. u \in Unit /\ u.commands \in Seq(Command) /\ "stop" \in Skill
    BY UnitOf, UnitFields DEF Skill, Class
  <2>3. Bound(t, "stop") = Food[t] /\ Bound(t, u.skill) = Uses(t)
    BY <2>1 DEF Bound, IsBeingBuilt
  <2> HIDE DEF u
  <2>4. /\ Held[u] = Bound(t, u.skill) + Weight(Committed, u.commands)
        /\ Held[x] = Bound(t, "stop") + Weight(Committed, u.commands)
        /\ Weight(Committed, u.commands) \in Int
    BY <2>2, HeldOf
  <2> HIDE DEF t, x
  <2>5. /\ food \in Int /\ Food[t] = Uses(t) - Yields(t) /\ Uses(t) \in Int /\ Yields(t) \in Int
    BY <2>1, UsesAndYields, AccountFields
  <2>6. food' = (food + Held[u]) - Held[x]
    BY <2>1, <2>3, <2>4, <2>5
  <2> QED
    BY <2>1, <2>6, BalanceReplaced DEF u
<1>4. ASSUME NEW i \in Id, DecHp(i) PROVE Balance' = Balance
  <2> DEFINE x == [units[i] EXCEPT !.alive = FALSE]
  <2>1. Replaces(i, x) /\ UNCHANGED <<gold, food, store, upgrades>>
    BY <1>4, DecHpStep
  <2>2. /\ units[i] \in Unit /\ x \in Unit /\ x.skill = units[i].skill
        /\ x.type = units[i].type /\ x.commands = units[i].commands
    BY <2>1, UnitOf DEF Replaces, Unit
  <2> HIDE DEF x
  <2>3. Held[x] = Held[units[i]] /\ Held[units[i]] \in Int
    BY <2>2, HeldType DEF Held
  <2>4. food' = (food + Held[units[i]]) - Held[x]
    BY <2>1, <2>3, AccountFields
  <2> QED
    BY <2>1, <2>4, AccountSame, BalanceReplaced
<1>5. ASSUME NEW i \in Id, Undertake(i) PROVE Balance' = Balance
  <2> DEFINE u == units[i]
             x == Doing(u, u.commands, "gone")
  <2>1. /\ u.skill = "die" /\ Replaces(i, x) /\ UNCHANGED <<gold, food, store, upgrades>>
    BY <1>5, UndertakeStep
  <2>2. u \in Unit /\ u.commands \in Seq(Command) /\ "gone" \in Skill
    BY UnitOf, UnitFields DEF Skill
  <2>3. Bound(u.type, "gone") = Bound(u.type, u.skill)
    BY <2>1 DEF Bound
  <2> HIDE DEF u
  <2>4. /\ Held[u] = Bound(u.type, u.skill) + Weight(Committed, u.commands)
        /\ Held[x] = Bound(u.type, "gone") + Weight(Committed, u.commands)
    BY <2>2, HeldOf
  <2> HIDE DEF x
  <2>5. Held[x] = Held[u] /\ Held[u] \in Int /\ food \in Int
    BY <2>2, <2>3, <2>4, HeldType, AccountFields
  <2>6. food' = (food + Held[u]) - Held[x]
    BY <2>1, <2>5
  <2> QED
    BY <2>1, <2>6, AccountSame, BalanceReplaced DEF u
<1>6. CASE Harvest
  <2>1. UNCHANGED <<units, food>>
    BY <1>6, HarvestStep
  <2> QED
    BY <2>1 DEF Balance, Id, HeldByUnit, OnMap, IsBeingBuilt, HeldByCommand
<1> QED
  BY <1>1, <1>2, <1>3, <1>4, <1>5, <1>6 DEF Next

\* Whatever is given, cancelled, built, morphed, repaired or killed (giveCommand,
\* cancelCommand, clearCommands, Unit::kill, the updates of UnitUpdater): the food a
\* faction has, and what is held for its units and commands, add up to the same,
\* but where a product finds no place or a build command is taken for begun.
THEOREM FoodIsConservedHolds == Spec => FoodIsConserved
<1>1. Init => Sane /\ StoreOK
  BY BooksInit
<1>2. Sane /\ StoreOK /\ [Next]_vars => (Sane /\ StoreOK)'
  BY BooksStep
<1>3. Sane /\ StoreOK /\ [Next]_vars =>
          [\/ Balance' = Balance
           \/ \E i \in Id : NoPlaceForProduct(i) \/ Misjudged(i)]_vars
  BY FoodStep
<1> QED
  BY <1>1, <1>2, <1>3, PTL DEF Spec, FoodIsConserved


-----------------------------------------------------------------------------
(* The limit of a type. *)

\* The units that are deleted; the commands that will make a unit of a type, and the
\* units that are one.
Lost == {j \in Id : units[j].skill = "gone"}

Ordered(t, G) ==
    [c \in Command |->
        IF /\ c.what = t
           /\ c.class \in {"produce", "morph"} \/ (c.class = "build" /\ c.site \in G \cup {None})
           THEN 1 ELSE 0]

Coming(t, G) == [u \in Unit |-> Weight(Ordered(t, G), u.commands)]

There(t) == [u \in Unit |-> IF u.type = t /\ u.alive THEN 1 ELSE 0]

Counted(t, G) == [u \in Unit |-> There(t)[u] + Coming(t, G)[u]]

LEMMA OrderedType ==
    ASSUME NEW t, NEW G
    PROVE  /\ Ordered(t, G) \in [Command -> Int]
           /\ \A c \in Command : Ordered(t, G)[c] \in {0, 1} /\ Ordered(t, G)[c] >= 0
  BY DEF Ordered

LEMMA CountedType ==
    ASSUME NEW t, NEW G
    PROVE  /\ There(t) \in [Unit -> Int] /\ Coming(t, G) \in [Unit -> Int]
           /\ Counted(t, G) \in [Unit -> Int]
           /\ \A u \in Unit : /\ There(t)[u] = IF u.type = t /\ u.alive THEN 1 ELSE 0
                              /\ Coming(t, G)[u] = Weight(Ordered(t, G), u.commands)
                              /\ Counted(t, G)[u] = There(t)[u] + Coming(t, G)[u]
                              /\ There(t)[u] \in Nat /\ Coming(t, G)[u] \in Nat
<1>1. There(t) \in [Unit -> Int] /\ \A u \in Unit : There(t)[u] \in Nat
  BY DEF There
<1>2. ASSUME NEW u \in Unit PROVE Weight(Ordered(t, G), u.commands) \in Nat
  <2>1. u.commands \in Seq(Command) /\ \A k \in 1 .. Len(u.commands) : u.commands[k] \in Command
    BY UnitFields
  <2>2. \A k \in 1 .. Len(u.commands) : Ordered(t, G)[u.commands[k]] >= 0
    BY <2>1, OrderedType
  <2> QED
    BY <2>1, <2>2, OrderedType, WeightNotNegative
<1>3. Coming(t, G) \in [Unit -> Int] /\ \A u \in Unit : Coming(t, G)[u] \in Nat
  BY <1>2 DEF Coming
<1>4. Counted(t, G) \in [Unit -> Int]
  BY <1>1, <1>3 DEF Counted
<1> QED
  BY <1>1, <1>3, <1>4 DEF There, Coming, Counted

\* What Faction's count is, for lists of units whose building sites are units.
LEMMA CountIs ==
    ASSUME NEW us \in Seq(Unit), NEW t,
           \A i \in 1 .. Len(us) : \A k \in 1 .. Len(us[i].commands) :
               us[i].commands[k].site <= Len(units),
           Len(units) \in Nat
    PROVE  CountForMaxUnitCount(us, t) = Weight(Counted(t, Lost), us)
<1> DEFINE A == {u \in Unit : u.type = t /\ u.alive}
           o == Ordered(t, Lost)
           B == {c \in Command : o[c] = 1}
<1>1. DOMAIN us = 1 .. Len(us) /\ \A i \in 1 .. Len(us) : us[i] \in Unit
  OBVIOUS
<1>2. Cardinality({i \in DOMAIN us : us[i].type = t /\ us[i].alive}) = Weight(There(t), us)
  <2> DEFINE h == There(t)
             K == {i \in DOMAIN us : us[i].type = t /\ us[i].alive}
  <2>1. h \in [Unit -> Int] /\ K \in SUBSET (1 .. Len(us))
    BY <1>1, CountedType
  <2>2. ASSUME NEW i \in 1 .. Len(us)
        PROVE  h[us[i]] = IF i \in K THEN 1 ELSE 0
    <3>1. us[i] \in Unit /\ i \in DOMAIN us
      BY <1>1
    <3>2. h[us[i]] = IF us[i].type = t /\ us[i].alive THEN 1 ELSE 0
      BY <3>1, CountedType
    <3> QED
      BY <3>1, <3>2
  <2> SUFFICES Cardinality(K) = Weight(h, us)
    OBVIOUS
  <2> HIDE DEF K, h
  <2> QED
    BY <2>1, <2>2, CountIsWeight
<1>3. ASSUME NEW i \in 1 .. Len(us)
      PROVE  CountPreExistence(us[i], t) = Coming(t, Lost)[us[i]]
  <2> DEFINE u == us[i]
             q == u.commands
             K == {k \in DOMAIN q :
                     /\ q[k].what = t
                     /\ \/ q[k].class \in {"produce", "morph"}
                        \/ q[k].class = "build" /\ GetUnit(q[k]) = None}
  <2>1. /\ u \in Unit /\ q \in Seq(Command) /\ DOMAIN q = 1 .. Len(q)
        /\ \A k \in 1 .. Len(q) : q[k] \in Command /\ q[k].site <= Len(units)
    BY <1>1, UnitFields
  <2>2. ASSUME NEW k \in DOMAIN q
        PROVE  k \in K <=> q[k] \in B
    <3> DEFINE c == q[k]
    <3>1. c \in Command /\ c.site \in Nat /\ c.site <= Len(units)
      BY <2>1, CommandFields
    <3> HIDE DEF c
    <3>2. GetUnit(c) = None <=> c.site \in Lost \cup {None}
      BY <3>1 DEF GetUnit, Lost, Id, None
    <3>3. c \in B <=> /\ c.what = t
                      /\ \/ c.class \in {"produce", "morph"}
                         \/ c.class = "build" /\ c.site \in Lost \cup {None}
      BY <3>1 DEF Ordered
    <3> QED
      BY <3>2, <3>3 DEF c
  <2>3. K \in SUBSET (1 .. Len(q))
    BY <2>1
  <2>4. o \in [Command -> Int] /\ \A c \in Command : o[c] = IF c \in B THEN 1 ELSE 0
    BY OrderedType
  <2>8. \A k \in 1 .. Len(q) : o[q[k]] = IF k \in K THEN 1 ELSE 0
    BY <2>1, <2>2, <2>4
  <2>5. CountPreExistence(u, t) = Cardinality(K)
    BY DEF CountPreExistence
  <2>6. Coming(t, Lost)[u] = Weight(o, q)
    BY <2>1, CountedType
  <2> HIDE DEF K, B, q, o, u
  <2>7. Cardinality(K) = Weight(o, q)
    <3>1. q \in Seq(Command)
      BY <2>1
    <3>2. o \in [Command -> Int]
      BY <2>4
    <3> QED
      BY <3>1, <3>2, <2>3, <2>8, CountIsWeight
  <2> QED
    BY <2>5, <2>6, <2>7 DEF u
<1>4. SumFunction([i \in DOMAIN us |-> CountPreExistence(us[i], t)]) = Weight(Coming(t, Lost), us)
  <2>1. [i \in DOMAIN us |-> CountPreExistence(us[i], t)]
          = [i \in DOMAIN us |-> Coming(t, Lost)[us[i]]]
    BY <1>1, <1>3
  <2> QED
    BY <2>1 DEF Weight
<1>5. Weight(Counted(t, Lost), us) = Weight(There(t), us) + Weight(Coming(t, Lost), us)
  <2> DEFINE h == There(t)
             g == Coming(t, Lost)
             f == Counted(t, Lost)
  <2>1. /\ h \in [Unit -> Int] /\ g \in [Unit -> Int] /\ f \in [Unit -> Int]
        /\ \A u \in Unit : f[u] = h[u] + g[u]
    BY CountedType
  <2> HIDE DEF f, g, h
  <2>2. IsSumOn(Unit, f, h, g, us)
    BY <1>1, <2>1 DEF IsSumOn
  <2>3. Weight(f, us) = Weight(h, us) + Weight(g, us)
    BY <2>2, WeightOfSum
  <2> QED
    BY <2>3 DEF f, g, h
<1> QED
  BY <1>2, <1>4, <1>5 DEF CountForMaxUnitCount


\* u was made as a unit of type t: it is one, or it has become another.
Morphs(t) == \E o \in Orders[t] : o.class = "morph"

MadeAs(u, t) == u.type = t \/ Morphs(t)

\* The command a unit does first, if it has a building site: the building was made as
\* what the command says, and its builder builds unless the building is dead.
BuildOK(u, us) ==
    u.commands # <<>> /\ u.commands[1].site # None =>
        /\ MadeAs(us[u.commands[1].site], u.commands[1].what)
        /\ u.skill # "build" => ~us[u.commands[1].site].alive

\* A unit that others build has been killed.
BuiltLost(t) ==
    /\ \E b \in UNION {Orders[x] : x \in UnitType} : b.class = "build" /\ b.what = t
    /\ \E i \in Id : ~units[i].alive /\ MadeAs(units[i], t)

LimitOK(t) ==
    \/ MaxUnitCount[t] = 0
    \/ Weight(Counted(t, Lost), units) <= MaxUnitCount[t]
    \/ BuiltLost(t)

Within == /\ \A i \in Id : BuildOK(units[i], units)
          /\ \A t \in UnitType : LimitOK(t)

\* What a step does to the units that are there: none comes to life, and a type changes
\* by a morph.
Ages == /\ Id \subseteq Id'
        /\ \A j \in Id : /\ units'[j].alive => units[j].alive
                         /\ units'[j].type = units[j].type \/ Morphs(units[j].type)

LEMMA LostStays ==
    ASSUME Ages, NEW t, BuiltLost(t)
    PROVE  BuiltLost(t)'
<1>1. PICK i \in Id : ~units[i].alive /\ MadeAs(units[i], t)
  BY DEF BuiltLost
<1>2. i \in Id' /\ ~units'[i].alive /\ MadeAs(units'[i], t)
  BY <1>1 DEF Ages, MadeAs
<1> QED
  BY <1>2 DEF BuiltLost

LEMMA BuildStays ==
    ASSUME Sane, Ages, NEW u \in Unit, QueueOK(u, Len(units)), BuildOK(u, units)
    PROVE  BuildOK(u, units')
<1> SUFFICES ASSUME u.commands # <<>>, u.commands[1].site # None
             PROVE  /\ MadeAs(units'[u.commands[1].site], u.commands[1].what)
                    /\ u.skill # "build" => ~units'[u.commands[1].site].alive
  BY DEF BuildOK
<1> DEFINE s == u.commands[1].site
<1>1. u.commands \in Seq(Command) /\ 1 \in 1 .. Len(u.commands) /\ u.commands[1] \in Command
  BY UnitFields
<1>2. s \in Id
  <2>1. s \in Nat /\ s <= Len(units)
    BY <1>1, CommandFields DEF QueueOK, CommandOK
  <2> QED
    BY <2>1 DEF Id, None
<1>3. MadeAs(units[s], u.commands[1].what) /\ (u.skill # "build" => ~units[s].alive)
  BY DEF BuildOK
<1> HIDE DEF s
<1>4. /\ units'[s].alive => units[s].alive
      /\ units'[s].type = units[s].type \/ Morphs(units[s].type)
  BY <1>2 DEF Ages
<1>5. MadeAs(units'[s], u.commands[1].what) /\ (u.skill # "build" => ~units'[s].alive)
  BY <1>3, <1>4 DEF MadeAs
<1> QED
  BY <1>5 DEF s

LEMMA LimitStays ==
    ASSUME Ages, NEW t, LimitOK(t),
           \/ Weight(Counted(t, Lost'), units') <= Weight(Counted(t, Lost), units)
           \/ Weight(Counted(t, Lost'), units') <= MaxUnitCount[t]
           \/ BuiltLost(t),
           Weight(Counted(t, Lost'), units') \in Int,
           Weight(Counted(t, Lost), units) \in Int, MaxUnitCount[t] \in Int
    PROVE  LimitOK(t)'
<1>1. CASE MaxUnitCount[t] = 0
  BY <1>1 DEF LimitOK
<1>2. CASE BuiltLost(t)
  BY <1>2, LostStays DEF LimitOK
<1>3. CASE Weight(Counted(t, Lost'), units') <= MaxUnitCount[t]
  BY <1>3 DEF LimitOK
<1> QED
  BY <1>1, <1>2, <1>3 DEF LimitOK


\* What may take the place of the unit i: it does not count more, unless it may.
Milder(i, x) ==
    /\ x.alive => units[i].alive
    /\ x.type = units[i].type \/ Morphs(units[i].type)
    /\ x.skill = "gone" <=> units[i].skill = "gone"
    /\ BuildOK(x, units)
    /\ \A t \in UnitType :
          \/ Counted(t, Lost)[x] <= Counted(t, Lost)[units[i]]
          \/ MaxUnitCount[t] = 0
          \/ Weight(Counted(t, Lost), [units EXCEPT ![i] = x]) <= MaxUnitCount[t]

LEMMA WeightOfUnits ==
    ASSUME Sane, NEW t, NEW G
    PROVE  Weight(Counted(t, G), units) \in Int
BY CountedType, WeightSteps DEF Sane

LEMMA WithinReplaced ==
    ASSUME Sane, Within, NEW i, NEW x, Replaces(i, x), Milder(i, x), Account' \in Solvent
    PROVE  Within'
<1>1. /\ Sane' /\ Len(units') = Len(units) /\ units'[i] = x /\ units[i] \in Unit
      /\ \A j \in Id : j # i => units'[j] = units[j]
      /\ \A h \in [Unit -> Int] :
             Weight(h, units') = Weight(h, units) - h[units[i]] + h[x]
  BY UnitReplaced
<1>2. /\ i \in Id /\ x \in Unit /\ QueueOK(x, Len(units)) /\ Id' = Id
      /\ units' = [units EXCEPT ![i] = x]
  BY <1>1 DEF Replaces, Id
<1>3. Ages
  BY <1>1, <1>2 DEF Ages, Milder
<1>4. Lost' = Lost
  BY <1>1, <1>2 DEF Lost, Milder
<1>5. ASSUME NEW j \in Id PROVE BuildOK(units'[j], units')
  <2>1. CASE j = i
    BY <1>1, <1>2, <1>3, <2>1, BuildStays DEF Milder
  <2>2. CASE j # i
    <3>1. units[j] \in Unit /\ QueueOK(units[j], Len(units)) /\ BuildOK(units[j], units)
      BY UnitOf DEF Within
    <3> QED
      BY <1>1, <1>3, <2>2, <3>1, BuildStays
  <2> QED
    BY <2>1, <2>2
<1>6. ASSUME NEW t \in UnitType PROVE LimitOK(t)'
  <2> DEFINE h == Counted(t, Lost)
  <2>1. h \in [Unit -> Int] /\ MaxUnitCount[t] \in Int /\ LimitOK(t)
    BY CountedType, CostAssumption DEF Within
  <2>2. Weight(h, units) \in Int /\ Weight(Counted(t, Lost'), units') \in Int
    <3>1. Weight(h, units) \in Int
      BY WeightOfUnits
    <3>2. units' \in Seq(Unit)
      BY <1>1 DEF Sane
    <3>3. Weight(h, units') \in Int
      BY <2>1, <3>2, WeightSteps
    <3> QED
      BY <1>4, <3>1, <3>3
  <2>3. \/ h[x] <= h[units[i]]
        \/ MaxUnitCount[t] = 0
        \/ Weight(h, units') <= MaxUnitCount[t]
    BY <1>2 DEF Milder
  <2>4. Weight(Counted(t, Lost'), units') = Weight(h, units')
    BY <1>4
  <2> HIDE DEF h
  <2>5. CASE h[x] <= h[units[i]]
    <3>1. h[x] \in Int /\ h[units[i]] \in Int
      BY <1>1, <1>2, <2>1
    <3>2. Weight(h, units') = Weight(h, units) - h[units[i]] + h[x]
      BY <1>1, <2>1
    <3>3. Weight(h, units') <= Weight(h, units)
      BY <2>2, <2>5, <3>1, <3>2
    <3> QED
      BY <1>3, <2>1, <2>2, <2>4, <3>3, LimitStays DEF h
  <2>6. CASE MaxUnitCount[t] = 0
    BY <2>6 DEF LimitOK
  <2>7. CASE Weight(h, units') <= MaxUnitCount[t]
    BY <1>3, <2>1, <2>2, <2>4, <2>7, LimitStays DEF h
  <2> QED
    BY <2>3, <2>5, <2>6, <2>7
<1> QED
  BY <1>2, <1>5, <1>6 DEF Within

\* Fewer commands are no more units to come.
LEMMA CountedDoing ==
    ASSUME NEW u \in Unit, NEW q \in Seq(Command), NEW s \in Skill, NEW t, NEW G
    PROVE  LET o == Ordered(t, G)
           IN  Counted(t, G)[Doing(u, q, s)] - Weight(o, q) = Counted(t, G)[u] - Weight(o, u.commands)
<1> DEFINE x == Doing(u, q, s)
           o == Ordered(t, G)
           h == Counted(t, G)
<1>1. x \in Unit /\ x.commands = q /\ x.type = u.type /\ x.alive = u.alive
  BY DoingFields
<1>2. /\ h[x] = There(t)[x] + Coming(t, G)[x] /\ h[u] = There(t)[u] + Coming(t, G)[u]
      /\ Coming(t, G)[x] = Weight(o, x.commands) /\ Coming(t, G)[u] = Weight(o, u.commands)
      /\ There(t)[x] = There(t)[u]
      /\ There(t)[x] \in Int /\ Coming(t, G)[x] \in Int /\ Coming(t, G)[u] \in Int
  <2> HIDE DEF x
  <2>1. ASSUME NEW w \in Unit
        PROVE  /\ There(t)[w] = IF w.type = t /\ w.alive THEN 1 ELSE 0
               /\ Coming(t, G)[w] = Weight(Ordered(t, G), w.commands)
               /\ Counted(t, G)[w] = There(t)[w] + Coming(t, G)[w]
               /\ There(t)[w] \in Nat /\ Coming(t, G)[w] \in Nat
    BY CountedType
  <2>2. There(t)[x] = There(t)[u]
    BY <1>1, <2>1
  <2> QED
    BY <1>1, <2>1, <2>2
<1> SUFFICES h[x] - Weight(o, q) = h[u] - Weight(o, u.commands)
  OBVIOUS
<1> HIDE DEF h, o, x
<1>3. Weight(o, q) \in Int /\ Weight(o, u.commands) \in Int
  BY <1>1, <1>2
<1> QED
  BY <1>1, <1>2, <1>3


LEMMA OrderedWeights ==
    ASSUME NEW q \in Seq(Command), NEW t, NEW G
    PROVE  /\ Weight(Ordered(t, G), q) \in Nat
           /\ q # <<>> => /\ Weight(Ordered(t, G), Front(q)) <= Weight(Ordered(t, G), q)
                          /\ Weight(Ordered(t, G), q)
                                = Ordered(t, G)[q[1]] + Weight(Ordered(t, G), Tail(q))
                          /\ Weight(Ordered(t, G), Tail(q)) <= Weight(Ordered(t, G), q)
           /\ Weight(Ordered(t, G), <<>>) = 0
<1> DEFINE o == Ordered(t, G)
<1>1. o \in [Command -> Int] /\ \A c \in Command : o[c] \in {0, 1} /\ o[c] >= 0
  BY OrderedType
<1> SUFFICES /\ Weight(o, q) \in Nat
             /\ q # <<>> => /\ Weight(o, Front(q)) <= Weight(o, q)
                            /\ Weight(o, q) = o[q[1]] + Weight(o, Tail(q))
                            /\ Weight(o, Tail(q)) <= Weight(o, q)
             /\ Weight(o, <<>>) = 0
  OBVIOUS
<1> HIDE DEF o
<1>2. \A k \in 1 .. Len(q) : q[k] \in Command
  OBVIOUS
<1>3. Weight(o, q) \in Nat
  BY <1>1, <1>2, WeightNotNegative
<1>4. Weight(o, <<>>) = 0
  BY <1>1, WeightOfEmpty
<1>5. ASSUME q # <<>>
      PROVE  /\ Weight(o, Front(q)) <= Weight(o, q)
             /\ Weight(o, q) = o[q[1]] + Weight(o, Tail(q))
             /\ Weight(o, Tail(q)) <= Weight(o, q)
  <2>1. Front(q) \in Seq(Command) /\ Weight(o, q) = Weight(o, Front(q)) + o[Last(q)]
    BY <1>1, <1>5, WeightFront
  <2>2. Last(q) \in Command
    BY <1>5, FrontFacts
  <2>3. Tail(q) \in Seq(Command) /\ Weight(o, q) = o[Head(q)] + Weight(o, Tail(q))
    BY <1>1, <1>5, WeightTail
  <2>4. Head(q) = q[1] /\ q[1] \in Command
    BY <1>5
  <2>5. Weight(o, Front(q)) \in Int /\ Weight(o, Tail(q)) \in Int
    BY <1>1, <2>1, <2>3, WeightSteps
  <2>6. o[Last(q)] \in Int /\ o[Last(q)] >= 0 /\ o[q[1]] \in Int /\ o[q[1]] >= 0
    BY <1>1, <2>2, <2>4
  <2> QED
    BY <1>3, <2>1, <2>3, <2>4, <2>5, <2>6
<1> QED
  BY <1>3, <1>4, <1>5

\* Another queue, which weighs no more and begins no building.
LEMMA MilderQueue ==
    ASSUME Sane, NEW i \in Id, NEW q \in Seq(Command), NEW s \in Skill,
           s = "gone" <=> units[i].skill = "gone",
           \A t \in UnitType :
               Weight(Ordered(t, Lost), q) <= Weight(Ordered(t, Lost), units[i].commands),
           BuildOK(Doing(units[i], q, s), units)
    PROVE  Milder(i, Doing(units[i], q, s))
<1> DEFINE u == units[i]
           x == Doing(u, q, s)
<1>1. u \in Unit /\ u.commands \in Seq(Command)
  BY UnitOf, UnitFields
<1>2. x \in Unit /\ x.type = u.type /\ x.alive = u.alive /\ x.skill = s
  BY <1>1, DoingFields
<1>3. ASSUME NEW t \in UnitType PROVE Counted(t, Lost)[x] <= Counted(t, Lost)[u]
  <2> DEFINE o == Ordered(t, Lost)
             h == Counted(t, Lost)
  <2>1. h[x] - Weight(o, q) = h[u] - Weight(o, u.commands)
    BY <1>1, CountedDoing
  <2>2. h[x] \in Int /\ h[u] \in Int
    BY <1>1, <1>2, CountedType
  <2>3. Weight(o, q) \in Int /\ Weight(o, u.commands) \in Int
    BY <1>1, OrderedWeights
  <2>4. Weight(o, q) <= Weight(o, u.commands)
    OBVIOUS
  <2> HIDE DEF h, o, x, u
  <2>5. h[x] <= h[u]
    BY <2>1, <2>2, <2>3, <2>4
  <2> QED
    BY <2>5 DEF h
<1> QED
  BY <1>2, <1>3 DEF Milder

\* The queue without its last command, without its first, with none.
LEMMA MilderFront ==
    ASSUME Sane, Within, NEW i \in Id, units[i].commands # <<>>,
           units[i].skill \notin {"beBuilt", "die", "gone"}, NEW s \in Skill,
           s = units[i].skill \/ (units[i].skill # "build" /\ s = "stop")
    PROVE  Milder(i, Doing(units[i], Front(units[i].commands), s))
<1> DEFINE u == units[i]
           q == Front(u.commands)
           x == Doing(u, q, s)
<1>1. u \in Unit /\ u.commands \in Seq(Command) /\ BuildOK(u, units)
  BY UnitOf, UnitFields DEF Within
<1>2. /\ q \in Seq(Command) /\ Len(q) = Len(u.commands) - 1 /\ Len(u.commands) \in Nat \ {0}
      /\ \A k \in 1 .. Len(u.commands) - 1 : q[k] = u.commands[k]
  BY <1>1, FrontFacts
<1>3. \A t \in UnitType : Weight(Ordered(t, Lost), q) <= Weight(Ordered(t, Lost), u.commands)
  BY <1>1, OrderedWeights
<1>4. x.commands = q /\ x.skill = s
  BY <1>1, <1>2, DoingFields
<1> HIDE DEF q
<1>5. q # <<>> => q[1] = u.commands[1]
  <2>1. q # <<>> => 1 \in 1 .. Len(u.commands) - 1
    BY <1>2
  <2> QED
    BY <1>2, <2>1
<1> HIDE DEF x
<1>6. BuildOK(x, units)
  BY <1>1, <1>4, <1>5 DEF BuildOK
<1>7. s = "gone" <=> u.skill = "gone"
  OBVIOUS
<1> QED
  BY <1>2, <1>3, <1>6, <1>7, MilderQueue DEF q, x

LEMMA MilderTail ==
    ASSUME Sane, Within, NEW i \in Id, units[i].commands # <<>>
    PROVE  Milder(i, Doing(units[i], Tail(units[i].commands), "stop"))
<1> DEFINE u == units[i]
           q == Tail(u.commands)
           x == Doing(u, q, "stop")
<1>1. u \in Unit /\ u.commands \in Seq(Command) /\ QueueOK(u, Len(units))
  BY UnitOf, UnitFields
<1>2. /\ q \in Seq(Command) /\ Len(q) = Len(u.commands) - 1 /\ Len(u.commands) \in Nat \ {0}
      /\ \A k \in 1 .. Len(q) : q[k] = u.commands[k + 1]
  BY <1>1
<1>3. \A t \in UnitType : Weight(Ordered(t, Lost), q) <= Weight(Ordered(t, Lost), u.commands)
  BY <1>1, OrderedWeights
<1>4. "stop" \in Skill
  BY DEF Skill, Class
<1>5. x.commands = q
  BY <1>1, <1>2, <1>4, DoingFields
<1> HIDE DEF q
<1>6. q # <<>> => q[1].site = None
  <2>1. q # <<>> => 1 \in 1 .. Len(q) /\ 2 \in 1 .. Len(u.commands) /\ q[1] = u.commands[2]
    BY <1>2
  <2>2. \A k \in 1 .. Len(u.commands) : u.commands[k].site # None => k = 1
    BY <1>1 DEF QueueOK, CommandOK
  <2> HIDE DEF u
  <2> QED
    BY <2>1, <2>2
<1> HIDE DEF x
<1>7. BuildOK(x, units)
  BY <1>5, <1>6 DEF BuildOK
<1>8. u.skill # "gone"
  BY <1>1 DEF QueueOK
<1> QED
  BY <1>2, <1>3, <1>4, <1>7, <1>8, MilderQueue DEF q, x

LEMMA MilderNone ==
    ASSUME Sane, NEW i \in Id, NEW s \in Skill,
           s = "gone" <=> units[i].skill = "gone"
    PROVE  Milder(i, Doing(units[i], <<>>, s))
<1> DEFINE u == units[i]
           x == Doing(u, <<>>, s)
<1>1. u \in Unit /\ u.commands \in Seq(Command) /\ <<>> \in Seq(Command)
  BY UnitOf, UnitFields
<1>2. \A t \in UnitType : Weight(Ordered(t, Lost), <<>>) <= Weight(Ordered(t, Lost), u.commands)
  BY <1>1, OrderedWeights
<1>3. x.commands = <<>>
  BY <1>1, DoingFields
<1>4. BuildOK(x, units)
  BY <1>3 DEF BuildOK
<1> QED
  BY <1>1, <1>2, <1>4, MilderQueue

LEMMA MilderSame ==
    ASSUME Sane, NEW i \in Id, NEW s \in Skill,
           s = "gone" <=> units[i].skill = "gone",
           BuildOK(Doing(units[i], units[i].commands, s), units)
    PROVE  Milder(i, Doing(units[i], units[i].commands, s))
<1>1. units[i].commands \in Seq(Command)
  BY UnitOf, UnitFields
<1>2. \A t \in UnitType : Weight(Ordered(t, Lost), units[i].commands)
                            <= Weight(Ordered(t, Lost), units[i].commands)
  BY <1>1, OrderedWeights
<1> QED
  BY <1>1, <1>2, MilderQueue


\* A unit becomes x and y is made: together they count no more than the unit did.
MilderPair(i, x, y) ==
    /\ x.alive => units[i].alive
    /\ x.type = units[i].type \/ Morphs(units[i].type)
    /\ "gone" \notin {x.skill, y.skill, units[i].skill}
    /\ BuildOK(x, units') /\ y.commands = <<>>
    /\ \A t \in UnitType :
          \/ Counted(t, Lost)[x] + Counted(t, Lost)[y] <= Counted(t, Lost)[units[i]]
          \/ BuiltLost(t)

LEMMA WithinAdded ==
    ASSUME Sane, Within, NEW i, NEW x, NEW y, Adds(i, x, y), MilderPair(i, x, y),
           Account' \in Solvent
    PROVE  Within'
<1>1. /\ Sane' /\ Len(units') = Len(units) + 1 /\ units[i] \in Unit
      /\ units'[i] = x /\ units'[Len(units) + 1] = y
      /\ \A j \in Id : j # i => units'[j] = units[j]
      /\ \A h \in [Unit -> Int] :
             Weight(h, units') = Weight(h, units) - h[units[i]] + h[x] + h[y]
  BY UnitAdded
<1>2. /\ i \in Id /\ x \in Unit /\ y \in Unit /\ Len(units) \in Nat
      /\ Id' = Id \cup {Len(units) + 1} /\ Len(units) + 1 \notin Id
  <2>1. i \in Id /\ x \in Unit /\ y \in Unit /\ Len(units) \in Nat
    BY UnitOf DEF Adds
  <2>2. Id' = 1 .. Len(units) + 1
    BY <1>1 DEF Id
  <2> QED
    BY <2>1, <2>2 DEF Id
<1>3. Ages
  BY <1>1, <1>2 DEF Ages, MilderPair
<1>4. Lost' = Lost
  <2>1. \A j \in Id : units'[j].skill = "gone" <=> units[j].skill = "gone"
    BY <1>1 DEF MilderPair
  <2> QED
    BY <1>1, <1>2, <2>1 DEF Lost, MilderPair
<1>5. ASSUME NEW j \in Id' PROVE BuildOK(units'[j], units')
  <2>1. CASE j = i
    BY <1>1, <2>1 DEF MilderPair
  <2>2. CASE j \in Id /\ j # i
    <3>1. units[j] \in Unit /\ QueueOK(units[j], Len(units)) /\ BuildOK(units[j], units)
      BY <2>2, UnitOf DEF Within
    <3> QED
      BY <1>1, <1>3, <2>2, <3>1, BuildStays
  <2>3. CASE j = Len(units) + 1
    BY <1>1, <2>3 DEF MilderPair, BuildOK
  <2> QED
    BY <1>2, <2>1, <2>2, <2>3
<1>6. ASSUME NEW t \in UnitType PROVE LimitOK(t)'
  <2> DEFINE h == Counted(t, Lost)
  <2>1. h \in [Unit -> Int] /\ MaxUnitCount[t] \in Int /\ LimitOK(t)
    BY CountedType, CostAssumption DEF Within
  <2>2. Weight(h, units) \in Int /\ Weight(Counted(t, Lost'), units') \in Int
    <3>1. Weight(h, units) \in Int
      BY WeightOfUnits
    <3>2. units' \in Seq(Unit)
      BY <1>1 DEF Sane
    <3>3. Weight(h, units') \in Int
      BY <2>1, <3>2, WeightSteps
    <3> QED
      BY <1>4, <3>1, <3>3
  <2>3. h[x] + h[y] <= h[units[i]] \/ BuiltLost(t)
    BY DEF MilderPair
  <2>4. Weight(Counted(t, Lost'), units') = Weight(h, units')
    BY <1>4
  <2> HIDE DEF h
  <2>5. CASE h[x] + h[y] <= h[units[i]]
    <3>1. h[x] \in Int /\ h[y] \in Int /\ h[units[i]] \in Int
      BY <1>1, <1>2, <2>1
    <3>2. Weight(h, units') = Weight(h, units) - h[units[i]] + h[x] + h[y]
      BY <1>1, <2>1
    <3>3. Weight(h, units') <= Weight(h, units)
      BY <2>2, <2>5, <3>1, <3>2
    <3> QED
      BY <1>3, <2>1, <2>2, <2>4, <3>3, LimitStays DEF h
  <2>6. CASE BuiltLost(t)
    BY <1>3, <2>1, <2>2, <2>6, LimitStays DEF h
  <2> QED
    BY <2>3, <2>5, <2>6
<1> QED
  BY <1>5, <1>6 DEF Within

LEMMA CountedNew ==
    ASSUME NEW t \in UnitType, NEW s \in {"stop", "beBuilt"}, NEW a, NEW G
    PROVE  Counted(a, G)[NewUnit(t, s)] = IF t = a THEN 1 ELSE 0
<1> DEFINE y == NewUnit(t, s)
<1>1. y \in Unit /\ y.type = t /\ y.alive /\ y.commands = <<>>
  <2>1. y \in Unit
    BY NewUnitFits
  <2> QED
    BY <2>1 DEF NewUnit
<1>2. /\ There(a)[y] = IF y.type = a /\ y.alive THEN 1 ELSE 0
      /\ Coming(a, G)[y] = Weight(Ordered(a, G), y.commands)
      /\ Counted(a, G)[y] = There(a)[y] + Coming(a, G)[y]
  <2> HIDE DEF y
  <2> QED
    BY <1>1, CountedType
<1>3. Weight(Ordered(a, G), <<>>) = 0
  BY OrderedType, WeightOfEmpty
<1> HIDE DEF y
<1>4. Counted(a, G)[y] = IF t = a THEN 1 ELSE 0
  BY <1>1, <1>2, <1>3
<1> QED
  BY <1>4 DEF y

LEMMA WithinFinishProduction ==
    ASSUME Sane, Within, NEW i \in Id, FinishProduction(i), Account' \in Solvent
    PROVE  Within'
<1> DEFINE u == units[i]
           t == Current(i).what
           x == Doing(u, Tail(u.commands), "stop")
           y == NewUnit(t, "stop")
<1>1. Has(i, "produce") /\ t \in UnitType /\ Adds(i, x, y)
  BY FinishProductionStep
<1>2. /\ u.commands # <<>> /\ u.commands \in Seq(Command) /\ u.commands[1] = Current(i)
      /\ Current(i) \in Command /\ Current(i).class = "produce" /\ u.skill # "gone"
  BY <1>1, HeadOf
<1>3. u \in Unit /\ QueueOK(u, Len(units)) /\ BuildOK(u, units) /\ Len(units) \in Nat
  BY UnitOf DEF Within
<1>4. Milder(i, x)
  BY <1>2, MilderTail
<1>0. Tail(u.commands) \in Seq(Command) /\ "stop" \in Skill
  BY <1>2 DEF Skill, Class
<1>5. /\ x \in Unit /\ x.commands = Tail(u.commands) /\ x.type = u.type /\ x.alive = u.alive
      /\ x.skill = "stop"
  <2> HIDE DEF u
  <2> DEFINE r == Tail(u.commands)
  <2>1. r \in Seq(Command) /\ "stop" \in Skill /\ u \in Unit
    BY <1>0, <1>3
  <2> HIDE DEF r
  <2>2. /\ Doing(u, r, "stop") \in Unit /\ Doing(u, r, "stop").commands = r
        /\ Doing(u, r, "stop").type = u.type /\ Doing(u, r, "stop").alive = u.alive
        /\ Doing(u, r, "stop").skill = "stop"
    BY <2>1, DoingFields
  <2> QED
    BY <2>2 DEF r
<1>6. y.commands = <<>> /\ y.skill = "stop"
  BY DEF NewUnit
<1>7. BuildOK(x, units')
  <2>1. Ages
    <3>1. /\ Len(units') = Len(units) + 1 /\ units'[i] = x
          /\ \A j \in Id : j # i => units'[j] = units[j]
      BY <1>1, UnitAdded
    <3> HIDE DEF x, y
    <3>2. Id \subseteq Id'
      BY <1>3, <3>1 DEF Id
    <3> QED
      BY <1>5, <3>1, <3>2 DEF Ages
  <2>2. QueueOK(x, Len(units)) /\ BuildOK(x, units)
    BY <1>2, <1>3, <1>4, TailQueue DEF Milder
  <2> HIDE DEF x
  <2> QED
    BY <1>5, <2>1, <2>2, BuildStays
<1>8. ASSUME NEW a \in UnitType
      PROVE  Counted(a, Lost)[x] + Counted(a, Lost)[y] <= Counted(a, Lost)[u]
  <2> DEFINE h == Counted(a, Lost)
             o == Ordered(a, Lost)
  <2> DEFINE r == Tail(u.commands)
  <2>0. r \in Seq(Command)
    BY <1>0
  <2>1. h[x] - Weight(o, r) = h[u] - Weight(o, u.commands)
    <3> HIDE DEF u, r
    <3>1. Counted(a, Lost)[Doing(u, r, "stop")] - Weight(Ordered(a, Lost), r)
            = Counted(a, Lost)[u] - Weight(Ordered(a, Lost), u.commands)
      BY <1>0, <1>3, <2>0, CountedDoing
    <3> QED
      BY <3>1 DEF r
  <2>2. /\ Weight(o, u.commands) = o[u.commands[1]] + Weight(o, Tail(u.commands))
        /\ Weight(o, u.commands) \in Int
    BY <1>2, OrderedWeights
  <2>3. o[u.commands[1]] = IF t = a THEN 1 ELSE 0
    BY <1>2 DEF Ordered
  <2>4. h[y] = IF t = a THEN 1 ELSE 0
    BY <1>1, CountedNew
  <2>5. h[x] \in Int /\ h[u] \in Int
    <3> HIDE DEF u, x
    <3> QED
      BY <1>3, <1>5, CountedType
  <2>6. Weight(o, r) \in Int
    <3> HIDE DEF r
    <3> QED
      BY <2>0, OrderedWeights
  <2> HIDE DEF h, o, x, y, u, t
  <2>7. h[x] + h[y] <= h[u]
    BY <2>1, <2>2, <2>3, <2>4, <2>5, <2>6
  <2> QED
    BY <2>7 DEF h
<1>9. MilderPair(i, x, y)
  BY <1>2, <1>5, <1>6, <1>7, <1>8 DEF MilderPair
<1> HIDE DEF x, y
<1> QED
  BY <1>1, <1>9, WithinAdded


\* The building that is begun takes the place of the order for it.
LEMMA WithinBeginBuilding ==
    ASSUME Sane, Within, NEW i \in Id, BeginBuilding(i), Account' \in Solvent
    PROVE  Within'
<1> DEFINE u == units[i]
           t == Current(i).what
           site == Len(units) + 1
           q == Begun(u.commands, site)
           x == [u EXCEPT !.skill = "build", !.target = site, !.commands = q]
           y == NewUnit(t, "beBuilt")
<1>1. Has(i, "build") /\ u.skill # "build" /\ t \in UnitType /\ Adds(i, x, y)
  BY BeginBuildingStep
<1>2. /\ u.commands # <<>> /\ u.commands \in Seq(Command) /\ u.commands[1] = Current(i)
      /\ Current(i) \in Command /\ Current(i).class = "build" /\ u.skill # "gone"
      /\ 1 \in 1 .. Len(u.commands)
      /\ [class |-> "build", what |-> t] \in Orders[u.type]
  BY <1>1, HeadOf
<1>3. /\ u \in Unit /\ QueueOK(u, Len(units)) /\ BuildOK(u, units) /\ Len(units) \in Nat
      /\ u.type \in UnitType
  BY UnitOf, UnitFields DEF Within
<1>4. /\ q \in Seq(Command) /\ q # <<>> /\ q[1] \in Command
      /\ q[1].class = "build" /\ q[1].what = t /\ q[1].site = site
      /\ \A h \in [Command -> Int] :
             Weight(h, q) = Weight(h, u.commands) - h[u.commands[1]] + h[q[1]]
  <2>1. site \in Nat
    BY <1>3
  <2> HIDE DEF site
  <2>2. /\ q \in Seq(Command) /\ Len(q) = Len(u.commands) /\ q[1] \in Command
        /\ q[1].class = u.commands[1].class /\ q[1].what = u.commands[1].what
        /\ q[1].site = site
        /\ \A h \in [Command -> Int] :
               Weight(h, q) = Weight(h, u.commands) - h[u.commands[1]] + h[q[1]]
    BY <1>2, <2>1, BegunFacts
  <2> QED
    BY <1>2, <2>2
<1> HIDE DEF q
<1>5. /\ x \in Unit /\ x.commands = q /\ x.type = u.type /\ x.alive = u.alive
      /\ x.skill = "build"
  <2>1. site \in Nat /\ "build" \in Skill
    BY <1>3 DEF Skill, Class
  <2> HIDE DEF site
  <2> QED
    BY <1>3, <1>4, <2>1 DEF Unit
<1>6. y.commands = <<>> /\ y.skill = "beBuilt" /\ y.type = t
  BY DEF NewUnit
<1> HIDE DEF x, y
<1>7. BuildOK(x, units')
  <2>1. units'[site] = y
    BY <1>1, UnitAdded
  <2> QED
    BY <1>4, <1>5, <1>6, <2>1 DEF BuildOK, MadeAs
<1>8. u.commands[1].site # None => BuiltLost(t)
  <2> SUFFICES ASSUME u.commands[1].site # None PROVE BuiltLost(t)
    OBVIOUS
  <2> DEFINE s == u.commands[1].site
  <2>1. s \in Id
    <3>1. s \in Nat /\ s <= Len(units)
      BY <1>2, <1>3, CommandFields DEF QueueOK, CommandOK
    <3> QED
      BY <3>1 DEF Id, None
  <2>2. ~units[s].alive /\ MadeAs(units[s], t)
    BY <1>1, <1>2, <1>3 DEF BuildOK
  <2>3. \E b \in UNION {Orders[a] : a \in UnitType} : b.class = "build" /\ b.what = t
    <3> DEFINE o == [class |-> "build", what |-> t]
    <3>1. o \in Orders[u.type] /\ u.type \in UnitType /\ o.class = "build" /\ o.what = t
      BY <1>2, <1>3
    <3> HIDE DEF o
    <3> QED
      BY <3>1
  <2> HIDE DEF s
  <2> QED
    BY <2>1, <2>2, <2>3 DEF BuiltLost
<1>9. ASSUME NEW a \in UnitType
      PROVE  \/ Counted(a, Lost)[x] + Counted(a, Lost)[y] <= Counted(a, Lost)[u]
             \/ BuiltLost(a)
  <2> DEFINE h == Counted(a, Lost)
             o == Ordered(a, Lost)
  <2>0. /\ h[x] = There(a)[x] + Coming(a, Lost)[x] /\ h[u] = There(a)[u] + Coming(a, Lost)[u]
        /\ Coming(a, Lost)[x] = Weight(o, x.commands)
        /\ Coming(a, Lost)[u] = Weight(o, u.commands)
        /\ There(a)[x] = (IF x.type = a /\ x.alive THEN 1 ELSE 0)
        /\ There(a)[u] = (IF u.type = a /\ u.alive THEN 1 ELSE 0)
    <3> HIDE DEF u, x
    <3> QED
      BY <1>3, <1>5, CountedType
  <2>1. /\ o \in [Command -> Int]
        /\ h[x] = There(a)[x] + Weight(o, q) /\ h[u] = There(a)[u] + Weight(o, u.commands)
        /\ There(a)[x] = There(a)[u] /\ There(a)[u] \in Int
    BY <1>5, <2>0, OrderedType
  <2>2. Weight(o, q) = Weight(o, u.commands) - o[u.commands[1]] + o[q[1]]
    BY <1>4, <2>1
  <2>3. o[q[1]] = 0
    <3>1. site \notin Lost \cup {None}
      BY <1>3 DEF Lost, Id, None
    <3> QED
      BY <1>4, <3>1 DEF Ordered
  <2>4. h[y] = IF t = a THEN 1 ELSE 0
    <3>1. y = NewUnit(t, "beBuilt")
      BY DEF y
    <3> QED
      BY <1>1, <3>1, CountedNew
  <2>5. \/ o[u.commands[1]] = (IF t = a THEN 1 ELSE 0)
        \/ t = a /\ BuiltLost(a)
    BY <1>2, <1>8 DEF Ordered
  <2>6. Weight(o, u.commands) \in Int /\ Weight(o, q) \in Int
    BY <1>2, <1>4, OrderedWeights
  <2> HIDE DEF h, o, u, t
  <2>7. h[x] + h[y] <= h[u] \/ BuiltLost(a)
    BY <2>1, <2>2, <2>3, <2>4, <2>5, <2>6
  <2> QED
    BY <2>7 DEF h
<1>10. MilderPair(i, x, y)
  BY <1>2, <1>5, <1>6, <1>7, <1>9 DEF MilderPair
<1> QED
  BY <1>1, <1>10, WithinAdded DEF x, y, q


LEMMA WithinFinishMorph ==
    ASSUME Sane, StoreOK, Within, NEW i \in Id, FinishMorph(i), Account' \in Solvent
    PROVE  Within'
<1> DEFINE u == units[i]
           t == Current(i).what
           x == [Doing(u, <<>>, "stop") EXCEPT !.type = t]
<1>1. Has(i, "morph") /\ t \in UnitType /\ Replaces(i, x)
  BY FinishMorphStep
<1>2. /\ u.commands # <<>> /\ u.commands \in Seq(Command) /\ u.commands[1] = Current(i)
      /\ Current(i) \in Command /\ Current(i).class = "morph" /\ u.skill # "gone"
      /\ [class |-> "morph", what |-> t] \in Orders[u.type]
  BY <1>1, HeadOf
<1>3. u \in Unit
  BY UnitOf
<1>4. x \in Unit /\ x.commands = <<>> /\ x.type = t /\ x.alive = u.alive /\ x.skill = "stop"
  <2>1. x \in Unit
    BY <1>1 DEF Replaces
  <2> QED
    BY <1>3, <2>1 DEF Doing, Unit
<1>5. Morphs(u.type)
  <2> DEFINE o == [class |-> "morph", what |-> t]
  <2>1. o \in Orders[u.type] /\ o.class = "morph"
    BY <1>2
  <2> HIDE DEF o
  <2> QED
    BY <2>1 DEF Morphs
<1>6. BuildOK(x, units)
  BY <1>4 DEF BuildOK
<1> HIDE DEF x
<1>7. ASSUME NEW a \in UnitType PROVE Counted(a, Lost)[x] <= Counted(a, Lost)[u]
  <2> DEFINE h == Counted(a, Lost)
             o == Ordered(a, Lost)
             r == Tail(u.commands)
  <2>1. /\ h[x] = There(a)[x] + Coming(a, Lost)[x] /\ h[u] = There(a)[u] + Coming(a, Lost)[u]
        /\ Coming(a, Lost)[x] = Weight(o, x.commands)
        /\ Coming(a, Lost)[u] = Weight(o, u.commands)
        /\ There(a)[x] = (IF x.type = a /\ x.alive THEN 1 ELSE 0)
        /\ There(a)[u] \in Nat
    BY <1>3, <1>4, CountedType
  <2>2. Weight(o, x.commands) = 0
    BY <1>4, OrderedType, WeightOfEmpty
  <2>3. Weight(o, u.commands) = o[u.commands[1]] + Weight(o, r)
    BY <1>2, OrderedWeights
  <2>4. o[u.commands[1]] = IF t = a THEN 1 ELSE 0
    BY <1>2 DEF Ordered
  <2>5. Weight(o, r) \in Nat
    <3>1. r \in Seq(Command)
      BY <1>2
    <3> HIDE DEF r
    <3> QED
      BY <3>1, OrderedWeights
  <2> HIDE DEF h, o, u, t, r
  <2>6. h[x] <= h[u]
    BY <1>4, <2>1, <2>2, <2>3, <2>4, <2>5
  <2> QED
    BY <2>6 DEF h
<1>8. Milder(i, x)
  BY <1>2, <1>4, <1>5, <1>6, <1>7 DEF Milder
<1> QED
  BY <1>1, <1>8, WithinReplaced DEF x

\* An order that is taken is within the limit.
LEMMA WithinGiveCommand ==
    ASSUME Sane, Within, NEW i \in Id, NEW o \in Orders[units[i].type], NEW p \in BOOLEAN,
           GiveCommand(i, o, p), Account' \in Solvent
    PROVE  Within'
<1> DEFINE u    == units[i]
           gone == Replaced(u, o, p)
           kept == Kept(u, o, p)
           acc  == UndoCommands(Account, u, gone)
           us   == [units EXCEPT ![i].commands = kept]
           new  == [class |-> o.class, what |-> o.what, site |-> None]
           ok   == o.class # "stop" /\ CheckCommand(acc, us, i, o)
           q    == IF ok THEN Append(kept, new) ELSE kept
           x    == Doing(u, q, u.skill)
<1>1. /\ gone \in Seq(Command) /\ kept \in Seq(Command)
      /\ \A h \in [Command -> Int] : Weight(h, gone) + Weight(h, kept) = Weight(h, u.commands)
      /\ OnMap(u) /\ Replaces(i, x)
  BY GiveCommandStep
<1>2. /\ u \in Unit /\ QueueOK(u, Len(units)) /\ BuildOK(u, units) /\ u.type \in UnitType
      /\ u.commands \in Seq(Command) /\ u.skill \in Skill
      /\ units \in Seq(Unit) /\ Len(units) \in Nat
  BY UnitOf, UnitFields DEF Within
<1>3. /\ o.class # "stop" => new \in Command
      /\ o.class \in {"stop", "build", "produce", "morph", "upgrade"}
      /\ o.class = "upgrade" => o.what \in Upgrade
  BY <1>2, Classes
<1>4. q \in Seq(Command)
  BY <1>1, <1>3
<1>5. /\ x \in Unit /\ x.type = u.type /\ x.alive = u.alive /\ x.skill = u.skill
      /\ x.commands = q
  <2> HIDE DEF u, q
  <2> QED
    BY <1>2, <1>4, DoingFields
<1>6. \A k \in 1 .. Len(kept) :
          \E j \in 1 .. Len(u.commands) : kept[k] = u.commands[j] /\ (j = 1 => k = 1)
  <2>1. \A k \in 1 .. Len(u.commands) : u.commands[k].class = "morph" => k = Len(u.commands)
    BY <1>2 DEF QueueOK, CommandOK
  <2>2. /\ u.commands \in Seq(Command)
        /\ o.class \in {"stop", "build", "produce", "morph", "upgrade"}
    BY <1>2, <1>3
  <2> HIDE DEF u, acc, us, new, ok, gone
  <2> QED
    BY <2>1, <2>2, ReplacedAndKept
<1> HIDE DEF gone, acc, us, ok, new
<1>7. BuildOK(x, units)
  <2>1. CASE kept = <<>> /\ q # <<>>
    <3>1. q[1] = new
      BY <1>1, <1>3, <2>1
    <3>2. q[1].site = None
      BY <3>1 DEF new
    <3> HIDE DEF q, x
    <3> QED
      BY <1>5, <3>2 DEF BuildOK
  <2>2. CASE kept # <<>>
    <3>1. 1 \in 1 .. Len(kept) /\ q[1] = kept[1]
      BY <1>1, <1>3, <2>2
    <3>2. PICK j \in 1 .. Len(u.commands) : kept[1] = u.commands[j]
      BY <1>6, <3>1
    <3>3. \A k \in 1 .. Len(u.commands) : u.commands[k].site # None => k = 1
      BY <1>2 DEF QueueOK, CommandOK
    <3>4. u.commands # <<>> /\ (q[1].site # None => q[1] = u.commands[1])
      BY <1>2, <3>1, <3>2, <3>3
    <3> HIDE DEF u, q, x
    <3> QED
      BY <1>2, <1>5, <3>4 DEF BuildOK
  <2>3. CASE q = <<>>
    BY <1>5, <2>3 DEF BuildOK
  <2> HIDE DEF q, kept, x
  <2> QED
    BY <2>1, <2>2, <2>3
<1> HIDE DEF kept, x
<1>8. ASSUME NEW t \in UnitType
      PROVE  \/ Counted(t, Lost)[x] <= Counted(t, Lost)[u]
             \/ MaxUnitCount[t] = 0
             \/ Weight(Counted(t, Lost), [units EXCEPT ![i] = x]) <= MaxUnitCount[t]
  <2> DEFINE h == Counted(t, Lost)
             w == Ordered(t, Lost)
  <2>1. /\ w \in [Command -> Int] /\ \A c \in Command : w[c] \in {0, 1}
        /\ Weight(w, gone) \in Nat /\ Weight(w, kept) \in Nat
        /\ Weight(w, u.commands) = Weight(w, gone) + Weight(w, kept)
    BY <1>1, OrderedType, OrderedWeights
  <2>2. /\ h[x] - Weight(w, q) = h[u] - Weight(w, u.commands)
        /\ h[x] \in Int /\ h[u] \in Int /\ Weight(w, q) \in Int
    <3> HIDE DEF q, u
    <3> QED
      BY <1>2, <1>4, <1>5, CountedDoing, CountedType, OrderedWeights DEF x
  <2>3. CASE ~(ok /\ o.what = t)
    <3>1. Weight(w, q) = Weight(w, kept)
      <4>1. CASE ok
        <5>1. w[new] = 0 /\ new \in Command
          BY <1>3, <2>3, <4>1 DEF Ordered, new, ok
        <5>2. Weight(w, Append(kept, new)) = Weight(w, kept) + w[new]
          <6>1. kept \in Seq(Command) /\ w \in [Command -> Int] /\ new \in Command
            BY <1>1, <2>1, <5>1
          <6> HIDE DEF w
          <6> QED
            BY <6>1, WeightAppend
        <5> QED
          BY <2>1, <4>1, <5>1, <5>2
      <4>2. CASE ~ok
        BY <4>2
      <4> QED
        BY <4>1, <4>2
    <3> HIDE DEF h, w, u, q
    <3>2. h[x] <= h[u]
      BY <2>1, <2>2, <3>1
    <3> QED
      BY <3>2 DEF h
  <2>4. CASE ok /\ o.what = t /\ MaxUnitCount[t] # 0
    <3> DEFINE y == Doing(u, kept, u.skill)
    <3>1. MaxUnitCount[t] > CountForMaxUnitCount(us, t)
      <4>1. ReqsOk(acc, us, t)
        BY <2>4 DEF ok, CheckCommand
      <4>2. MaxUnitCount[t] \in Nat
        BY CostAssumption
      <4> QED
        BY <2>4, <4>1, <4>2 DEF ReqsOk
    <3>2. us = [units EXCEPT ![i] = y]
      <4>1. [u EXCEPT !.commands = kept] = y
        BY <1>2 DEF Unit, Doing
      <4> QED
        BY <4>1 DEF us
    <3>3. y \in Unit /\ y.commands = kept /\ y.type = u.type /\ y.alive = u.alive
      BY <1>1, <1>2, DoingFields
    <3> HIDE DEF y
    <3>4. us \in Seq(Unit) /\ Len(us) = Len(units) /\ i \in 1 .. Len(units)
      <4>1. i \in 1 .. Len(units)
        BY DEF Id
      <4> HIDE DEF u
      <4> QED
        BY <1>2, <3>2, <3>3, <4>1
    <3>5. ASSUME NEW j \in 1 .. Len(us), NEW k \in 1 .. Len(us[j].commands)
          PROVE  us[j].commands[k].site <= Len(units)
      <4>1. CASE j = i
        <5>1. us[j].commands = kept
          BY <1>2, <3>2, <3>3, <4>1 DEF Id
        <5>2. PICK m \in 1 .. Len(u.commands) : kept[k] = u.commands[m]
          BY <1>6, <5>1
        <5>3. u.commands[m].site <= Len(units)
          BY <1>2 DEF QueueOK, CommandOK
        <5> QED
          BY <5>1, <5>2, <5>3
      <4>2. CASE j # i
        <5>1. j \in Id /\ us[j] = units[j]
          BY <3>2, <3>4, <4>2 DEF Id
        <5>2. QueueOK(units[j], Len(units))
          BY <5>1, UnitOf
        <5> QED
          BY <5>1, <5>2 DEF QueueOK, CommandOK
      <4> QED
        BY <4>1, <4>2
    <3>6. CountForMaxUnitCount(us, t) = Weight(h, us)
      BY <1>2, <3>4, <3>5, CountIs
    <3>7. h \in [Unit -> Int]
      BY CountedType
    <3> DEFINE vs == [units EXCEPT ![i] = x]
    <3>8. /\ Weight(h, vs) = Weight(h, units) - h[u] + h[x]
          /\ Weight(h, us) = Weight(h, units) - h[u] + h[y]
      <4>0. /\ units \in Seq(Unit) /\ x \in Unit /\ y \in Unit /\ i \in 1 .. Len(units)
            /\ h \in [Unit -> Int]
        BY <1>2, <1>5, <3>3, <3>4, <3>7
      <4> HIDE DEF h, u, q
      <4>1. Weight(h, vs) = Weight(h, units) - h[units[i]] + h[x]
        BY <4>0, WeightChange
      <4>2. Weight(h, [units EXCEPT ![i] = y]) = Weight(h, units) - h[units[i]] + h[y]
        BY <4>0, WeightChange
      <4> QED
        BY <3>2, <4>1, <4>2 DEF u
    <3>9. h[y] - Weight(w, kept) = h[u] - Weight(w, u.commands)
      <4> HIDE DEF u
      <4> QED
        BY <1>1, <1>2, CountedDoing DEF y
    <3>10. Weight(w, q) = Weight(w, kept) + 1 \/ Weight(w, q) = Weight(w, kept)
      <4>1. new \in Command
        BY <1>3, <2>4 DEF ok
      <4>2. Weight(w, Append(kept, new)) = Weight(w, kept) + w[new]
        BY <1>1, <2>1, <4>1, WeightAppend
      <4>3. w[new] \in {0, 1}
        BY <2>1, <4>1
      <4> QED
        BY <2>1, <2>4, <4>2, <4>3
    <3>11. /\ Weight(h, units) \in Int /\ h[y] \in Int /\ h[u] \in Int /\ h[x] \in Int
           /\ MaxUnitCount[t] \in Int
      <4>1. Weight(h, units) \in Int
        BY WeightOfUnits
      <4>2. MaxUnitCount[t] \in Int
        BY CostAssumption
      <4> HIDE DEF h, u
      <4> QED
        BY <1>2, <2>2, <3>3, <3>7, <4>1, <4>2
    <3> HIDE DEF h, w, u, q, vs
    <3>12. h[x] <= h[y] + 1
      BY <2>1, <2>2, <3>9, <3>10, <3>11
    <3>13. Weight(h, vs) <= MaxUnitCount[t]
      BY <3>1, <3>6, <3>8, <3>11, <3>12
    <3> QED
      BY <3>13 DEF h, vs
  <2> QED
    BY <2>3, <2>4
<1>9. Milder(i, x)
  BY <1>2, <1>5, <1>7, <1>8 DEF Milder
<1> QED
  BY <1>1, <1>9, WithinReplaced DEF x


LEMMA WithinFinishBuilding ==
    ASSUME Sane, Within, NEW i \in Id, FinishBuilding(i), Account' \in Solvent
    PROVE  Within'
<1> DEFINE u == units[i]
           b == AtTarget(i)
           v == units[b]
           x == Doing(u, Tail(u.commands), "stop")
           y == Doing(v, <<>>, "stop")
<1>1. /\ Has(i, "build") /\ b \in Id /\ IsBeingBuilt(v) /\ v.commands = <<>>
      /\ ReplacesTwo(i, b, x, y)
  BY FinishBuildingStep
<1>2. u.commands # <<>> /\ u.commands \in Seq(Command) /\ u.skill # "gone" /\ "stop" \in Skill
  BY <1>1, HeadOf DEF Skill, Class
<1>3. Milder(i, x)
  BY <1>2, MilderTail
<1>4. Milder(b, y)
  <2>1. v.skill # "gone"
    BY <1>1 DEF IsBeingBuilt
  <2> QED
    BY <1>1, <1>2, <2>1, MilderNone
<1>5. /\ i \in Id /\ b # i /\ x \in Unit /\ y \in Unit /\ u \in Unit /\ v \in Unit
      /\ QueueOK(x, Len(units)) /\ QueueOK(y, Len(units))
  BY <1>1, UnitOf DEF ReplacesTwo
<1> HIDE DEF b
<1>6. /\ x.skill = "stop" /\ y.skill = "stop" /\ v.skill = "beBuilt"
      /\ x.type = u.type /\ y.type = v.type
  <2>1. x.skill = "stop" /\ x.type = u.type
    <3> DEFINE q == Tail(u.commands)
    <3>1. q \in Seq(Command) /\ x = Doing(u, q, "stop") /\ u \in Unit
      BY <1>2, <1>5
    <3> HIDE DEF q, u, x
    <3>2. Doing(u, q, "stop").skill = "stop" /\ Doing(u, q, "stop").type = u.type
      BY <1>2, <3>1, DoingFields
    <3> QED
      BY <3>1, <3>2
  <2>2. y.skill = "stop" /\ y.type = v.type
    <3> DEFINE e == <<>>
    <3>1. e \in Seq(Command) /\ y = Doing(v, e, "stop") /\ v \in Unit
      BY <1>5
    <3> HIDE DEF e, v, y
    <3>2. Doing(v, e, "stop").skill = "stop" /\ Doing(v, e, "stop").type = v.type
      BY <1>2, <3>1, DoingFields
    <3> QED
      BY <3>1, <3>2
  <2> QED
    BY <1>1, <2>1, <2>2 DEF IsBeingBuilt
<1>7. \A t \in UnitType : /\ Counted(t, Lost)[x] <= Counted(t, Lost)[u]
                          /\ Counted(t, Lost)[y] <= Counted(t, Lost)[v]
  <2> SUFFICES ASSUME NEW t \in UnitType
               PROVE  /\ Counted(t, Lost)[x] <= Counted(t, Lost)[u]
                      /\ Counted(t, Lost)[y] <= Counted(t, Lost)[v]
    OBVIOUS
  <2> DEFINE h == Counted(t, Lost)
             w == Ordered(t, Lost)
             q == Tail(u.commands)
             e == <<>>
  <2>1. q \in Seq(Command) /\ e \in Seq(Command)
    BY <1>2
  <2>2. Weight(w, q) <= Weight(w, u.commands) /\ Weight(w, e) = Weight(w, v.commands)
    BY <1>1, <1>2, OrderedWeights DEF b
  <2>3. /\ h[x] - Weight(w, q) = h[u] - Weight(w, u.commands)
        /\ h[y] - Weight(w, e) = h[v] - Weight(w, v.commands)
    <3>1. /\ x = Doing(u, q, "stop") /\ y = Doing(v, e, "stop")
      OBVIOUS
    <3> HIDE DEF q, e, u, v, x, y
    <3> QED
      BY <1>2, <1>5, <2>1, <3>1, CountedDoing
  <2>4. h[x] \in Int /\ h[y] \in Int /\ h[u] \in Int /\ h[v] \in Int
    <3>1. h \in [Unit -> Int]
      BY CountedType
    <3> HIDE DEF h, x, y, u, v
    <3> QED
      BY <1>5, <3>1
  <2>5. /\ Weight(w, q) \in Int /\ Weight(w, e) \in Int
        /\ Weight(w, u.commands) \in Int /\ Weight(w, v.commands) \in Int
    <3>1. v.commands \in Seq(Command)
      BY <1>5, UnitFields
    <3> HIDE DEF q, e
    <3> QED
      BY <1>2, <2>1, <3>1, OrderedWeights
  <2> HIDE DEF h, w, q, e, x, y, u, v
  <2>6. h[x] <= h[u] /\ h[y] <= h[v]
    BY <2>2, <2>3, <2>4, <2>5
  <2> QED
    BY <2>6 DEF h
<1> HIDE DEF x, y
<1>8. /\ Sane' /\ Len(units') = Len(units) /\ units'[i] = x /\ units'[b] = y
      /\ \A j \in Id : j # i /\ j # b => units'[j] = units[j]
      /\ \A h \in [Unit -> Int] :
             Weight(h, units') = Weight(h, units) - h[u] + h[x] - h[v] + h[y]
  BY <1>1, TwoReplaced
<1>9. Id' = Id /\ b \in Id
  BY <1>1, <1>8 DEF Id, b
<1>10. Ages
  <2>1. /\ x.alive => u.alive
        /\ y.alive => v.alive
    BY <1>3, <1>4 DEF Milder, b
  <2> QED
    BY <1>6, <1>8, <1>9, <2>1 DEF Ages
<1>11. Lost' = Lost
  BY <1>2, <1>6, <1>8, <1>9 DEF Lost
<1>12. ASSUME NEW j \in Id PROVE BuildOK(units'[j], units')
  <2>1. CASE j = i
    BY <1>3, <1>5, <1>8, <1>10, <2>1, BuildStays DEF Milder
  <2>2. CASE j = b
    BY <1>4, <1>5, <1>8, <1>10, <2>2, BuildStays DEF Milder, b
  <2>3. CASE j # i /\ j # b
    <3>1. units[j] \in Unit /\ QueueOK(units[j], Len(units)) /\ BuildOK(units[j], units)
      BY UnitOf DEF Within
    <3> QED
      BY <1>8, <1>10, <2>3, <3>1, BuildStays
  <2> QED
    BY <2>1, <2>2, <2>3
<1>13. ASSUME NEW t \in UnitType PROVE LimitOK(t)'
  <2> DEFINE h == Counted(t, Lost)
  <2>1. h \in [Unit -> Int] /\ MaxUnitCount[t] \in Int /\ LimitOK(t)
    BY CountedType, CostAssumption DEF Within
  <2>2. Weight(h, units) \in Int /\ Weight(Counted(t, Lost'), units') \in Int
    <3>1. Weight(h, units) \in Int
      BY WeightOfUnits
    <3>2. units' \in Seq(Unit)
      BY <1>8 DEF Sane
    <3>3. Weight(h, units') \in Int
      BY <2>1, <3>2, WeightSteps
    <3> QED
      BY <1>11, <3>1, <3>3
  <2>3. h[x] <= h[u] /\ h[y] <= h[v]
    BY <1>7
  <2>4. Weight(Counted(t, Lost'), units') = Weight(h, units')
    BY <1>11
  <2> HIDE DEF h, u, v
  <2>5. h[x] \in Int /\ h[y] \in Int /\ h[u] \in Int /\ h[v] \in Int
    BY <1>5, <2>1
  <2>6. Weight(h, units') = Weight(h, units) - h[u] + h[x] - h[v] + h[y]
    BY <1>8, <2>1
  <2>7. Weight(h, units') <= Weight(h, units)
    BY <2>2, <2>3, <2>5, <2>6
  <2> QED
    BY <1>10, <2>1, <2>2, <2>4, <2>7, LimitStays DEF h
<1> QED
  BY <1>9, <1>12, <1>13 DEF Within

\* A deleted unit: a command for it counts again, but then the unit is a lost building.
LEMMA WithinUndertake ==
    ASSUME Sane, Within, NEW i \in Id, Undertake(i), Account' \in Solvent
    PROVE  Within'
<1> DEFINE u == units[i]
           x == Doing(u, u.commands, "gone")
<1>1. u.skill = "die" /\ u.commands = <<>> /\ Replaces(i, x)
  BY UndertakeStep
<1>2. u \in Unit /\ QueueOK(u, Len(units)) /\ ~u.alive /\ "gone" \in Skill
  BY <1>1, UnitOf DEF QueueOK, Skill
<1>3. x \in Unit /\ x.type = u.type /\ x.alive = u.alive /\ x.skill = "gone" /\ x.commands = <<>>
  <2> DEFINE q == u.commands
  <2>1. q \in Seq(Command) /\ x = Doing(u, q, "gone")
    BY <1>2, UnitFields
  <2> HIDE DEF q, u, x
  <2>2. /\ Doing(u, q, "gone") \in Unit /\ Doing(u, q, "gone").type = u.type
        /\ Doing(u, q, "gone").alive = u.alive /\ Doing(u, q, "gone").skill = "gone"
        /\ Doing(u, q, "gone").commands = q
    BY <1>2, <2>1, DoingFields
  <2> QED
    BY <1>1, <2>1, <2>2 DEF q
<1> HIDE DEF x
<1>4. /\ Sane' /\ Len(units') = Len(units) /\ units'[i] = x
      /\ \A j \in Id : j # i => units'[j] = units[j]
      /\ \A h \in [Unit -> Int] :
             Weight(h, units') = Weight(h, units) - h[u] + h[x]
  BY <1>1, UnitReplaced
<1>5. Id' = Id /\ units \in Seq(Unit) /\ units' \in Seq(Unit) /\ Len(units) \in Nat
  BY <1>4, UnitOf DEF Id, Sane
<1>6. Ages
  BY <1>3, <1>4, <1>5 DEF Ages
<1>7. ASSUME NEW j \in Id PROVE BuildOK(units'[j], units')
  <2>1. CASE j = i
    BY <1>3, <1>4, <2>1 DEF BuildOK
  <2>2. CASE j # i
    <3>1. units[j] \in Unit /\ QueueOK(units[j], Len(units)) /\ BuildOK(units[j], units)
      BY UnitOf DEF Within
    <3> QED
      BY <1>4, <1>6, <2>2, <3>1, BuildStays
  <2> QED
    BY <2>1, <2>2
<1>8. ASSUME NEW t \in UnitType PROVE LimitOK(t)'
  <2> DEFINE h == Counted(t, Lost)
             g == Counted(t, Lost')
  <2>1. h \in [Unit -> Int] /\ g \in [Unit -> Int] /\ MaxUnitCount[t] \in Int /\ LimitOK(t)
    BY CountedType, CostAssumption DEF Within
  <2>2. Weight(h, units) \in Int /\ Weight(g, units') \in Int
    <3> HIDE DEF h, g
    <3> QED
      BY <1>5, <2>1, WeightSteps
  <2>3. CASE \E j \in Id : \E k \in 1 .. Len(units[j].commands) :
                 /\ units[j].commands[k].what = t /\ units[j].commands[k].class = "build"
                 /\ units[j].commands[k].site = i
    <3>0. PICK j \in Id : \E k \in 1 .. Len(units[j].commands) :
              /\ units[j].commands[k].what = t /\ units[j].commands[k].class = "build"
              /\ units[j].commands[k].site = i
      BY <2>3
    <3>1. PICK k \in 1 .. Len(units[j].commands) :
              /\ units[j].commands[k].what = t /\ units[j].commands[k].class = "build"
              /\ units[j].commands[k].site = i
      BY <3>0
    <3>2. /\ units[j] \in Unit /\ QueueOK(units[j], Len(units)) /\ BuildOK(units[j], units)
          /\ units[j].commands \in Seq(Command) /\ units[j].type \in UnitType
      BY UnitOf, UnitFields DEF Within
    <3>3. i # None
      BY DEF Id, None
    <3>4. k = 1 /\ [class |-> "build", what |-> t] \in Orders[units[j].type]
      BY <3>1, <3>2, <3>3 DEF QueueOK, CommandOK
    <3>5. MadeAs(u, t)
      BY <3>1, <3>2, <3>3, <3>4 DEF BuildOK
    <3>6. \E b \in UNION {Orders[a] : a \in UnitType} : b.class = "build" /\ b.what = t
      <4> DEFINE o == [class |-> "build", what |-> t]
      <4>1. o \in Orders[units[j].type] /\ o.class = "build" /\ o.what = t
        BY <3>4
      <4> HIDE DEF o
      <4> QED
        BY <3>2, <4>1
    <3>7. BuiltLost(t)
      BY <1>2, <3>5, <3>6 DEF BuiltLost
    <3> QED
      BY <1>6, <2>1, <2>2, <3>7, LimitStays
  <2>4. CASE ~\E j \in Id : \E k \in 1 .. Len(units[j].commands) :
                 /\ units[j].commands[k].what = t /\ units[j].commands[k].class = "build"
                 /\ units[j].commands[k].site = i
    <3>1. Lost' = Lost \cup {i}
      BY <1>3, <1>4, <1>5 DEF Lost
    <3>2. ASSUME NEW j \in 1 .. Len(units) PROVE g[units[j]] = h[units[j]]
      <4> DEFINE q == units[j].commands
                 a == Ordered(t, Lost)
                 b == Ordered(t, Lost')
      <4>1. j \in Id /\ units[j] \in Unit /\ q \in Seq(Command)
        BY UnitOf, UnitFields DEF Id
      <4>2. ASSUME NEW k \in 1 .. Len(q) PROVE b[q[k]] = a[q[k]]
        <5> DEFINE c == q[k]
        <5>1. c \in Command /\ ~(c.what = t /\ c.class = "build" /\ c.site = i)
          BY <2>4, <4>1
        <5> HIDE DEF c
        <5>2. b[c] = a[c]
          BY <3>1, <5>1 DEF Ordered
        <5> QED
          BY <5>2 DEF c
      <4>3. Weight(b, q) = Weight(a, q)
        <5> HIDE DEF a, b, q
        <5> QED
          BY <4>1, <4>2, WeightAgree
      <4>4. /\ h[units[j]] = There(t)[units[j]] + Coming(t, Lost)[units[j]]
            /\ g[units[j]] = There(t)[units[j]] + Coming(t, Lost')[units[j]]
            /\ Coming(t, Lost)[units[j]] = Weight(a, q)
            /\ Coming(t, Lost')[units[j]] = Weight(b, q)
        BY <4>1, CountedType
      <4> QED
        BY <4>3, <4>4
    <3>3. Weight(g, units) = Weight(h, units)
      <4> HIDE DEF g, h
      <4> QED
        BY <1>5, <3>2, WeightAgree
    <3>4. g[x] = g[u] /\ g[x] \in Int
      <4>1. /\ g[x] = There(t)[x] + Coming(t, Lost')[x]
            /\ g[u] = There(t)[u] + Coming(t, Lost')[u]
            /\ Coming(t, Lost')[x] = Weight(Ordered(t, Lost'), x.commands)
            /\ Coming(t, Lost')[u] = Weight(Ordered(t, Lost'), u.commands)
            /\ There(t)[x] = (IF x.type = t /\ x.alive THEN 1 ELSE 0)
            /\ There(t)[u] = (IF u.type = t /\ u.alive THEN 1 ELSE 0)
        BY <1>2, <1>3, CountedType
      <4>2. g[x] \in Int
        BY <1>3, <2>1
      <4> QED
        BY <1>1, <1>3, <4>1, <4>2
    <3>5. Weight(g, units') = Weight(g, units) - g[u] + g[x]
      BY <1>4, <2>1
    <3> HIDE DEF g, h, u
    <3>6. Weight(g, units') <= Weight(h, units)
      BY <2>2, <3>3, <3>4, <3>5
    <3> QED
      BY <1>6, <2>1, <2>2, <3>6, LimitStays DEF g, h
  <2> QED
    BY <2>3, <2>4
<1> QED
  BY <1>5, <1>7, <1>8 DEF Within


\* The last command is cancelled, a command is finished, a skill changes.
LEMMA WithinCancelLast ==
    ASSUME Sane, Within, NEW i \in Id, NEW s \in {units[i].skill, "stop"}, CancelLast(i, s),
           s = units[i].skill \/ units[i].skill # "build", Account' \in Solvent
    PROVE  Within'
<1> DEFINE u == units[i]
           x == Doing(u, Front(u.commands), s)
<1>1. u.commands # <<>> /\ u.skill \notin {"beBuilt", "die", "gone"} /\ Replaces(i, x)
  BY CancelLastStep
<1>2. s \in Skill
  BY UnitOf, UnitFields DEF Skill, Class
<1>3. Milder(i, x)
  BY <1>1, <1>2, MilderFront
<1> HIDE DEF x
<1> QED
  BY <1>1, <1>3, WithinReplaced

LEMMA WithinFinished ==
    ASSUME Sane, Within, NEW i \in Id, NEW class, Has(i, class),
           units' = [units EXCEPT ![i] = Finished(@)], Account' \in Solvent
    PROVE  Within'
<1> DEFINE x == Doing(units[i], Tail(units[i].commands), "stop")
<1>1. Replaces(i, x) /\ units[i].commands # <<>>
  BY FinishedStep, HeadOf
<1>2. Milder(i, x)
  BY <1>1, MilderTail
<1> HIDE DEF x
<1> QED
  BY <1>1, <1>2, WithinReplaced

LEMMA WithinSkill ==
    ASSUME Sane, Within, NEW i \in Id, NEW s \in Skill, Account' \in Solvent,
           Replaces(i, Doing(units[i], units[i].commands, s)),
           s = "gone" <=> units[i].skill = "gone",
           units[i].commands # <<>> /\ units[i].commands[1].site # None =>
               s = units[i].skill \/ ~units[units[i].commands[1].site].alive
    PROVE  Within'
<1> DEFINE u == units[i]
           q == u.commands
           x == Doing(u, q, s)
<1>1. u \in Unit /\ q \in Seq(Command) /\ BuildOK(u, units)
  BY UnitOf, UnitFields DEF Within
<1>2. x.commands = u.commands /\ x.skill = s
  <2> HIDE DEF u
  <2>1. q \in Seq(Command)
    BY <1>1
  <2> HIDE DEF q
  <2> QED
    BY <1>1, <2>1, DoingFields DEF q
<1> HIDE DEF x
<1>3. BuildOK(x, units)
  BY <1>1, <1>2 DEF BuildOK
<1>4. Milder(i, x)
  BY <1>3, MilderSame DEF x
<1>5. Replaces(i, x)
  BY DEF x
<1> QED
  BY <1>4, <1>5, WithinReplaced

\* A builder stops building a building that is there only when it is dead.
LEMMA WithinDistracted ==
    ASSUME Sane, Within, NEW i \in Id, Distracted(i), Account' \in Solvent
    PROVE  Within'
<1> DEFINE u == units[i]
           s == u.commands[1].site
<1>1. /\ Has(i, "build") /\ units' = [units EXCEPT ![i].skill = "stop"]
      /\ AtTarget(i) # None => AtTarget(i) # GetUnit(Current(i))
  BY DEF Distracted
<1>2. /\ u.commands # <<>> /\ u.commands \in Seq(Command) /\ u.commands[1] = Current(i)
      /\ Current(i) \in Command /\ u.skill \notin {"beBuilt", "die", "gone"}
      /\ 1 \in 1 .. Len(u.commands)
  BY <1>1, HeadOf
<1>3. Replaces(i, Doing(u, u.commands, "stop"))
  BY <1>1, <1>2, SkillStep DEF Skill, Class
<1>4. ASSUME s # None PROVE ~units[s].alive
  <2>1. s \in Id /\ u.target = s
    <3>1. QueueOK(u, Len(units)) /\ s \in Nat
      BY <1>2, UnitOf, CommandFields
    <3>2. s <= Len(units) /\ u.target = s
      BY <1>2, <1>4, <3>1 DEF QueueOK, CommandOK
    <3> QED
      BY <1>4, <3>1, <3>2 DEF Id, None
  <2>2. ~OnMap(units[s])
    BY <1>1, <1>2, <1>4, <2>1 DEF AtTarget, GetUnit, OnMap
  <2>3. QueueOK(units[s], Len(units))
    BY <2>1, UnitOf
  <2> QED
    BY <2>2, <2>3 DEF OnMap, QueueOK
<1>5. "stop" \in Skill
  BY DEF Skill, Class
<1> QED
  BY <1>2, <1>3, <1>4, <1>5, WithinSkill


LEMMA WithinUpdate ==
    ASSUME Sane, StoreOK, Within, NEW i \in Id, Update(i), Account' \in Solvent
    PROVE  Within'
<1>1. CASE BeginTask(i)
  <2>1. PICK class \in {"produce", "upgrade", "morph"} :
            /\ Has(i, class) /\ units[i].skill # class
            /\ units' = [units EXCEPT ![i].skill = class]
    BY <1>1 DEF BeginTask
  <2>2. class \in Skill /\ class \notin {"beBuilt", "die", "gone"}
    BY DEF Skill, Class
  <2>3. /\ units[i].commands[1].class = class /\ units[i].skill \notin {"beBuilt", "die", "gone"}
        /\ 1 \in 1 .. Len(units[i].commands)
    BY <2>1, HeadOf
  <2>4. units[i].commands[1].site = None
    <3>1. QueueOK(units[i], Len(units))
      BY UnitOf
    <3> QED
      BY <2>3, <3>1 DEF QueueOK, CommandOK
  <2>5. Replaces(i, Doing(units[i], units[i].commands, class))
    BY <2>1, <2>2, SkillStep
  <2> QED
    BY <2>2, <2>3, <2>4, <2>5, WithinSkill
<1>2. CASE NoRoomToMorph(i)
  BY <1>2, WithinCancelLast DEF NoRoomToMorph
<1>3. CASE FinishProduction(i)
  BY <1>3, WithinFinishProduction
<1>4. CASE NoPlaceForProduct(i)
  BY <1>4, WithinFinished DEF NoPlaceForProduct
<1>5. CASE FinishUpgrade(i)
  BY <1>5, WithinFinished DEF FinishUpgrade
<1>6. CASE FinishMorph(i)
  BY <1>6, WithinFinishMorph
<1>7. CASE BeginBuilding(i)
  BY <1>7, WithinBeginBuilding
<1>8. CASE NoPlaceToBuild(i)
  <2>1. PICK s \in {"stop", units[i].skill} : CancelLast(i, s)
    BY <1>8 DEF NoPlaceToBuild
  <2>2. units[i].skill # "build"
    BY <1>8 DEF NoPlaceToBuild
  <2> QED
    BY <2>1, <2>2, WithinCancelLast
<1>9. CASE Distracted(i)
  BY <1>9, WithinDistracted
<1>10. CASE NothingToBuild(i)
  BY <1>10, WithinFinished DEF NothingToBuild
<1>11. CASE FinishBuilding(i)
  BY <1>11, WithinFinishBuilding
<1>12. CASE Kill(i)
  <2> DEFINE x == Doing(units[i], <<>>, "die")
  <2>1. OnMap(units[i]) /\ Replaces(i, x)
    BY <1>12, KillStep
  <2>2. "die" \in Skill /\ "die" # "gone" /\ units[i].skill # "gone"
    BY <2>1 DEF Skill, OnMap
  <2>3. Milder(i, x)
    BY <2>2, MilderNone
  <2> HIDE DEF x
  <2> QED
    BY <2>1, <2>3, WithinReplaced
<1> QED
  BY <1>1, <1>2, <1>3, <1>4, <1>5, <1>6, <1>7, <1>8, <1>9, <1>10, <1>11, <1>12 DEF Update

LEMMA WithinStep ==
    ASSUME Sane, StoreOK, Within, [Next]_vars
    PROVE  Within'
<1>0. Sane' /\ Account' \in Solvent
  BY BooksStep DEF Sane
<1>1. ASSUME NEW i \in Id, Player(i) PROVE Within'
  <2>1. ASSUME NEW o \in Orders[units[i].type], NEW p \in BOOLEAN, GiveCommand(i, o, p)
        PROVE  Within'
    BY <1>0, <2>1, WithinGiveCommand
  <2>2. CASE CancelCommand(i)
    BY <1>0, <2>2, WithinCancelLast DEF CancelCommand
  <2> QED
    BY <1>1, <2>1, <2>2 DEF Player
<1>2. ASSUME NEW i \in Id, Update(i) PROVE Within'
  BY <1>0, <1>2, WithinUpdate
<1>3. ASSUME NEW i \in Id, Repair(i) PROVE Within'
  <2>1. /\ units[i].commands = <<>> /\ units[i].skill = "beBuilt"
        /\ Replaces(i, Doing(units[i], units[i].commands, "stop"))
    BY <1>3, RepairStep DEF IsBeingBuilt
  <2>2. "stop" \in Skill
    BY DEF Skill, Class
  <2> QED
    BY <1>0, <2>1, <2>2, WithinSkill
<1>4. ASSUME NEW i \in Id, DecHp(i) PROVE Within'
  <2> DEFINE u == units[i]
             x == [u EXCEPT !.alive = FALSE]
  <2>1. Replaces(i, x)
    BY <1>4, DecHpStep
  <2>2. /\ u \in Unit /\ x \in Unit /\ x.type = u.type /\ x.skill = u.skill
        /\ x.commands = u.commands /\ ~x.alive
    BY <2>1, UnitOf DEF Replaces, Unit
  <2>3. BuildOK(u, units)
    BY DEF Within
  <2> HIDE DEF x
  <2>4. BuildOK(x, units)
    BY <2>2, <2>3 DEF BuildOK
  <2>5. ASSUME NEW t \in UnitType PROVE Counted(t, Lost)[x] <= Counted(t, Lost)[u]
    <3> DEFINE h == Counted(t, Lost)
               w == Ordered(t, Lost)
    <3>1. /\ h[x] = There(t)[x] + Coming(t, Lost)[x] /\ h[u] = There(t)[u] + Coming(t, Lost)[u]
          /\ Coming(t, Lost)[x] = Weight(w, x.commands)
          /\ Coming(t, Lost)[u] = Weight(w, u.commands)
          /\ There(t)[x] = (IF x.type = t /\ x.alive THEN 1 ELSE 0)
          /\ There(t)[u] = (IF u.type = t /\ u.alive THEN 1 ELSE 0)
          /\ Coming(t, Lost)[u] \in Nat
      <4> HIDE DEF u
      <4> QED
        BY <2>2, CountedType
    <3> HIDE DEF h, w, u
    <3>2. h[x] <= h[u]
      BY <2>2, <3>1
    <3> QED
      BY <3>2 DEF h
  <2>6. Milder(i, x)
    BY <2>2, <2>4, <2>5 DEF Milder
  <2> QED
    BY <1>0, <2>1, <2>6, WithinReplaced
<1>5. ASSUME NEW i \in Id, Undertake(i) PROVE Within'
  BY <1>0, <1>5, WithinUndertake
<1>6. CASE UNCHANGED units
  <2>1. Lost' = Lost /\ Id' = Id
    BY <1>6 DEF Lost, Id
  <2>2. \A t \in UnitType : LimitOK(t)'
    BY <1>6, <2>1 DEF Within, LimitOK, BuiltLost
  <2>3. \A i \in Id' : BuildOK(units'[i], units')
    BY <1>6, <2>1 DEF Within
  <2> QED
    BY <2>2, <2>3 DEF Within
<1> QED
  BY <1>1, <1>2, <1>3, <1>4, <1>5, <1>6 DEF Next, Harvest, vars

\* As many units of a type as it may have, at most, when the game begins.
StartsWithin ==
    \A t \in UnitType :
        \/ MaxUnitCount[t] = 0
        \/ Cardinality({k \in DOMAIN Starting : Starting[k] = t}) <= MaxUnitCount[t]

LEMMA WithinInit ==
    ASSUME Init, StartsWithin
    PROVE  Within
<1>1. /\ units = [k \in 1 .. Len(Starting) |-> NewUnit(Starting[k], "stop")]
      /\ Starting \in Seq(UnitType) /\ DOMAIN Starting = 1 .. Len(Starting)
      /\ Len(Starting) \in Nat
  BY StartingAssumption DEF Init
<1>2. /\ units \in Seq(Unit) /\ Len(units) = Len(Starting)
      /\ \A k \in 1 .. Len(units) : /\ units[k] = NewUnit(Starting[k], "stop")
                                    /\ Starting[k] \in UnitType
  <2>1. Sane
    BY BooksInit
  <2>2. Len(units) = Len(Starting)
    BY <1>1
  <2> QED
    BY <1>1, <2>1, <2>2 DEF Sane
<1>3. \A k \in Id : BuildOK(units[k], units)
  <2>1. \A t, s : NewUnit(t, s).commands = <<>>
    BY DEF NewUnit
  <2>2. \A k \in Id : units[k].commands = <<>>
    BY <1>2, <2>1 DEF Id
  <2> QED
    BY <2>2 DEF BuildOK
<1>4. ASSUME NEW t \in UnitType PROVE LimitOK(t)
  <2> DEFINE h == Counted(t, Lost)
             K == {k \in DOMAIN Starting : Starting[k] = t}
  <2>1. K \in SUBSET (1 .. Len(units)) /\ h \in [Unit -> Int]
    BY <1>1, <1>2, CountedType
  <2>2. ASSUME NEW k \in 1 .. Len(units) PROVE h[units[k]] = IF k \in K THEN 1 ELSE 0
    <3>1. units[k] = NewUnit(Starting[k], "stop") /\ Starting[k] \in UnitType
      BY <1>2
    <3>2. h[NewUnit(Starting[k], "stop")] = IF Starting[k] = t THEN 1 ELSE 0
      BY <3>1, CountedNew
    <3> QED
      BY <1>1, <1>2, <3>1, <3>2
  <2>3. MaxUnitCount[t] = 0 \/ Cardinality(K) <= MaxUnitCount[t]
    BY DEF StartsWithin
  <2>4. Cardinality(K) = Weight(h, units)
    <3> HIDE DEF h, K
    <3> QED
      BY <1>2, <2>1, <2>2, CountIsWeight
  <2> QED
    BY <2>3, <2>4 DEF LimitOK
<1> QED
  BY <1>3, <1>4 DEF Within

\* The count of LimitOK is the count the game makes.
LEMMA WithinIsLimit ==
    ASSUME Sane, Within
    PROVE  CountWithinLimit
<1> SUFFICES ASSUME NEW t \in UnitType
             PROVE  \/ MaxUnitCount[t] = 0
                    \/ CountForMaxUnitCount(units, t) <= MaxUnitCount[t]
                    \/ BuiltLost(t)
  BY DEF CountWithinLimit, BuiltLost, MadeAs, Morphs
<1>1. units \in Seq(Unit) /\ Len(units) \in Nat
  BY DEF Sane
<1>2. ASSUME NEW i \in 1 .. Len(units), NEW k \in 1 .. Len(units[i].commands)
      PROVE  units[i].commands[k].site <= Len(units)
  BY DEF Sane, Id, QueueOK, CommandOK
<1>3. CountForMaxUnitCount(units, t) = Weight(Counted(t, Lost), units)
  BY <1>1, <1>2, CountIs
<1> QED
  BY <1>3 DEF Within, LimitOK


\* If the units the game begins with are within the limits of their types, then so are
\* all units and all orders for units, in every state: no order taken, building begun
\* or finished, morph, death or deletion makes more of a type than Faction::reqsOk let
\* pass when the orders were taken, unless a unit that others build has been killed.
THEOREM CountWithinLimitHolds == StartsWithin => (Spec => []CountWithinLimit)
<1> SUFFICES ASSUME StartsWithin PROVE Spec => []CountWithinLimit
  OBVIOUS
<1>1. Init => Sane /\ StoreOK /\ Within
  BY BooksInit, WithinInit
<1>2. Sane /\ StoreOK /\ Within /\ [Next]_vars => (Sane /\ StoreOK /\ Within)'
  BY BooksStep, WithinStep
<1>3. Sane /\ Within => CountWithinLimit
  BY WithinIsLimit
<1> QED
  BY <1>1, <1>2, <1>3, PTL DEF Spec


-----------------------------------------------------------------------------
(* The research. *)

\* The lookup and the list of an upgrade manager agree.
Finds(m) == \A u \in Upgrade : m.index[u] # 0 => m.list[m.index[u]].type = u

Sound(m) ==
    /\ Finds(m)
    /\ \A k \in 1 .. Len(m.list) : m.index[m.list[k].type] = k

\* There are at most two upgrades.
FewUpgrades == \A u, v, w \in Upgrade : u = v \/ v = w \/ u = w

LEMMA ManagerFields ==
    ASSUME NEW m \in Managers
    PROVE  /\ m.list \in Seq(Research) /\ Len(m.list) \in Nat
           /\ \A u \in Upgrade : m.index[u] \in Nat /\ m.index[u] <= Len(m.list)
           /\ \A u \in Upgrade : m.index[u] # 0 => m.index[u] \in 1 .. Len(m.list)
           /\ \A k \in 1 .. Len(m.list) : /\ m.list[k] \in Research /\ m.list[k].type \in Upgrade
                                          /\ m.list[k].state \in {"upgrading", "upgraded"}
<1>1. /\ m.list \in Seq(Research) /\ m.index \in [Upgrade -> Nat]
      /\ \A u \in Upgrade : m.index[u] <= Len(m.list)
  BY DEF Managers
<1>2. ASSUME NEW r \in Research PROVE r.type \in Upgrade /\ r.state \in {"upgrading", "upgraded"}
  BY DEF Research
<1>3. \A k \in 1 .. Len(m.list) : m.list[k] \in Research
  BY <1>1
<1>4. Len(m.list) \in Nat /\ \A u \in Upgrade : m.index[u] \in Nat
  BY <1>1
<1> QED
  BY <1>1, <1>2, <1>3, <1>4

LEMMA StateIs ==
    ASSUME NEW m \in Managers, NEW u \in Upgrade
    PROVE  /\ StateOf(m, u) = IF m.index[u] = 0 THEN "none" ELSE m.list[m.index[u]].state
           /\ StateOf(m, u) \in {"none", "upgrading", "upgraded"}
           /\ Manager!IsUpgrading(m, u) <=> StateOf(m, u) = "upgrading"
           /\ Manager!IsUpgrading(m, u) <=> ~Manager!IsUpgraded(m, u) /\ m.index[u] # 0
<1>1. m.index[u] # 0 => m.list[m.index[u]].state \in {"upgrading", "upgraded"}
  BY ManagerFields
<1> QED
  BY <1>1 DEF StateOf, Manager!IsUpgraded, Manager!IsUpgrading

LEMMA UpgradeStarted ==
    ASSUME NEW m \in Managers, Sound(m), NEW u \in Upgrade, m.index[u] = 0
    PROVE  /\ Sound(Manager!StartUpgrade(m, u))
           /\ \A v \in Upgrade : StateOf(Manager!StartUpgrade(m, u), v)
                                   = IF v = u THEN "upgrading" ELSE StateOf(m, v)
<1> DEFINE x == [type |-> u, state |-> "upgrading"]
           n == Manager!StartUpgrade(m, u)
           l == Append(m.list, x)
<1>1. /\ m.list \in Seq(Research) /\ Len(m.list) \in Nat /\ m.index \in [Upgrade -> Nat]
      /\ \A v \in Upgrade : m.index[v] # 0 => m.index[v] \in 1 .. Len(m.list)
      /\ \A k \in 1 .. Len(m.list) : m.list[k].type \in Upgrade
  BY ManagerFields DEF Managers
<1>2. x \in Research /\ x.type = u /\ x.state = "upgrading"
  BY DEF Research
<1> HIDE DEF x
<1>3. /\ Len(l) = Len(m.list) + 1 /\ l[Len(m.list) + 1] = x
      /\ \A k \in 1 .. Len(m.list) : l[k] = m.list[k]
  BY <1>1, <1>2, AppendFacts
<1>4. n \in Managers
  BY StartUpgradeType
<1>5. n.list = l /\ \A v \in Upgrade : n.index[v] = IF v = u THEN Len(m.list) + 1 ELSE m.index[v]
  BY <1>1 DEF Manager!StartUpgrade, x
<1> HIDE DEF n, l
<1>6. Sound(n)
  <2>1. ASSUME NEW v \in Upgrade, n.index[v] # 0 PROVE n.list[n.index[v]].type = v
    <3>1. CASE v = u
      BY <1>2, <1>3, <1>5, <3>1
    <3>2. CASE v # u
      <4>1. n.index[v] = m.index[v] /\ m.index[v] \in 1 .. Len(m.list)
        BY <1>1, <1>5, <2>1, <3>2
      <4> QED
        BY <1>3, <1>5, <4>1 DEF Sound, Finds
    <3> QED
      BY <3>1, <3>2
  <2>2. ASSUME NEW k \in 1 .. Len(n.list) PROVE n.index[n.list[k].type] = k
    <3>1. CASE k = Len(m.list) + 1
      BY <1>2, <1>3, <1>5, <3>1
    <3>2. CASE k # Len(m.list) + 1
      <4>1. k \in 1 .. Len(m.list) /\ n.list[k] = m.list[k]
        BY <1>1, <1>3, <1>5, <3>2
      <4>2. m.index[m.list[k].type] = k /\ m.list[k].type # u /\ m.list[k].type \in Upgrade
        BY <1>1, <4>1 DEF Sound, Finds
      <4> QED
        BY <1>5, <4>1, <4>2
    <3> QED
      BY <3>1, <3>2
  <2> QED
    BY <2>1, <2>2 DEF Sound, Finds
<1>7. ASSUME NEW v \in Upgrade PROVE StateOf(n, v) = IF v = u THEN "upgrading" ELSE StateOf(m, v)
  <2>1. CASE v = u
    <3>1. n.index[v] # 0 /\ n.list[n.index[v]].state = "upgrading"
      BY <1>1, <1>2, <1>3, <1>5, <2>1
    <3> QED
      BY <1>4, <2>1, <3>1, StateIs
  <2>2. CASE v # u
    <3>1. /\ n.index[v] = m.index[v]
          /\ m.index[v] # 0 => n.list[n.index[v]] = m.list[m.index[v]]
      BY <1>1, <1>3, <1>5, <2>2
    <3> QED
      BY <1>4, <2>2, <3>1, StateIs
  <2> QED
    BY <2>1, <2>2
<1> QED
  BY <1>6, <1>7 DEF n

LEMMA UpgradeFinished ==
    ASSUME NEW m \in Managers, Sound(m), NEW u \in Upgrade, StateOf(m, u) = "upgrading"
    PROVE  /\ Sound(Manager!FinishUpgrade(m, u))
           /\ \A v \in Upgrade : StateOf(Manager!FinishUpgrade(m, u), v)
                                   = IF v = u THEN "upgraded" ELSE StateOf(m, v)
<1> DEFINE n == Manager!FinishUpgrade(m, u)
           i == m.index[u]
<1>1. /\ m.list \in Seq(Research) /\ Len(m.list) \in Nat
      /\ \A v \in Upgrade : m.index[v] # 0 => m.index[v] \in 1 .. Len(m.list)
      /\ \A k \in 1 .. Len(m.list) : m.list[k] \in Research /\ m.list[k].type \in Upgrade
  BY ManagerFields
<1>2. i \in 1 .. Len(m.list) /\ i # 0
  BY <1>1, StateIs
<1>3. n \in Managers
  BY FinishUpgradeType
<1>4. /\ n.index = m.index /\ Len(n.list) = Len(m.list)
      /\ \A k \in 1 .. Len(m.list) : /\ n.list[k].type = m.list[k].type
                                     /\ n.list[k].state = IF k = i THEN "upgraded"
                                                          ELSE m.list[k].state
  <2>1. m = [list |-> m.list, index |-> m.index]
    BY DEF Managers
  <2>2. n.index = m.index /\ n.list = [m.list EXCEPT ![i].state = "upgraded"]
    BY <2>1 DEF Manager!FinishUpgrade
  <2> HIDE DEF n
  <2>3. \A k \in 1 .. Len(m.list) :
            n.list[k] = IF k = i THEN [m.list[k] EXCEPT !.state = "upgraded"] ELSE m.list[k]
    BY <1>1, <1>2, <2>2
  <2>4. Len(n.list) = Len(m.list)
    BY <1>1, <1>2, <2>2
  <2>5. \A r \in Research : /\ [r EXCEPT !.state = "upgraded"].type = r.type
                            /\ [r EXCEPT !.state = "upgraded"].state = "upgraded"
    BY DEF Research
  <2> QED
    BY <1>1, <2>2, <2>3, <2>4, <2>5
<1> HIDE DEF n
<1>5. Sound(n)
  <2>1. \A k \in 1 .. Len(m.list) : n.list[k].type = m.list[k].type
    BY <1>4
  <2>2. \A v \in Upgrade : m.index[v] # 0 => m.list[m.index[v]].type = v
    BY DEF Sound, Finds
  <2>3. \A k \in 1 .. Len(m.list) : m.index[m.list[k].type] = k
    BY DEF Sound
  <2>4. Finds(n)
    BY <1>1, <1>4, <2>1, <2>2 DEF Finds
  <2>5. \A k \in 1 .. Len(n.list) : n.index[n.list[k].type] = k
    BY <1>4, <2>1, <2>3
  <2> QED
    BY <2>4, <2>5 DEF Sound
<1>6. ASSUME NEW v \in Upgrade PROVE StateOf(n, v) = IF v = u THEN "upgraded" ELSE StateOf(m, v)
  <2>1. CASE v = u
    BY <1>2, <1>3, <1>4, <2>1, StateIs
  <2>2. CASE v # u
    <3>1. m.index[v] # 0 => m.index[v] # i
      BY <2>2, <1>2 DEF Sound, Finds
    <3> QED
      BY <1>1, <1>3, <1>4, <2>2, <3>1, StateIs
  <2> QED
    BY <2>1, <2>2
<1> QED
  BY <1>5, <1>6 DEF n

\* With two upgrades the places that cancelUpgrade moves are all that have to be moved.
LEMMA OneOfTwoCancelled ==
    ASSUME FewUpgrades, NEW m \in Managers, Sound(m), NEW u \in Upgrade,
           StateOf(m, u) = "upgrading"
    PROVE  /\ Sound(Manager!CancelUpgrade(m, u))
           /\ \A v \in Upgrade : StateOf(Manager!CancelUpgrade(m, u), v)
                                   = IF v = u THEN "none" ELSE StateOf(m, v)
<1> DEFINE n == Manager!CancelUpgrade(m, u)
           i == m.index[u]
           rest == Manager!RemoveAt(m.list, i)
<1>1. /\ m.list \in Seq(Research) /\ Len(m.list) \in Nat
      /\ \A v \in Upgrade : m.index[v] \in Nat /\ m.index[v] <= Len(m.list)
      /\ \A v \in Upgrade : m.index[v] # 0 => m.index[v] \in 1 .. Len(m.list)
      /\ \A k \in 1 .. Len(m.list) : m.list[k] \in Research /\ m.list[k].type \in Upgrade
  BY ManagerFields
<1>2. i \in 1 .. Len(m.list) /\ i # 0 /\ i \in 0 .. Len(m.list)
  BY <1>1, StateIs
<1>3. n \in Managers
  BY CancelUpgradeType
<1>4. /\ Len(rest) = Len(m.list) - 1
      /\ \A j \in 1 .. Len(rest) : rest[j] = IF j < i THEN m.list[j] ELSE m.list[j + 1]
  BY <1>1, <1>2, RemoveAtFacts
<1>5. /\ n.list = rest
      /\ \A v \in Upgrade : n.index[v] = IF v = u THEN 0
                                         ELSE IF m.index[v] > Len(rest) THEN m.index[v] - 1
                                         ELSE m.index[v]
  BY DEF Manager!CancelUpgrade
<1> HIDE DEF n, rest
<1>6. ASSUME NEW v \in Upgrade, v # u
      PROVE  /\ m.index[v] # 0 => m.index[v] \in {1, 2} /\ i \in {1, 2} /\ m.index[v] # i
                                  /\ Len(m.list) = 2
             /\ m.index[v] = 0 => Len(m.list) = 1
  <2>1. \A k \in 1 .. Len(m.list) : m.list[k].type \in {u, v}
    BY <1>1, <1>6 DEF FewUpgrades
  <2>2. \A k \in 1 .. Len(m.list) : k = i \/ k = m.index[v]
    BY <2>1 DEF Sound, Finds
  <2>3. m.index[v] # 0 => m.index[v] # i
    BY <1>2, <1>6 DEF Sound, Finds
  <2>4. /\ 1 <= Len(m.list) => 1 = i \/ 1 = m.index[v]
        /\ 2 <= Len(m.list) => 2 = i \/ 2 = m.index[v]
        /\ 3 <= Len(m.list) => 3 = i \/ 3 = m.index[v]
    <3>1. ASSUME NEW k \in {1, 2, 3}, k <= Len(m.list) PROVE k \in 1 .. Len(m.list)
      BY <1>1, <3>1
    <3> QED
      BY <2>2, <3>1
  <2> DEFINE l == Len(m.list)
             j == m.index[v]
  <2>5. l \in Nat /\ i \in 1 .. l /\ j \in 0 .. l
    BY <1>1, <1>2
  <2>8. /\ 1 <= l => 1 = i \/ 1 = j
        /\ 2 <= l => 2 = i \/ 2 = j
        /\ 3 <= l => 3 = i \/ 3 = j
    BY <2>4
  <2>9. j # 0 => j # i
    BY <2>3
  <2> SUFFICES /\ j # 0 => j \in {1, 2} /\ i \in {1, 2} /\ j # i /\ l = 2
               /\ j = 0 => l = 1
    OBVIOUS
  <2> HIDE DEF i, j, l
  <2>6. CASE j = 0
    BY <2>5, <2>6, <2>8
  <2>7. CASE j # 0
    BY <2>5, <2>7, <2>8, <2>9
  <2> QED
    BY <2>6, <2>7
<1>7. ASSUME NEW v \in Upgrade, v # u
      PROVE  /\ m.index[v] = 0 => n.index[v] = 0
             /\ m.index[v] # 0 => /\ n.index[v] = 1 /\ Len(rest) = 1
                                  /\ rest[1] = m.list[m.index[v]]
  <2>1. n.index[v] = IF m.index[v] > Len(rest) THEN m.index[v] - 1 ELSE m.index[v]
    BY <1>5, <1>7
  <2>2. CASE m.index[v] = 0
    BY <1>1, <1>2, <1>4, <2>1, <2>2
  <2>3. CASE m.index[v] # 0
    <3>1. m.index[v] \in {1, 2} /\ i \in {1, 2} /\ m.index[v] # i /\ Len(m.list) = 2
      BY <1>6, <1>7, <2>3
    <3>2. Len(rest) = 1 /\ 1 \in 1 .. Len(rest)
      BY <1>4, <3>1
    <3>3. rest[1] = IF 1 < i THEN m.list[1] ELSE m.list[2]
      BY <1>4, <3>2
    <3> HIDE DEF i
    <3> QED
      BY <2>1, <2>3, <3>1, <3>2, <3>3
  <2> QED
    BY <2>2, <2>3
<1>8. Sound(n)
  <2>1. ASSUME NEW v \in Upgrade, n.index[v] # 0 PROVE n.list[n.index[v]].type = v
    <3>1. v # u
      BY <1>5, <2>1
    <3>2. m.index[v] # 0
      BY <1>7, <2>1, <3>1
    <3> QED
      BY <1>5, <1>7, <3>1, <3>2 DEF Sound, Finds
  <2>2. ASSUME NEW k \in 1 .. Len(n.list) PROVE n.index[n.list[k].type] = k
    <3>0. Len(rest) >= 1
      BY <1>1, <1>2, <1>4, <1>5, <2>2
    <3>1. PICK v \in Upgrade : v # u
      <4> DEFINE j == IF i = 1 THEN 2 ELSE 1
      <4>1. j \in 1 .. Len(m.list) /\ j # i
        BY <1>1, <1>2, <1>4, <3>0
      <4>2. m.index[m.list[j].type] = j /\ m.list[j].type \in Upgrade
        BY <1>1, <4>1 DEF Sound, Finds
      <4> QED
        BY <4>1, <4>2
    <3>2. m.index[v] # 0
      BY <1>1, <1>2, <1>4, <1>6, <3>0, <3>1
    <3>3. n.index[v] = 1 /\ Len(n.list) = 1 /\ n.list[1] = m.list[m.index[v]]
      BY <1>5, <1>7, <3>1, <3>2
    <3>4. k = 1 /\ m.list[m.index[v]].type = v
      BY <2>2, <3>2, <3>3 DEF Sound, Finds
    <3> QED
      BY <3>3, <3>4
  <2> QED
    BY <2>1, <2>2 DEF Sound, Finds
<1>9. ASSUME NEW v \in Upgrade PROVE StateOf(n, v) = IF v = u THEN "none" ELSE StateOf(m, v)
  <2>1. CASE v = u
    BY <1>3, <1>5, <2>1, StateIs
  <2>2. CASE v # u
    BY <1>3, <1>5, <1>7, <2>2, StateIs
  <2> QED
    BY <2>1, <2>2
<1> QED
  BY <1>8, <1>9 DEF n


\* The upgrades the lookup has a place for.
Placed(m) == {v \in Upgrade : m.index[v] # 0}

\* What is left of a manager, whatever places the lookup gives, when the upgrades X
\* are cancelled.
Remains(m, n, X) ==
    /\ n \in Managers
    /\ Placed(n) = Placed(m) \ X
    /\ IsFiniteSet(Placed(n)) /\ Cardinality(Placed(n)) = Len(n.list)
    /\ \A j \in 1 .. Len(n.list) : \E k \in 1 .. Len(m.list) : n.list[j] = m.list[k]

LEMMA AllRemain ==
    ASSUME NEW m \in Managers, Sound(m)
    PROVE  Remains(m, m, {})
<1> DEFINE n == Len(m.list)
           P == Placed(m)
           f == [k \in 1 .. n |-> m.list[k].type]
<1>1. /\ n \in Nat
      /\ \A v \in Upgrade : m.index[v] # 0 => m.index[v] \in 1 .. n
      /\ \A k \in 1 .. n : m.list[k].type \in Upgrade
  BY ManagerFields
<1>2. \A k \in 1 .. n : m.index[f[k]] = k /\ f[k] \in P
  BY <1>1 DEF Sound, Placed
<1>3. \A v \in P : m.index[v] \in 1 .. n /\ f[m.index[v]] = v
  BY <1>1 DEF Sound, Finds, Placed
<1>4. f \in [1 .. n -> P] /\ DOMAIN f = 1 .. n
  BY <1>2
<1> HIDE DEF n, P, f
<1>5. f \in Bijection(1 .. n, P)
  <2>1. f \in Injection(1 .. n, P)
    BY <1>2, <1>4 DEF Injection, IsInjective
  <2>2. f \in Surjection(1 .. n, P)
    BY <1>3, <1>4 DEF Surjection
  <2> QED
    BY <2>1, <2>2 DEF Bijection
<1>6. IsFiniteSet(1 .. n) /\ Cardinality(1 .. n) = n
  <2>1. /\ IsFiniteSet(1 .. n)
        /\ Cardinality(1 .. n) = IF 1 > n THEN 0 ELSE n - 1 + 1
    BY <1>1, FS_Interval
  <2> QED
    BY <1>1, <2>1
<1>7. IsFiniteSet(P) /\ Cardinality(P) = n
  BY <1>5, <1>6, FS_Bijection DEF ExistsBijection
<1> QED
  BY <1>7 DEF Remains, n, P

\* The lookup may go wrong, but never says of an upgrade that it is there when it is not.
LEMMA OneLessRemains ==
    ASSUME NEW m, NEW n, NEW X, Remains(m, n, X), NEW u \in Placed(n)
    PROVE  Remains(m, Manager!CancelUpgrade(n, u), X \cup {u})
<1> DEFINE l == Manager!CancelUpgrade(n, u)
           i == n.index[u]
           rest == Manager!RemoveAt(n.list, i)
           P == Placed(n)
<1>1. /\ n \in Managers /\ u \in Upgrade /\ i # 0
      /\ P = Placed(m) \ X /\ IsFiniteSet(P) /\ Cardinality(P) = Len(n.list)
      /\ \A j \in 1 .. Len(n.list) : \E k \in 1 .. Len(m.list) : n.list[j] = m.list[k]
  BY DEF Remains, Placed
<1>2. /\ n.list \in Seq(Research) /\ Len(n.list) \in Nat
      /\ \A v \in Upgrade : n.index[v] \in Nat /\ n.index[v] <= Len(n.list)
  BY <1>1, ManagerFields
<1>3. i \in 1 .. Len(n.list) /\ i \in 0 .. Len(n.list)
  BY <1>1, <1>2
<1>4. /\ Len(rest) = Len(n.list) - 1
      /\ \A j \in 1 .. Len(rest) : rest[j] = IF j < i THEN n.list[j] ELSE n.list[j + 1]
  BY <1>1, <1>2, <1>3, RemoveAtFacts
<1>5. l \in Managers
  BY <1>1, CancelUpgradeType
<1>6. /\ l.list = rest
      /\ \A v \in Upgrade : l.index[v] = IF v = u THEN 0
                                         ELSE IF n.index[v] > Len(rest) THEN n.index[v] - 1
                                         ELSE n.index[v]
  BY DEF Manager!CancelUpgrade
<1> HIDE DEF l, rest, i
<1>7. IsFiniteSet(P \ {u}) /\ Cardinality(P \ {u}) = Len(rest)
  <2>1. /\ IsFiniteSet(P \ {u})
        /\ Cardinality(P \ {u}) = IF u \in P THEN Cardinality(P) - 1 ELSE Cardinality(P)
    <3> HIDE DEF P
    <3> QED
      BY <1>1, FS_RemoveElement
  <2> QED
    BY <1>1, <1>4, <2>1
<1>8. Placed(l) = P \ {u}
  <2>1. ASSUME NEW v \in Upgrade, v # u PROVE (l.index[v] # 0) <=> (n.index[v] # 0)
    <3>1. CASE n.index[v] = 0
      BY <1>2, <1>3, <1>4, <1>6, <2>1, <3>1
    <3>2. CASE n.index[v] # 0
      <4>1. Len(rest) # 0
        <5>1. v \in P \ {u}
          BY <2>1, <3>2 DEF Placed
        <5> HIDE DEF P
        <5>2. Cardinality(P \ {u}) # 0
          BY <1>7, <5>1, FS_EmptySet
        <5> QED
          BY <1>7, <5>2
      <4> DEFINE k == n.index[v]
                 r == Len(rest)
      <4>2. /\ l.index[v] = IF k > r THEN k - 1 ELSE k
            /\ k \in Nat /\ k # 0 /\ r \in Nat /\ r # 0
        BY <1>2, <1>3, <1>4, <1>6, <2>1, <3>2, <4>1
      <4> HIDE DEF k, r
      <4>3. l.index[v] # 0
        BY <4>2
      <4> QED
        BY <3>2, <4>3
    <3> QED
      BY <3>1, <3>2
  <2> QED
    BY <1>6, <2>1 DEF Placed
<1>9. ASSUME NEW j \in 1 .. Len(rest) PROVE \E k \in 1 .. Len(m.list) : rest[j] = m.list[k]
  <2>1. j \in 1 .. Len(n.list) /\ j + 1 \in 1 .. Len(n.list)
    BY <1>2, <1>4
  <2> QED
    BY <1>1, <1>4, <2>1
<1>10. Placed(l) = Placed(m) \ (X \cup {u})
  <2> HIDE DEF P
  <2> QED
    BY <1>1, <1>8
<1> HIDE DEF P
<1> QED
  BY <1>5, <1>6, <1>7, <1>8, <1>9, <1>10 DEF Remains, l

\* When the lookup finds the right types, it is right altogether.
LEMMA RemainsFound ==
    ASSUME NEW m \in Managers, Sound(m), NEW n, NEW X, Remains(m, n, X), Finds(n)
    PROVE  /\ Sound(n)
           /\ \A v \in Upgrade : StateOf(n, v) = IF v \in X THEN "none" ELSE StateOf(m, v)
<1> DEFINE l == Len(n.list)
           P == Placed(n)
           f == [v \in P |-> n.index[v]]
<1>1. /\ n \in Managers /\ P = Placed(m) \ X /\ IsFiniteSet(P) /\ Cardinality(P) = l
      /\ \A j \in 1 .. l : \E k \in 1 .. Len(m.list) : n.list[j] = m.list[k]
  BY DEF Remains
<1>2. l \in Nat /\ \A v \in Upgrade : n.index[v] # 0 => n.index[v] \in 1 .. l
  BY <1>1, ManagerFields
<1>3. \A v \in P : /\ v \in Upgrade /\ n.index[v] \in 1 .. l /\ f[v] = n.index[v]
                    /\ n.list[n.index[v]].type = v
  BY <1>2 DEF Placed, Finds
<1>4. f \in [P -> 1 .. l] /\ DOMAIN f = P
  BY <1>3
<1>5. Sound(n)
  <2> HIDE DEF P, f, l
  <2>1. f \in Injection(P, 1 .. l)
    BY <1>3, <1>4 DEF Injection, IsInjective
  <2>2. IsFiniteSet(1 .. l) /\ Cardinality(1 .. l) = l
    <3>1. /\ IsFiniteSet(1 .. l)
          /\ Cardinality(1 .. l) = IF 1 > l THEN 0 ELSE l - 1 + 1
      BY <1>2, FS_Interval
    <3> QED
      BY <1>2, <3>1
  <2>3. f \in Surjection(P, 1 .. l)
    BY <1>1, <2>1, <2>2, FS_Injection
  <2>4. \A k \in 1 .. l : \E v \in P : f[v] = k
    BY <2>3 DEF Surjection
  <2>5. \A k \in 1 .. l : n.index[n.list[k].type] = k
    BY <1>3, <2>4
  <2> QED
    BY <2>5 DEF Sound, l
<1>6. ASSUME NEW v \in Upgrade
      PROVE  StateOf(n, v) = IF v \in X THEN "none" ELSE StateOf(m, v)
  <2>1. n.index[v] # 0 <=> m.index[v] # 0 /\ v \notin X
    BY <1>1 DEF Placed
  <2>2. CASE n.index[v] = 0
    BY <1>1, <2>1, <2>2, StateIs
  <2>3. CASE n.index[v] # 0
    <3>1. n.index[v] \in 1 .. l /\ n.list[n.index[v]].type = v
      BY <1>2, <2>3 DEF Finds
    <3>2. PICK k \in 1 .. Len(m.list) : n.list[n.index[v]] = m.list[k]
      BY <1>1, <3>1
    <3>3. k = m.index[v]
      BY <3>1, <3>2 DEF Sound
    <3> QED
      BY <1>1, <2>1, <2>3, <3>2, <3>3, StateIs
  <2> QED
    BY <2>2, <2>3
<1> QED
  BY <1>5, <1>6

LEMMA UpgradeCancelled ==
    ASSUME NEW m \in Managers, Sound(m), NEW u \in Upgrade, StateOf(m, u) = "upgrading",
           FewUpgrades \/ Finds(Manager!CancelUpgrade(m, u))
    PROVE  /\ Sound(Manager!CancelUpgrade(m, u))
           /\ \A v \in Upgrade : StateOf(Manager!CancelUpgrade(m, u), v)
                                   = IF v = u THEN "none" ELSE StateOf(m, v)
<1> DEFINE n == Manager!CancelUpgrade(m, u)
<1>1. CASE FewUpgrades
  BY <1>1, OneOfTwoCancelled
<1>2. CASE Finds(n)
  <2>1. u \in Placed(m)
    BY StateIs DEF Placed
  <2>2. Remains(m, n, {} \cup {u})
    BY <2>1, AllRemain, OneLessRemains
  <2> HIDE DEF n
  <2>3. /\ Sound(n)
        /\ \A v \in Upgrade : StateOf(n, v) = IF v \in {} \cup {u} THEN "none" ELSE StateOf(m, v)
    BY <1>2, <2>2, RemainsFound
  <2> QED
    BY <2>3 DEF n
<1> QED
  BY <1>1, <1>2

\* Before an upgrade is begun the lookup was as right as it is then.
LEMMA FoundBeforeStart ==
    ASSUME NEW m \in Managers, NEW u \in Upgrade, m.index[u] = 0,
           Finds(Manager!StartUpgrade(m, u))
    PROVE  Finds(m)
<1> DEFINE n == Manager!StartUpgrade(m, u)
           x == [type |-> u, state |-> "upgrading"]
<1>1. /\ m.list \in Seq(Research) /\ m.index \in [Upgrade -> Nat]
      /\ \A v \in Upgrade : m.index[v] # 0 => m.index[v] \in 1 .. Len(m.list)
  BY ManagerFields DEF Managers
<1>2. /\ n.list = Append(m.list, x)
      /\ \A v \in Upgrade : v # u => n.index[v] = m.index[v]
  BY <1>1 DEF Manager!StartUpgrade
<1>3. x \in Research
  BY DEF Research
<1> HIDE DEF n, x
<1>4. \A k \in 1 .. Len(m.list) : n.list[k] = m.list[k]
  BY <1>1, <1>2, <1>3, AppendFacts
<1> QED
  BY <1>1, <1>2, <1>4 DEF Finds, n


\* The orders for an upgrade, in a queue and in a unit.
Ups(v) == [c \in Command |-> IF c.class = "upgrade" /\ c.what = v THEN 1 ELSE 0]

Researching(v) == [x \in Unit |-> Weight(Ups(v), x.commands)]

InHand(m, v) == IF StateOf(m, v) = "upgrading" THEN 1 ELSE 0

\* Some upgrades that were being researched are no more.
Drops(m, n) ==
    \A v \in Upgrade :
        \/ StateOf(n, v) = StateOf(m, v)
        \/ StateOf(m, v) = "upgrading" /\ StateOf(n, v) = "none"

LEMMA UpsType ==
    ASSUME NEW v
    PROVE  /\ Ups(v) \in [Command -> Int]
           /\ \A c \in Command : /\ Ups(v)[c] \in {0, 1} /\ Ups(v)[c] >= 0
                                 /\ Ups(v)[c] = IF c.class = "upgrade" /\ c.what = v
                                                   THEN 1 ELSE 0
  BY DEF Ups

LEMMA UpsWeight ==
    ASSUME NEW v, NEW q \in Seq(Command)
    PROVE  /\ Weight(Ups(v), q) \in Nat
           /\ \A k \in 1 .. Len(q) : Ups(v)[q[k]] <= Weight(Ups(v), q)
           /\ \A k \in 0 .. Len(q) : WeightTo(Ups(v), q, k) <= Weight(Ups(v), q)
<1> DEFINE h == Ups(v)
<1>1. h \in [Command -> Int] /\ \A c \in Command : h[c] >= 0
  BY UpsType
<1>2. \A k \in 1 .. Len(q) : q[k] \in Command
  OBVIOUS
<1> SUFFICES /\ Weight(h, q) \in Nat
             /\ \A k \in 1 .. Len(q) : h[q[k]] <= Weight(h, q)
             /\ \A k \in 0 .. Len(q) : WeightTo(h, q, k) <= Weight(h, q)
  OBVIOUS
<1> HIDE DEF h
<1>3. \A k \in 1 .. Len(q) : h[q[k]] >= 0
  BY <1>1, <1>2
<1> QED
  BY <1>1, <1>3, WeightNotNegative, WeightToGrows

LEMMA ResearchingType ==
    ASSUME NEW v
    PROVE  /\ Researching(v) \in [Unit -> Int]
           /\ \A x \in Unit : /\ Researching(v)[x] = Weight(Ups(v), x.commands)
                              /\ Researching(v)[x] >= 0
<1>1. ASSUME NEW x \in Unit PROVE Weight(Ups(v), x.commands) \in Nat
  BY UnitFields, UpsWeight
<1> QED
  BY <1>1 DEF Researching

\* Undoing commands cancels the upgrades that are among them, each of which is in hand.
LEMMA UndoneOfTwo ==
    ASSUME FewUpgrades, NEW a \in Solvent, NEW u, NEW q \in Seq(Command), Sound(a.upgrades),
           \A v \in Upgrade : Weight(Ups(v), q) <= InHand(a.upgrades, v)
    PROVE  LET m == UndoCommands(a, u, q).upgrades
           IN  /\ Sound(m) /\ Drops(a.upgrades, m)
               /\ \A v \in Upgrade : InHand(m, v) = InHand(a.upgrades, v) - Weight(Ups(v), q)
<1> DEFINE n == Len(q)
<1>1. n \in Nat /\ \A i \in 1 .. n : q[i] \in Command
  OBVIOUS
<1>2. PICK f : UndoSteps(f, a, u, q) /\ f[n] = UndoCommands(a, u, q)
  BY UndoTrace
<1>3. /\ f \in [0 .. n -> Solvent] /\ f[0] = a
      /\ \A i \in 1 .. n : f[i] = UndoCommand(f[i - 1], u, q[i])
  BY <1>2 DEF UndoSteps
<1> DEFINE Good(i) == /\ Sound(f[i].upgrades) /\ Drops(a.upgrades, f[i].upgrades)
                      /\ \A v \in Upgrade :
                             InHand(f[i].upgrades, v)
                               = InHand(a.upgrades, v) - WeightTo(Ups(v), q, i)
           T == {i \in Nat : i <= n => Good(i)}
<1>4. ASSUME NEW v \in Upgrade
      PROVE  /\ Weight(Ups(v), q) = WeightTo(Ups(v), q, n) /\ WeightTo(Ups(v), q, 0) = 0
             /\ \A k \in 0 .. n : WeightTo(Ups(v), q, k) \in Int
             /\ \A k \in 1 .. n : WeightTo(Ups(v), q, k)
                                    = Ups(v)[q[k]] + WeightTo(Ups(v), q, k - 1)
             /\ \A k \in 0 .. n : WeightTo(Ups(v), q, k) <= Weight(Ups(v), q)
             /\ Weight(Ups(v), q) \in Nat /\ InHand(a.upgrades, v) \in {0, 1}
  <2>1. InHand(a.upgrades, v) \in {0, 1}
    BY DEF InHand
  <2> QED
    BY <2>1, UpsType, UpsWeight, WeightSteps
<1> HIDE DEF n
<1>5. 0 \in T
  <2>1. \A v \in Upgrade : InHand(f[0].upgrades, v)
                             = InHand(a.upgrades, v) - WeightTo(Ups(v), q, 0)
    BY <1>3, <1>4
  <2> QED
    BY <1>3, <2>1 DEF Drops
<1>6. ASSUME NEW i \in Nat, i \in T PROVE i + 1 \in T
  <2> SUFFICES ASSUME i + 1 <= n PROVE Good(i + 1)
    OBVIOUS
  <2>1. i + 1 \in 1 .. n /\ (i + 1) - 1 = i /\ i \in 0 .. n /\ i + 1 \in 0 .. n
    BY <1>1
  <2> DEFINE c == q[i + 1]
             m == f[i].upgrades
             k == f[i + 1].upgrades
  <2>2. f[i + 1] = UndoCommand(f[i], u, c) /\ f[i] \in Solvent /\ c \in Command
    BY <1>1, <1>3, <2>1
  <2>3. /\ Sound(m) /\ Drops(a.upgrades, m)
        /\ \A v \in Upgrade : InHand(m, v) = InHand(a.upgrades, v) - WeightTo(Ups(v), q, i)
    BY <1>6, <2>1
  <2>4. k = IF c.class = "upgrade" THEN Manager!CancelUpgrade(m, c.what) ELSE m
    BY <2>2, CommandUndone
  <2>5. m \in Managers
    BY <2>2, SolventFields
  <2> HIDE DEF c
  <2>6. ASSUME NEW v \in Upgrade
        PROVE  /\ WeightTo(Ups(v), q, i + 1)
                    = (IF c.class = "upgrade" /\ c.what = v THEN 1 ELSE 0)
                      + WeightTo(Ups(v), q, i)
               /\ WeightTo(Ups(v), q, i) \in Int
               /\ WeightTo(Ups(v), q, i + 1) <= InHand(a.upgrades, v)
    <3>1. Ups(v)[c] = IF c.class = "upgrade" /\ c.what = v THEN 1 ELSE 0
      BY <2>2, UpsType
    <3>2. WeightTo(Ups(v), q, i + 1) = Ups(v)[c] + WeightTo(Ups(v), q, i)
      BY <1>4, <2>1 DEF c
    <3>3. /\ WeightTo(Ups(v), q, i) \in Int /\ WeightTo(Ups(v), q, i + 1) \in Int
          /\ WeightTo(Ups(v), q, i + 1) <= Weight(Ups(v), q)
          /\ Weight(Ups(v), q) \in Int /\ InHand(a.upgrades, v) \in Int
      BY <1>4, <2>1
    <3>4. Weight(Ups(v), q) <= InHand(a.upgrades, v)
      OBVIOUS
    <3> QED
      BY <3>1, <3>2, <3>3, <3>4
  <2> HIDE DEF T, m, k
  <2>7. CASE c.class # "upgrade"
    <3>1. \A v \in Upgrade : InHand(k, v) = InHand(a.upgrades, v) - WeightTo(Ups(v), q, i + 1)
      BY <2>3, <2>4, <2>6, <2>7
    <3> QED
      BY <2>3, <2>4, <2>7, <3>1 DEF k
  <2>8. CASE c.class = "upgrade"
    <3> DEFINE w == c.what
    <3>1. w \in Upgrade
      BY <2>2, <2>8, CommandFields
    <3> HIDE DEF w
    <3>2. StateOf(m, w) = "upgrading"
      <4>1. InHand(a.upgrades, w) - WeightTo(Ups(w), q, i) >= 1
        <5>1. InHand(a.upgrades, w) \in Int
          BY <1>4, <3>1
        <5>2. WeightTo(Ups(w), q, i + 1) = 1 + WeightTo(Ups(w), q, i)
          BY <2>6, <2>8, <3>1 DEF w
        <5> QED
          BY <2>6, <3>1, <5>1, <5>2
      <4>2. InHand(m, w) # 0
        BY <2>3, <3>1, <4>1
      <4> QED
        BY <4>2 DEF InHand
    <3>3. k = Manager!CancelUpgrade(m, w)
      BY <2>4, <2>8 DEF w
    <3>4. Sound(k) /\ \A v \in Upgrade : StateOf(k, v) = IF v = w THEN "none" ELSE StateOf(m, v)
      BY <2>3, <2>5, <3>1, <3>2, <3>3, OneOfTwoCancelled
    <3>5. Drops(a.upgrades, k)
      BY <2>3, <3>1, <3>2, <3>4 DEF Drops
    <3>6. ASSUME NEW v \in Upgrade
          PROVE  InHand(k, v) = InHand(a.upgrades, v) - WeightTo(Ups(v), q, i + 1)
      <4>1. InHand(k, v) = IF v = w THEN InHand(m, v) - 1 ELSE InHand(m, v)
        BY <3>2, <3>4 DEF InHand
      <4>2. WeightTo(Ups(v), q, i + 1) = (IF v = w THEN 1 ELSE 0) + WeightTo(Ups(v), q, i)
        BY <2>6, <2>8 DEF w
      <4>3. InHand(a.upgrades, v) \in Int /\ WeightTo(Ups(v), q, i) \in Int
        BY <1>4, <2>6
      <4>4. InHand(m, v) = InHand(a.upgrades, v) - WeightTo(Ups(v), q, i)
        BY <2>3
      <4> QED
        BY <4>1, <4>2, <4>3, <4>4
    <3> QED
      BY <3>4, <3>5, <3>6 DEF k
  <2> QED
    BY <2>7, <2>8
<1> HIDE DEF T
<1>7. Nat \subseteq T
  BY <1>5, <1>6, Induction
<1>8. Good(n)
  BY <1>1, <1>7 DEF T
<1>9. \A v \in Upgrade : WeightTo(Ups(v), q, n) = Weight(Ups(v), q)
  BY <1>4
<1> QED
  BY <1>2, <1>8, <1>9


LEMMA UndoneFound ==
    ASSUME NEW a \in Solvent, NEW u, NEW q \in Seq(Command), Sound(a.upgrades),
           Finds(UndoCommands(a, u, q).upgrades),
           \A v \in Upgrade : Weight(Ups(v), q) <= InHand(a.upgrades, v)
    PROVE  LET m == UndoCommands(a, u, q).upgrades
           IN  /\ Sound(m) /\ Drops(a.upgrades, m)
               /\ \A v \in Upgrade : InHand(m, v) = InHand(a.upgrades, v) - Weight(Ups(v), q)
<1> DEFINE n == Len(q)
           b == a.upgrades
           X(i) == {v \in Upgrade : WeightTo(Ups(v), q, i) # 0}
<1>1. n \in Nat /\ \A i \in 1 .. n : q[i] \in Command
  OBVIOUS
<1>2. PICK f : UndoSteps(f, a, u, q) /\ f[n] = UndoCommands(a, u, q)
  BY UndoTrace
<1>3. /\ f \in [0 .. n -> Solvent] /\ f[0] = a
      /\ \A i \in 1 .. n : f[i] = UndoCommand(f[i - 1], u, q[i])
  BY <1>2 DEF UndoSteps
<1> DEFINE Good(i) == Remains(b, f[i].upgrades, X(i))
           T == {i \in Nat : i <= n => Good(i)}
<1>4. ASSUME NEW v \in Upgrade
      PROVE  /\ Weight(Ups(v), q) = WeightTo(Ups(v), q, n) /\ WeightTo(Ups(v), q, 0) = 0
             /\ \A k \in 0 .. n : WeightTo(Ups(v), q, k) \in Nat
             /\ \A k \in 1 .. n : WeightTo(Ups(v), q, k)
                                    = Ups(v)[q[k]] + WeightTo(Ups(v), q, k - 1)
             /\ \A k \in 0 .. n : WeightTo(Ups(v), q, k) <= InHand(b, v)
             /\ InHand(b, v) \in {0, 1}
  <2> DEFINE h == Ups(v)
             w == Weight(h, q)
  <2>1. InHand(b, v) \in {0, 1} /\ w <= InHand(b, v)
    BY DEF InHand
  <2>2. h \in [Command -> Int] /\ \A c \in Command : h[c] >= 0
    BY UpsType
  <2>3. w \in Nat /\ \A k \in 0 .. n : WeightTo(h, q, k) <= w
    BY UpsWeight
  <2> HIDE DEF h
  <2>4. /\ w = WeightTo(h, q, n) /\ WeightTo(h, q, 0) = 0
        /\ \A k \in 0 .. n : WeightTo(h, q, k) \in Int
        /\ \A k \in 1 .. n : WeightTo(h, q, k) = h[q[k]] + WeightTo(h, q, k - 1)
    BY <2>2, WeightSteps
  <2> HIDE DEF w, n
  <2>5. \A k \in 0 .. n : WeightTo(h, q, k) >= 0
    <3>1. \A k \in 1 .. Len(q) : h[q[k]] >= 0
      BY <2>2
    <3> QED
      BY <2>2, <3>1, WeightNotNegative DEF n
  <2> HIDE DEF b
  <2>6. \A k \in 0 .. n : WeightTo(h, q, k) \in Nat /\ WeightTo(h, q, k) <= InHand(b, v)
    BY <2>1, <2>3, <2>4, <2>5
  <2> QED
    BY <2>1, <2>4, <2>6 DEF h, w
<1> HIDE DEF n
<1>5. 0 \in T
  <2>1. X(0) = {}
    BY <1>4
  <2>2. b \in Managers
    BY SolventFields
  <2>3. Remains(b, b, X(0))
    <3> HIDE DEF X
    <3> QED
      BY <2>1, <2>2, AllRemain
  <2> HIDE DEF X
  <2> QED
    BY <1>3, <2>3
<1>6. ASSUME NEW i \in Nat, i \in T PROVE i + 1 \in T
  <2> SUFFICES ASSUME i + 1 <= n PROVE Good(i + 1)
    OBVIOUS
  <2>1. i + 1 \in 1 .. n /\ (i + 1) - 1 = i /\ i \in 0 .. n /\ i + 1 \in 0 .. n
    BY <1>1
  <2> DEFINE c == q[i + 1]
             m == f[i].upgrades
             k == f[i + 1].upgrades
  <2>2. f[i + 1] = UndoCommand(f[i], u, c) /\ f[i] \in Solvent /\ c \in Command
    BY <1>1, <1>3, <2>1
  <2>3. Remains(b, m, X(i))
    BY <1>6, <2>1
  <2>4. k = IF c.class = "upgrade" THEN Manager!CancelUpgrade(m, c.what) ELSE m
    BY <2>2, CommandUndone
  <2> HIDE DEF c
  <2>5. ASSUME NEW v \in Upgrade
        PROVE  /\ WeightTo(Ups(v), q, i + 1)
                    = (IF c.class = "upgrade" /\ c.what = v THEN 1 ELSE 0)
                      + WeightTo(Ups(v), q, i)
               /\ WeightTo(Ups(v), q, i) \in Nat
               /\ WeightTo(Ups(v), q, i + 1) <= InHand(b, v)
               /\ InHand(b, v) \in {0, 1}
    <3>1. Ups(v)[c] = IF c.class = "upgrade" /\ c.what = v THEN 1 ELSE 0
      BY <2>2, UpsType
    <3>2. WeightTo(Ups(v), q, i + 1) = Ups(v)[c] + WeightTo(Ups(v), q, i)
      BY <1>4, <2>1 DEF c
    <3> QED
      BY <1>4, <2>1, <3>1, <3>2
  <2> HIDE DEF T, m, k, b
  <2>6. CASE c.class # "upgrade"
    <3>1. X(i + 1) = X(i)
      BY <2>5, <2>6
    <3> HIDE DEF X
    <3> QED
      BY <2>3, <2>4, <2>6, <3>1 DEF k
  <2>7. CASE c.class = "upgrade"
    <3> DEFINE w == c.what
    <3>1. w \in Upgrade
      BY <2>2, <2>7, CommandFields
    <3>2. \A v \in Upgrade : WeightTo(Ups(v), q, i + 1) = (IF v = w THEN 1 ELSE 0)
                                                           + WeightTo(Ups(v), q, i)
      BY <2>5, <2>7
    <3> HIDE DEF w
    <3>3. X(i + 1) = X(i) \cup {w}
      BY <2>5, <3>1, <3>2
    <3>4. WeightTo(Ups(w), q, i) = 0 /\ InHand(b, w) = 1
      BY <2>5, <3>1, <3>2
    <3>5. w \in Placed(b)
      <4>1. StateOf(b, w) = "upgrading" /\ b \in Managers
        BY <3>4, SolventFields DEF InHand, b
      <4> QED
        BY <3>1, <4>1, StateIs DEF Placed
    <3>6. w \in Placed(m)
      <4>1. w \notin X(i)
        BY <3>4
      <4> HIDE DEF X
      <4> QED
        BY <2>3, <3>5, <4>1 DEF Remains
    <3>7. k = Manager!CancelUpgrade(m, w)
      BY <2>4, <2>7 DEF w
    <3> HIDE DEF X
    <3>8. Remains(b, k, X(i) \cup {w})
      BY <2>3, <3>6, <3>7, OneLessRemains
    <3> QED
      BY <3>3, <3>8 DEF k
  <2> QED
    BY <2>6, <2>7
<1> HIDE DEF T
<1>7. Nat \subseteq T
  BY <1>5, <1>6, Induction
<1> HIDE DEF X
<1>0. Good(n)
  BY <1>1, <1>7 DEF T
<1> DEFINE m == f[n].upgrades
<1>8. Remains(b, m, X(n))
  BY <1>0
<1>9. b \in Managers /\ Finds(m) /\ Sound(b)
  BY <1>2, SolventFields
<1> HIDE DEF b, m, X
<1>10. /\ Sound(m)
       /\ \A v \in Upgrade : StateOf(m, v) = IF v \in X(n) THEN "none" ELSE StateOf(b, v)
  BY <1>8, <1>9, RemainsFound
<1>11. ASSUME NEW v \in Upgrade
       PROVE  /\ v \in X(n) => StateOf(b, v) = "upgrading"
              /\ InHand(m, v) = InHand(b, v) - Weight(Ups(v), q)
  <2> DEFINE w == Weight(Ups(v), q)
  <2>1. w \in Nat /\ w <= InHand(b, v) /\ InHand(b, v) \in {0, 1} /\ (v \in X(n) <=> w # 0)
    BY <1>1, <1>4 DEF X, b
  <2> HIDE DEF w
  <2>2. CASE v \in X(n)
    <3>1. InHand(b, v) = 1 /\ w = 1
      BY <2>1, <2>2
    <3>2. InHand(m, v) = 0
      BY <1>10, <2>2 DEF InHand
    <3>3. StateOf(b, v) = "upgrading"
      BY <3>1 DEF InHand
    <3> QED
      BY <3>1, <3>2, <3>3 DEF w
  <2>3. CASE v \notin X(n)
    <3>1. w = 0 /\ InHand(m, v) = InHand(b, v)
      BY <1>10, <2>1, <2>3 DEF InHand
    <3> QED
      BY <2>1, <2>3, <3>1 DEF w
  <2> QED
    BY <2>2, <2>3
<1>12. Drops(b, m)
  BY <1>10, <1>11 DEF Drops
<1> QED
  BY <1>2, <1>10, <1>11, <1>12 DEF b, m

LEMMA UpgradesUndone ==
    ASSUME NEW a \in Solvent, NEW u, NEW q \in Seq(Command), Sound(a.upgrades),
           FewUpgrades \/ Finds(UndoCommands(a, u, q).upgrades),
           \A v \in Upgrade : Weight(Ups(v), q) <= InHand(a.upgrades, v)
    PROVE  LET m == UndoCommands(a, u, q).upgrades
           IN  /\ Sound(m) /\ Drops(a.upgrades, m)
               /\ \A v \in Upgrade : InHand(m, v) = InHand(a.upgrades, v) - Weight(Ups(v), q)
<1>1. CASE FewUpgrades
  BY <1>1, UndoneOfTwo
<1>2. CASE Finds(UndoCommands(a, u, q).upgrades)
  BY <1>2, UndoneFound
<1> QED
  BY <1>1, <1>2

\* An upgrade is in hand exactly if one command of one unit says so.
Hand ==
    /\ Sound(upgrades)
    /\ \A v \in Upgrade : Weight(Researching(v), units) = InHand(upgrades, v)

\* What a step may do with the upgrades.
Allows(m, n) ==
    \/ Drops(m, n)
    \/ \E u \in Upgrade : /\ StateOf(m, u) = "none"
                          /\ \A v \in Upgrade : StateOf(n, v) = IF v = u THEN "upgrading"
                                                              ELSE StateOf(m, v)
    \/ \E u \in Upgrade : /\ StateOf(m, u) = "upgrading"
                          /\ \A v \in Upgrade : StateOf(n, v) = IF v = u THEN "upgraded"
                                                              ELSE StateOf(m, v)

LEMMA HandOf ==
    ASSUME Sane, Hand, NEW i \in Id, NEW v \in Upgrade
    PROVE  /\ Weight(Ups(v), units[i].commands) <= InHand(upgrades, v)
           /\ Weight(Ups(v), units[i].commands) \in Nat
           /\ InHand(upgrades, v) \in {0, 1}
           /\ Researching(v)[units[i]] = Weight(Ups(v), units[i].commands)
<1> DEFINE h == Researching(v)
<1>1. h \in [Unit -> Int] /\ \A x \in Unit : h[x] = Weight(Ups(v), x.commands) /\ h[x] >= 0
  BY ResearchingType
<1>2. units \in Seq(Unit) /\ units[i] \in Unit /\ i \in 1 .. Len(units)
  BY UnitOf DEF Id
<1>3. Weight(h, units) = InHand(upgrades, v)
  BY DEF Hand
<1>4. Weight(Ups(v), units[i].commands) \in Nat
  BY <1>2, UnitFields, UpsWeight
<1> HIDE DEF h
<1>5. h[units[i]] <= Weight(h, units)
  BY <1>1, <1>2, WeightNotNegative
<1>6. InHand(upgrades, v) \in {0, 1}
  BY DEF InHand
<1>7. h[units[i]] = Weight(Ups(v), units[i].commands)
  BY <1>1, <1>2
<1> QED
  BY <1>3, <1>4, <1>5, <1>6, <1>7 DEF h

\* A step after which the unit's queue has what the manager has.
Balanced(q, r) ==
    \A v \in Upgrade : InHand(upgrades', v) - InHand(upgrades, v)
                         = Weight(Ups(v), r) - Weight(Ups(v), q)

LEMMA HandReplaced ==
    ASSUME Sane, Hand, NEW i, NEW x, Replaces(i, x), Account' \in Solvent,
           Sound(upgrades'), Balanced(units[i].commands, x.commands)
    PROVE  Hand'
<1>1. /\ i \in Id /\ x \in Unit /\ units[i] \in Unit
      /\ \A h \in [Unit -> Int] : Weight(h, units') = Weight(h, units) - h[units[i]] + h[x]
  BY UnitReplaced DEF Replaces
<1>2. ASSUME NEW v \in Upgrade PROVE Weight(Researching(v), units') = InHand(upgrades', v)
  <2> DEFINE h == Researching(v)
             w == Weight(Ups(v), units[i].commands)
             y == Weight(Ups(v), x.commands)
             b == InHand(upgrades, v)
             c == InHand(upgrades', v)
             t == Weight(h, units')
             s == Weight(h, units)
  <2>1. h \in [Unit -> Int] /\ h[x] = y /\ h[units[i]] = w
    BY <1>1, ResearchingType
  <2>2. w \in Nat /\ b \in {0, 1}
    BY <1>1, HandOf
  <2>3. y \in Nat
    BY <1>1, UnitFields, UpsWeight
  <2>4. t = s - h[units[i]] + h[x]
    BY <1>1, <2>1
  <2>5. s = b
    BY DEF Hand
  <2>6. c - b = y - w
    BY DEF Balanced
  <2>7. c \in {0, 1}
    BY DEF InHand
  <2> SUFFICES t = c
    OBVIOUS
  <2> HIDE DEF h, w, y, b, c, t, s
  <2> QED
    BY <2>1, <2>2, <2>3, <2>4, <2>5, <2>6, <2>7
<1> QED
  BY <1>2 DEF Hand

LEMMA AllowsSame == ASSUME NEW m PROVE Allows(m, m)
  BY DEF Allows, Drops

\* The queue changes, but not the upgrades it has.
LEMMA HandSame ==
    ASSUME Sane, Hand, NEW i, NEW x, Replaces(i, x), Account' \in Solvent, upgrades' = upgrades,
           \A v \in Upgrade : Weight(Ups(v), x.commands) = Weight(Ups(v), units[i].commands)
    PROVE  Hand' /\ Allows(upgrades, upgrades')
<1>1. i \in Id /\ x \in Unit /\ units[i] \in Unit
  BY UnitReplaced DEF Replaces
<1>2. Balanced(units[i].commands, x.commands)
  <2>1. \A v \in Upgrade : Weight(Ups(v), units[i].commands) \in Int /\ InHand(upgrades, v) \in Int
    BY <1>1, HandOf
  <2> QED
    BY <2>1 DEF Balanced
<1>3. Sound(upgrades')
  BY DEF Hand
<1> QED
  BY <1>2, <1>3, HandReplaced, AllowsSame


\* What a change of the state of one upgrade makes of what is in hand.
LEMMA InHandChanges ==
    ASSUME NEW m, NEW n, NEW u \in Upgrade, NEW s \in {"none", "upgraded"},
           StateOf(m, u) = "upgrading",
           \A v \in Upgrade : StateOf(n, v) = IF v = u THEN s ELSE StateOf(m, v)
    PROVE  \A v \in Upgrade : InHand(n, v) = IF v = u THEN InHand(m, v) - 1 ELSE InHand(m, v)
  BY DEF InHand

LEMMA HandCancelLast ==
    ASSUME FewUpgrades \/ LookupFindsType', Sane, Hand, NEW i \in Id, NEW s \in {units[i].skill, "stop"},
           CancelLast(i, s)
    PROVE  Hand' /\ Allows(upgrades, upgrades')
<1> DEFINE u == units[i]
           c == Last(u.commands)
           q == Front(u.commands)
           x == Doing(u, q, s)
<1>1. /\ u.commands # <<>> /\ u.commands \in Seq(Command) /\ c \in Command
      /\ Replaces(i, x) /\ Account' \in Solvent
      /\ upgrades' = IF c.class = "upgrade" THEN Manager!CancelUpgrade(upgrades, c.what)
                     ELSE upgrades
  BY CancelLastStep
<1>2. u \in Unit /\ s \in Skill /\ upgrades \in Managers /\ Sound(upgrades)
  BY UnitOf, UnitFields, AccountFields DEF Skill, Class, Hand
<1> HIDE DEF u
<1>3. ASSUME NEW v \in Upgrade
      PROVE  /\ Weight(Ups(v), u.commands) = Weight(Ups(v), q) + Ups(v)[c]
             /\ Weight(Ups(v), q) \in Nat
             /\ Ups(v)[c] = IF c.class = "upgrade" /\ c.what = v THEN 1 ELSE 0
             /\ Weight(Ups(v), u.commands) <= InHand(upgrades, v) /\ InHand(upgrades, v) \in {0, 1}
  <2>1. q \in Seq(Command) /\ Weight(Ups(v), u.commands) = Weight(Ups(v), q) + Ups(v)[c]
    BY <1>1, UpsType, WeightFront
  <2>2. Weight(Ups(v), q) \in Nat
    BY <2>1, UpsWeight
  <2>3. Weight(Ups(v), u.commands) <= InHand(upgrades, v) /\ InHand(upgrades, v) \in {0, 1}
    BY HandOf DEF u
  <2>4. Ups(v)[c] = IF c.class = "upgrade" /\ c.what = v THEN 1 ELSE 0
    BY <1>1, UpsType
  <2> QED
    BY <2>1, <2>2, <2>3, <2>4
<1>4. q \in Seq(Command)
  BY <1>1, FrontFacts
<1> HIDE DEF q, c
<1>5. x.commands = q
  BY <1>2, <1>4, DoingFields
<1> HIDE DEF x
<1>6. CASE c.class # "upgrade"
  <2>1. \A v \in Upgrade : Weight(Ups(v), x.commands) = Weight(Ups(v), u.commands)
    <3>1. ASSUME NEW v \in Upgrade PROVE Weight(Ups(v), q) = Weight(Ups(v), u.commands)
      <4>1. Ups(v)[c] = 0
        BY <1>3, <1>6
      <4> QED
        BY <1>3, <4>1
    <3> QED
      BY <1>5, <3>1
  <2> QED
    BY <1>1, <1>6, <2>1, HandSame DEF u
<1>7. CASE c.class = "upgrade"
  <2> DEFINE w == c.what
  <2>1. w \in Upgrade
    BY <1>1, <1>7, CommandFields
  <2> HIDE DEF w
  <2>2. StateOf(upgrades, w) = "upgrading"
    <3>1. Ups(w)[c] = 1
      BY <1>3, <1>7, <2>1 DEF w
    <3>2. Weight(Ups(w), q) + 1 <= InHand(upgrades, w) /\ Weight(Ups(w), q) \in Nat
      BY <1>3, <2>1, <3>1
    <3>3. InHand(upgrades, w) # 0
      BY <3>2
    <3> QED
      BY <3>3 DEF InHand
  <2>3. upgrades' = Manager!CancelUpgrade(upgrades, w)
    BY <1>1, <1>7 DEF w
  <2>4. /\ Sound(upgrades')
        /\ \A v \in Upgrade : StateOf(upgrades', v) = IF v = w THEN "none"
                                                       ELSE StateOf(upgrades, v)
    <3>1. FewUpgrades \/ Finds(Manager!CancelUpgrade(upgrades, w))
      BY <2>3 DEF LookupFindsType, Finds
    <3> QED
      BY <1>2, <2>1, <2>2, <2>3, <3>1, UpgradeCancelled
  <2>5. Allows(upgrades, upgrades')
    BY <2>1, <2>2, <2>4 DEF Allows, Drops
  <2>6. \A v \in Upgrade : InHand(upgrades', v) = IF v = w THEN InHand(upgrades, v) - 1
                                                  ELSE InHand(upgrades, v)
    BY <2>1, <2>2, <2>4, InHandChanges
  <2>7. Balanced(u.commands, x.commands)
    <3>1. ASSUME NEW v \in Upgrade
          PROVE  InHand(upgrades', v) - InHand(upgrades, v)
                   = Weight(Ups(v), q) - Weight(Ups(v), u.commands)
      <4>1. Ups(v)[c] = IF v = w THEN 1 ELSE 0
        BY <1>3, <1>7 DEF w
      <4>2. InHand(upgrades, v) \in Int
        BY <1>3
      <4> QED
        BY <1>3, <2>6, <4>1, <4>2
    <3> QED
      BY <1>5, <3>1 DEF Balanced
  <2> QED
    BY <1>1, <2>4, <2>5, <2>7, HandReplaced DEF u
<1> QED
  BY <1>6, <1>7

\* The head of the queue is done with; it was no upgrade.
LEMMA HandFinished ==
    ASSUME Sane, Hand, NEW i \in Id, NEW class, Has(i, class), class # "upgrade",
           Replaces(i, Doing(units[i], Tail(units[i].commands), "stop")),
           Account' \in Solvent, upgrades' = upgrades
    PROVE  Hand' /\ Allows(upgrades, upgrades')
<1> DEFINE u == units[i]
           q == Tail(u.commands)
           c == Current(i)
           x == Doing(u, q, "stop")
<1>1. /\ u.commands # <<>> /\ u.commands \in Seq(Command) /\ c = Head(u.commands)
      /\ c \in Command /\ c.class # "upgrade"
  BY HeadOf DEF Current
<1>2. u \in Unit /\ "stop" \in Skill
  BY UnitOf DEF Skill, Class
<1> HIDE DEF u, c
<1>3. q \in Seq(Command)
  BY <1>1
<1>4. ASSUME NEW v \in Upgrade PROVE Weight(Ups(v), q) = Weight(Ups(v), u.commands)
  <2>1. Weight(Ups(v), u.commands) = Ups(v)[c] + Weight(Ups(v), q)
    BY <1>1, UpsType, WeightTail
  <2>2. Ups(v)[c] = 0 /\ Weight(Ups(v), q) \in Nat
    BY <1>1, <1>3, UpsType, UpsWeight
  <2> QED
    BY <2>1, <2>2
<1>5. Replaces(i, x)
  BY DEF u
<1> HIDE DEF q
<1>6. x.commands = q
  BY <1>2, <1>3, DoingFields
<1> HIDE DEF x
<1> QED
  BY <1>4, <1>5, <1>6, HandSame DEF u

LEMMA HandFinishUpgrade ==
    ASSUME Sane, Hand, NEW i \in Id, FinishUpgrade(i)
    PROVE  Hand' /\ Allows(upgrades, upgrades')
<1> DEFINE u == units[i]
           q == Tail(u.commands)
           c == Current(i)
           w == c.what
           x == Doing(u, q, "stop")
<1>1. /\ Has(i, "upgrade") /\ w \in Upgrade
      /\ Replaces(i, x) /\ Account' \in Solvent
      /\ upgrades' = Manager!FinishUpgrade(upgrades, w)
  BY FinishUpgradeStep
<1>2. /\ u.commands # <<>> /\ u.commands \in Seq(Command) /\ c = Head(u.commands)
      /\ c \in Command /\ c.class = "upgrade"
  BY <1>1, HeadOf DEF Current
<1>3. u \in Unit /\ "stop" \in Skill /\ upgrades \in Managers /\ Sound(upgrades)
  BY UnitOf, AccountFields DEF Skill, Class, Hand
<1> HIDE DEF u, c
<1>4. q \in Seq(Command)
  BY <1>2
<1>5. ASSUME NEW v \in Upgrade
      PROVE  /\ Weight(Ups(v), u.commands) = (IF v = w THEN 1 ELSE 0) + Weight(Ups(v), q)
             /\ Weight(Ups(v), q) \in Nat
             /\ Weight(Ups(v), u.commands) <= InHand(upgrades, v) /\ InHand(upgrades, v) \in {0, 1}
  <2>1. Weight(Ups(v), u.commands) = Ups(v)[c] + Weight(Ups(v), q)
    BY <1>2, UpsType, WeightTail
  <2>2. Ups(v)[c] = (IF v = w THEN 1 ELSE 0) /\ Weight(Ups(v), q) \in Nat
    BY <1>2, <1>4, UpsType, UpsWeight
  <2>3. Weight(Ups(v), u.commands) <= InHand(upgrades, v) /\ InHand(upgrades, v) \in {0, 1}
    BY HandOf DEF u
  <2> QED
    BY <2>1, <2>2, <2>3
<1> HIDE DEF q
<1>6. x.commands = q
  BY <1>3, <1>4, DoingFields
<1> HIDE DEF x, w
<1>7. StateOf(upgrades, w) = "upgrading"
  <2>1. 1 + Weight(Ups(w), q) <= InHand(upgrades, w) /\ Weight(Ups(w), q) \in Nat
    BY <1>1, <1>5
  <2>2. InHand(upgrades, w) # 0
    BY <2>1
  <2> QED
    BY <2>2 DEF InHand
<1>8. /\ Sound(upgrades')
      /\ \A v \in Upgrade : StateOf(upgrades', v) = IF v = w THEN "upgraded" ELSE StateOf(upgrades, v)
  BY <1>1, <1>3, <1>7, UpgradeFinished
<1>9. Allows(upgrades, upgrades')
  BY <1>1, <1>7, <1>8 DEF Allows
<1>10. \A v \in Upgrade : InHand(upgrades', v) = IF v = w THEN InHand(upgrades, v) - 1
                                                 ELSE InHand(upgrades, v)
  BY <1>1, <1>7, <1>8, InHandChanges
<1>11. Balanced(u.commands, x.commands)
  <2>1. ASSUME NEW v \in Upgrade
        PROVE  InHand(upgrades', v) - InHand(upgrades, v)
                 = Weight(Ups(v), q) - Weight(Ups(v), u.commands)
    <3>1. InHand(upgrades, v) \in Int
      BY <1>5
    <3> QED
      BY <1>5, <1>10, <3>1
  <2> QED
    BY <1>6, <2>1 DEF Balanced
<1> QED
  BY <1>1, <1>8, <1>9, <1>11, HandReplaced DEF u


LEMMA HandSkill ==
    ASSUME Sane, Hand, NEW i \in Id, NEW x, Replaces(i, x), x.commands = units[i].commands,
           Account' \in Solvent, upgrades' = upgrades
    PROVE  Hand' /\ Allows(upgrades, upgrades')
  BY HandSame

LEMMA HandKill ==
    ASSUME FewUpgrades \/ LookupFindsType', Sane, StoreOK, Hand, NEW i \in Id, Kill(i)
    PROVE  Hand' /\ Allows(upgrades, upgrades')
<1> DEFINE u == units[i]
           a == IF IsBeingBuilt(u) THEN DeApplyStaticConsumption(Account, u.type)
                                   ELSE DeApplyStaticCosts(Account, u.type)
           c == ClearCommands(a, u)
           r == Reverse(u.commands)
           e == <<>>
           x == Doing(u, e, "die")
<1>1. /\ u.commands \in Seq(Command) /\ r \in Seq(Command)
      /\ a \in Solvent /\ a.upgrades = upgrades /\ c = UndoCommands(a, u, r)
      /\ Replaces(i, x) /\ Account' \in Solvent /\ upgrades' = c.upgrades
  BY KillStep
<1>2. u \in Unit /\ "die" \in Skill
  BY UnitOf DEF Skill
<1> HIDE DEF u, a, c
<1>3. e \in Seq(Command)
  OBVIOUS
<1>4. ASSUME NEW v \in Upgrade
      PROVE  /\ Weight(Ups(v), r) = Weight(Ups(v), u.commands)
             /\ Weight(Ups(v), e) = 0
             /\ Weight(Ups(v), u.commands) \in Nat
             /\ Weight(Ups(v), u.commands) <= InHand(upgrades, v) /\ InHand(upgrades, v) \in {0, 1}
  <2>1. Weight(Ups(v), r) = Weight(Ups(v), u.commands)
    BY <1>1, UpsType, WeightReverse
  <2>2. Weight(Ups(v), e) = 0
    BY UpsType, WeightOfEmpty
  <2>3. Weight(Ups(v), u.commands) <= InHand(upgrades, v) /\ InHand(upgrades, v) \in {0, 1}
    BY HandOf DEF u
  <2>4. Weight(Ups(v), u.commands) \in Nat
    BY <1>1, UpsWeight
  <2> QED
    BY <2>1, <2>2, <2>3, <2>4
<1> HIDE DEF r, e
<1>5. x.commands = e
  BY <1>2, <1>3, DoingFields
<1> HIDE DEF x
<1>6. Sound(a.upgrades) /\ \A v \in Upgrade : Weight(Ups(v), r) <= InHand(a.upgrades, v)
  BY <1>1, <1>4 DEF Hand
<1>7. /\ Sound(upgrades') /\ Drops(upgrades, upgrades')
      /\ \A v \in Upgrade : InHand(upgrades', v) = InHand(upgrades, v) - Weight(Ups(v), r)
  <2>1. FewUpgrades \/ Finds(UndoCommands(a, u, r).upgrades)
    BY <1>1 DEF LookupFindsType, Finds
  <2> QED
    BY <1>1, <1>6, <2>1, UpgradesUndone
<1>8. Balanced(u.commands, x.commands)
  <2>1. ASSUME NEW v \in Upgrade
        PROVE  InHand(upgrades', v) - InHand(upgrades, v)
                 = Weight(Ups(v), e) - Weight(Ups(v), u.commands)
    <3>1. InHand(upgrades, v) \in Int
      BY <1>4
    <3> QED
      BY <1>4, <1>7, <3>1
  <2> QED
    BY <1>5, <2>1 DEF Balanced
<1>9. Allows(upgrades, upgrades')
  BY <1>7 DEF Allows
<1> QED
  BY <1>1, <1>7, <1>8, <1>9, HandReplaced DEF u

\* A morph is the last command of its unit.
LEMMA HandFinishMorph ==
    ASSUME Sane, StoreOK, Hand, NEW i \in Id, FinishMorph(i)
    PROVE  Hand' /\ Allows(upgrades, upgrades')
<1> DEFINE u == units[i]
           t == Current(i).what
           e == <<>>
           y == Doing(u, e, "stop")
           x == [y EXCEPT !.type = t]
<1>1. /\ Has(i, "morph") /\ Len(u.commands) = 1
      /\ Replaces(i, x) /\ Account' \in Solvent /\ upgrades' = upgrades
  BY FinishMorphStep
<1>2. u \in Unit /\ "stop" \in Skill
  BY UnitOf DEF Skill, Class
<1>3. /\ u.commands \in Seq(Command)
      /\ u.commands[1] = Current(i) /\ Current(i) \in Command /\ Current(i).class = "morph"
  BY <1>1, HeadOf
<1> HIDE DEF u
<1>4. e \in Seq(Command)
  OBVIOUS
<1>5. ASSUME NEW v \in Upgrade PROVE Weight(Ups(v), e) = Weight(Ups(v), u.commands)
  <2>1. Weight(Ups(v), e) = 0
    BY UpsType, WeightOfEmpty
  <2>2. Ups(v)[Current(i)] = 0
    BY <1>3, UpsType
  <2>3. \A k \in 1 .. Len(u.commands) : Ups(v)[u.commands[k]] = 0
    BY <1>1, <1>3, <2>2
  <2>4. Weight(Ups(v), u.commands) = 0
    BY <1>3, <2>3, UpsType, WeightZero
  <2> QED
    BY <2>1, <2>4
<1> HIDE DEF e
<1>6. y.commands = e /\ y \in Unit
  BY <1>2, <1>4, DoingFields
<1> HIDE DEF y
<1>7. x.commands = e
  BY <1>6 DEF Unit
<1> HIDE DEF x
<1> QED
  BY <1>1, <1>5, <1>7, HandSame DEF u

\* A unit comes that has no commands yet.
LEMMA HandAdded ==
    ASSUME Sane, Hand, NEW i, NEW x, NEW y, Adds(i, x, y), Account' \in Solvent,
           upgrades' = upgrades, y.commands = <<>>,
           \A v \in Upgrade : Weight(Ups(v), x.commands) = Weight(Ups(v), units[i].commands)
    PROVE  Hand' /\ Allows(upgrades, upgrades')
<1>0. i \in Id /\ x \in Unit /\ y \in Unit
  BY DEF Adds
<1>1. /\ i \in Id /\ x \in Unit /\ y \in Unit /\ units[i] \in Unit
      /\ \A h \in [Unit -> Int] :
             Weight(h, units') = Weight(h, units) - h[units[i]] + h[x] + h[y]
  BY <1>0, UnitAdded
<1>2. ASSUME NEW v \in Upgrade PROVE Weight(Researching(v), units') = Weight(Researching(v), units)
  <2> DEFINE h == Researching(v)
             t == Weight(h, units')
             s == Weight(h, units)
  <2>1. h \in [Unit -> Int] /\ h[x] = h[units[i]] /\ h[y] = Weight(Ups(v), y.commands)
    BY <1>1, ResearchingType
  <2>2. h[y] = 0
    BY <2>1, UpsType, WeightOfEmpty
  <2>3. h[units[i]] \in Int /\ s \in Int
    <3>1. units \in Seq(Unit)
      BY DEF Sane
    <3> HIDE DEF h
    <3> QED
      BY <1>1, <2>1, <3>1, WeightSteps
  <2>4. t = s - h[units[i]] + h[x] + h[y]
    BY <1>1, <2>1
  <2> SUFFICES t = s
    OBVIOUS
  <2> HIDE DEF h, t, s
  <2> QED
    BY <2>1, <2>2, <2>3, <2>4
<1> QED
  BY <1>2, AllowsSame DEF Hand

LEMMA NewIsIdle == ASSUME NEW t, NEW s PROVE NewUnit(t, s).commands = <<>>
  BY DEF NewUnit

\* The tail of a queue has the upgrades of the queue if its head is none.
LEMMA UpsOfTail ==
    ASSUME Sane, NEW i \in Id, NEW class, Has(i, class), class # "upgrade", NEW v
    PROVE  /\ Tail(units[i].commands) \in Seq(Command)
           /\ Weight(Ups(v), Tail(units[i].commands)) = Weight(Ups(v), units[i].commands)
<1> DEFINE q == units[i].commands
           c == Current(i)
<1>1. q # <<>> /\ q \in Seq(Command) /\ c = Head(q) /\ c \in Command /\ c.class # "upgrade"
  BY HeadOf DEF Current
<1> HIDE DEF q, c
<1>2. Tail(q) \in Seq(Command) /\ Weight(Ups(v), q) = Ups(v)[c] + Weight(Ups(v), Tail(q))
  BY <1>1, UpsType, WeightTail
<1>3. Ups(v)[c] = 0 /\ Weight(Ups(v), Tail(q)) \in Nat
  BY <1>1, <1>2, UpsType, UpsWeight
<1> QED
  BY <1>2, <1>3 DEF q

LEMMA HandFinishProduction ==
    ASSUME Sane, Hand, NEW i \in Id, FinishProduction(i)
    PROVE  Hand' /\ Allows(upgrades, upgrades')
<1> DEFINE u == units[i]
           q == Tail(u.commands)
           x == Doing(u, q, "stop")
           y == NewUnit(Current(i).what, "stop")
<1>1. /\ Has(i, "produce") /\ Adds(i, x, y) /\ Account' \in Solvent /\ upgrades' = upgrades
  BY FinishProductionStep
<1>2. u \in Unit /\ "stop" \in Skill
  BY UnitOf DEF Skill, Class
<1>3. /\ q \in Seq(Command)
      /\ \A v \in Upgrade : Weight(Ups(v), q) = Weight(Ups(v), u.commands)
  BY <1>1, UpsOfTail
<1>4. y.commands = <<>>
  BY NewIsIdle
<1> HIDE DEF u, q, y
<1>5. x.commands = q
  BY <1>2, <1>3, DoingFields
<1> HIDE DEF x
<1> QED
  BY <1>1, <1>3, <1>4, <1>5, HandAdded DEF u

LEMMA HandBeginBuilding ==
    ASSUME Sane, Hand, NEW i \in Id, BeginBuilding(i)
    PROVE  Hand' /\ Allows(upgrades, upgrades')
<1> DEFINE u == units[i]
           site == Len(units) + 1
           q == u.commands
           b == Begun(q, site)
           x == [u EXCEPT !.skill = "build", !.target = site, !.commands = b]
           y == NewUnit(Current(i).what, "beBuilt")
<1>1. Has(i, "build") /\ Adds(i, x, y) /\ UNCHANGED <<gold, food, store, upgrades>>
  BY BeginBuildingStep
<1>2. Account' \in Solvent
  BY <1>1, AccountSame
<1>3. /\ q # <<>> /\ q \in Seq(Command)
      /\ q[1] = Current(i) /\ Current(i) \in Command /\ Current(i).class = "build"
  BY <1>1, HeadOf
<1>4. u \in Unit /\ site \in Nat
  BY UnitOf
<1>5. y.commands = <<>>
  BY NewIsIdle
<1>6. x.commands = b
  BY <1>4 DEF Unit
<1> HIDE DEF u, q, x, y, site
<1>7. /\ b \in Seq(Command) /\ b[1] \in Command /\ b[1].class = q[1].class
      /\ \A h \in [Command -> Int] : Weight(h, b) = Weight(h, q) - h[q[1]] + h[b[1]]
  BY <1>3, <1>4, BegunFacts
<1> HIDE DEF b
<1>8. ASSUME NEW v \in Upgrade PROVE Weight(Ups(v), b) = Weight(Ups(v), q)
  <2>1. Ups(v)[q[1]] = 0 /\ Ups(v)[b[1]] = 0
    BY <1>3, <1>7, UpsType
  <2>2. Weight(Ups(v), b) = Weight(Ups(v), q) - Ups(v)[q[1]] + Ups(v)[b[1]]
    BY <1>7, UpsType
  <2>3. Weight(Ups(v), q) \in Nat
    BY <1>3, UpsWeight
  <2> QED
    BY <2>1, <2>2, <2>3
<1>9. \A v \in Upgrade : Weight(Ups(v), x.commands) = Weight(Ups(v), units[i].commands)
  BY <1>6, <1>8 DEF q, u
<1> QED
  BY <1>1, <1>2, <1>5, <1>9, HandAdded

LEMMA HandFinishBuilding ==
    ASSUME Sane, Hand, NEW i \in Id, FinishBuilding(i)
    PROVE  Hand' /\ Allows(upgrades, upgrades')
<1> DEFINE u == units[i]
           b == AtTarget(i)
           q == Tail(u.commands)
           e == <<>>
           x == Doing(u, q, "stop")
           y == Doing(units[b], e, "stop")
<1>1. /\ Has(i, "build") /\ b \in Id /\ units[b].commands = e
      /\ ReplacesTwo(i, b, x, y)
      /\ Account' \in Solvent /\ upgrades' = upgrades
  BY FinishBuildingStep
<1>2. u \in Unit /\ units[b] \in Unit /\ "stop" \in Skill
  BY <1>1, UnitOf DEF Skill, Class
<1>3. /\ q \in Seq(Command) /\ e \in Seq(Command)
      /\ \A v \in Upgrade : Weight(Ups(v), q) = Weight(Ups(v), u.commands)
  BY <1>1, UpsOfTail
<1> HIDE DEF u, q, b, e
<1>4. x.commands = q /\ y.commands = e /\ x \in Unit /\ y \in Unit
  BY <1>2, <1>3, DoingFields
<1> HIDE DEF x, y
<1>5. \A h \in [Unit -> Int] :
          Weight(h, units') = Weight(h, units) - h[units[i]] + h[x] - h[units[b]] + h[y]
  BY <1>1, TwoReplaced
<1>6. ASSUME NEW v \in Upgrade PROVE Weight(Researching(v), units') = Weight(Researching(v), units)
  <2> DEFINE h == Researching(v)
             t == Weight(h, units')
             s == Weight(h, units)
  <2>1. h \in [Unit -> Int] /\ h[x] = h[units[i]] /\ h[y] = h[units[b]]
    BY <1>1, <1>2, <1>3, <1>4, ResearchingType DEF u
  <2> HIDE DEF h
  <2>2. h[units[i]] \in Int /\ h[units[b]] \in Int
    BY <1>2, <2>1 DEF u
  <2>3. s \in Int
    BY <2>1, WeightSteps DEF Sane
  <2>4. t = s - h[units[i]] + h[x] - h[units[b]] + h[y]
    BY <1>5, <2>1
  <2>5. t = s
    <3> HIDE DEF t, s
    <3> QED
      BY <2>1, <2>2, <2>3, <2>4
  <2> QED
    BY <2>5 DEF h
<1> QED
  BY <1>1, <1>6, AllowsSame DEF Hand


LEMMA HandGiveCommand ==
    ASSUME FewUpgrades \/ LookupFindsType', Sane, Hand, NEW i \in Id, NEW o \in Orders[units[i].type],
           NEW p \in BOOLEAN, GiveCommand(i, o, p)
    PROVE  Hand' /\ Allows(upgrades, upgrades')
<1> DEFINE u    == units[i]
           gone == Replaced(u, o, p)
           kept == Kept(u, o, p)
           a    == UndoCommands(Account, u, gone)
           us   == [units EXCEPT ![i].commands = kept]
           new  == [class |-> o.class, what |-> o.what, site |-> None]
           ok   == CheckCommand(a, us, i, o)
           q    == IF o.class # "stop" /\ ok THEN Append(kept, new) ELSE kept
           x    == Doing(u, q, u.skill)
<1>1. /\ gone \in Seq(Command) /\ kept \in Seq(Command)
      /\ \A h \in [Command -> Int] : Weight(h, gone) + Weight(h, kept) = Weight(h, u.commands)
      /\ o.class = "upgrade" => \A k \in 1 .. Len(gone) : gone[k].class # "upgrade"
      /\ a \in Solvent
      /\ Replaces(i, x)
      /\ Account' \in Solvent
      /\ upgrades' = IF o.class = "upgrade" /\ ok THEN Manager!StartUpgrade(a.upgrades, o.what)
                                                  ELSE a.upgrades
  BY GiveCommandStep
<1>2. u \in Unit /\ u.skill \in Skill /\ Account \in Solvent /\ Account.upgrades = upgrades
  BY UnitOf, UnitFields, AccountFields
<1>3. o.class # "stop" => new \in Command
  BY <1>2, UnitFields, Classes
<1>4. o.class = "upgrade" /\ ok => ~Manager!IsUpgradingOrUpgraded(a.upgrades, o.what)
  BY DEF CheckCommand
<1>5. new.class = o.class /\ new.what = o.what
  OBVIOUS
<1> HIDE DEF u, gone, kept, us, new, ok
<1>6. ASSUME NEW v \in Upgrade
      PROVE  /\ Weight(Ups(v), gone) + Weight(Ups(v), kept) = Weight(Ups(v), u.commands)
             /\ Weight(Ups(v), gone) \in Nat /\ Weight(Ups(v), kept) \in Nat
             /\ Weight(Ups(v), u.commands) <= InHand(upgrades, v) /\ InHand(upgrades, v) \in {0, 1}
  BY <1>1, UpsType, UpsWeight, HandOf DEF u
<1>7. /\ Sound(a.upgrades) /\ Drops(upgrades, a.upgrades)
      /\ \A v \in Upgrade : InHand(a.upgrades, v) = InHand(upgrades, v) - Weight(Ups(v), gone)
  <2>1. /\ Sound(Account.upgrades)
        /\ \A v \in Upgrade : Weight(Ups(v), gone) <= InHand(Account.upgrades, v)
    BY <1>2, <1>6 DEF Hand
  <2>2. ASSUME LookupFindsType' PROVE Finds(a.upgrades)
    <3>1. Finds(upgrades')
      BY <2>2 DEF LookupFindsType, Finds
    <3>2. CASE ~(o.class = "upgrade" /\ ok)
      BY <1>1, <3>1, <3>2
    <3>3. CASE o.class = "upgrade" /\ ok
      <4> DEFINE w == o.what
                 m == a.upgrades
      <4>1. w \in Upgrade
        BY <1>3, <1>5, <3>3, CommandFields
      <4>2. m \in Managers /\ upgrades' = Manager!StartUpgrade(m, w)
        BY <1>1, <3>3, SolventFields
      <4>3. m.index[w] = 0
        BY <1>4, <3>3 DEF Manager!IsUpgradingOrUpgraded
      <4> HIDE DEF m, w
      <4>4. Finds(m)
        BY <3>1, <4>1, <4>2, <4>3, FoundBeforeStart
      <4> QED
        BY <4>4 DEF m
    <3> QED
      BY <3>2, <3>3
  <2> QED
    BY <1>1, <1>2, <2>1, <2>2, UpgradesUndone
<1> HIDE DEF a
<1>8. q \in Seq(Command)
  BY <1>1, <1>3
<1>9. ASSUME NEW v \in Upgrade
      PROVE  Weight(Ups(v), q)
               = Weight(Ups(v), kept)
                 + (IF o.class = "upgrade" /\ ok /\ o.what = v THEN 1 ELSE 0)
  <2>1. CASE o.class # "stop" /\ ok
    <3>1. new \in Command /\ q = Append(kept, new)
      BY <1>3, <2>1
    <3> HIDE DEF q
    <3>2. Weight(Ups(v), q) = Weight(Ups(v), kept) + Ups(v)[new]
      <4>1. Ups(v) \in [Command -> Int] /\ kept \in Seq(Command)
        BY <1>1, UpsType
      <4> QED
        BY <3>1, <4>1, WeightAppend
    <3>3. Ups(v)[new] = IF o.class = "upgrade" /\ o.what = v THEN 1 ELSE 0
      BY <1>5, <3>1, UpsType
    <3> QED
      BY <2>1, <3>2, <3>3
  <2>2. CASE ~(o.class # "stop" /\ ok)
    <3>1. q = kept /\ ~(o.class = "upgrade" /\ ok /\ o.what = v)
      BY <2>2
    <3> HIDE DEF q
    <3> QED
      BY <1>6, <3>1
  <2> QED
    BY <2>1, <2>2
<1> HIDE DEF q
<1>10. x.commands = q
  BY <1>2, <1>8, DoingFields
<1> HIDE DEF x
<1>11. CASE ~(o.class = "upgrade" /\ ok)
  <2>1. upgrades' = a.upgrades
    BY <1>1, <1>11
  <2>2. Balanced(u.commands, x.commands)
    <3>1. ASSUME NEW v \in Upgrade
          PROVE  InHand(upgrades', v) - InHand(upgrades, v)
                   = Weight(Ups(v), q) - Weight(Ups(v), u.commands)
      <4>1. Weight(Ups(v), q) = Weight(Ups(v), kept)
        BY <1>6, <1>9, <1>11
      <4>2. InHand(upgrades, v) \in Int
        BY <1>6
      <4> QED
        BY <1>6, <1>7, <2>1, <4>1, <4>2
    <3> QED
      BY <1>10, <3>1 DEF Balanced
  <2>3. Allows(upgrades, upgrades')
    BY <1>7, <2>1 DEF Allows
  <2>4. Sound(upgrades')
    BY <1>7, <2>1
  <2> QED
    BY <1>1, <2>2, <2>3, <2>4, HandReplaced DEF u
<1>12. CASE o.class = "upgrade" /\ ok
  <2> DEFINE w == o.what
             m == a.upgrades
  <2>1. w \in Upgrade
    BY <1>3, <1>5, <1>12, CommandFields
  <2>2. m \in Managers /\ Sound(m) /\ upgrades' = Manager!StartUpgrade(m, w)
    BY <1>1, <1>7, <1>12, SolventFields
  <2>3. m.index[w] = 0
    BY <1>4, <1>12 DEF Manager!IsUpgradingOrUpgraded
  <2> HIDE DEF w, m
  <2>4. /\ Sound(upgrades')
        /\ \A v \in Upgrade : StateOf(upgrades', v) = IF v = w THEN "upgrading" ELSE StateOf(m, v)
    BY <2>1, <2>2, <2>3, UpgradeStarted
  <2>5. StateOf(m, w) = "none"
    BY <2>1, <2>2, <2>3, StateIs
  <2>6. \A v \in Upgrade : Weight(Ups(v), gone) = 0
    <3>1. ASSUME NEW v \in Upgrade PROVE \A k \in 1 .. Len(gone) : Ups(v)[gone[k]] = 0
      <4>1. \A k \in 1 .. Len(gone) : gone[k] \in Command /\ gone[k].class # "upgrade"
        BY <1>1, <1>12
      <4> QED
        BY <4>1, UpsType
    <3> QED
      BY <1>1, <3>1, UpsType, WeightZero
  <2>7. \A v \in Upgrade : InHand(m, v) = InHand(upgrades, v)
    BY <1>6, <1>7, <2>6 DEF m
  <2>8. \A v \in Upgrade : StateOf(m, v) = StateOf(upgrades, v)
    <3>1. ASSUME NEW v \in Upgrade, StateOf(m, v) # StateOf(upgrades, v) PROVE FALSE
      <4>1. StateOf(upgrades, v) = "upgrading" /\ StateOf(m, v) = "none"
        BY <1>7, <3>1 DEF Drops, m
      <4> QED
        BY <2>7, <4>1 DEF InHand
    <3> QED
      BY <3>1
  <2>9. Allows(upgrades, upgrades')
    BY <2>1, <2>4, <2>5, <2>8 DEF Allows
  <2>10. \A v \in Upgrade : InHand(upgrades', v) = InHand(upgrades, v)
                                                   + (IF v = w THEN 1 ELSE 0)
    <3>1. ASSUME NEW v \in Upgrade
          PROVE  InHand(upgrades', v) = InHand(upgrades, v) + (IF v = w THEN 1 ELSE 0)
      <4>1. CASE v = w
        BY <2>1, <2>4, <2>5, <2>8, <4>1 DEF InHand
      <4>2. CASE v # w
        BY <2>4, <2>8, <4>2 DEF InHand
      <4> QED
        BY <4>1, <4>2
    <3> QED
      BY <3>1
  <2>11. Balanced(u.commands, x.commands)
    <3>1. ASSUME NEW v \in Upgrade
          PROVE  InHand(upgrades', v) - InHand(upgrades, v)
                   = Weight(Ups(v), q) - Weight(Ups(v), u.commands)
      <4>1. Weight(Ups(v), q) = Weight(Ups(v), kept) + (IF v = w THEN 1 ELSE 0)
        BY <1>9, <1>12 DEF w
      <4>2. Weight(Ups(v), u.commands) = Weight(Ups(v), kept) /\ Weight(Ups(v), kept) \in Nat
        BY <1>6, <2>6
      <4>3. InHand(upgrades, v) \in Int
        BY <1>6
      <4>4. InHand(upgrades', v) = InHand(upgrades, v) + (IF v = w THEN 1 ELSE 0)
        BY <2>10
      <4> QED
        BY <4>1, <4>2, <4>3, <4>4
    <3> QED
      BY <1>10, <3>1 DEF Balanced
  <2> QED
    BY <1>1, <2>4, <2>9, <2>11, HandReplaced DEF u
<1> QED
  BY <1>11, <1>12


LEMMA HandUpdate ==
    ASSUME FewUpgrades \/ LookupFindsType', Sane, StoreOK, Hand, NEW i \in Id, Update(i), Account' \in Solvent
    PROVE  Hand' /\ Allows(upgrades, upgrades')
<1>1. CASE BeginTask(i)
  <2>1. PICK class \in {"produce", "upgrade", "morph"} :
            Has(i, class) /\ units' = [units EXCEPT ![i].skill = class]
    BY <1>1 DEF BeginTask
  <2>2. class \in Skill /\ class \notin {"beBuilt", "die", "gone"} /\ upgrades' = upgrades
    BY <1>1 DEF BeginTask, Skill, Class
  <2> DEFINE x == Doing(units[i], units[i].commands, class)
  <2>3. Replaces(i, x)
    BY <2>1, <2>2, SkillStep
  <2>4. x.commands = units[i].commands
    BY <2>2, UnitOf, UnitFields, DoingFields
  <2> HIDE DEF x
  <2> QED
    BY <2>2, <2>3, <2>4, HandSkill
<1>2. CASE NoRoomToMorph(i)
  BY <1>2, HandCancelLast DEF NoRoomToMorph
<1>3. CASE FinishProduction(i)
  BY <1>3, HandFinishProduction
<1>4. CASE NoPlaceForProduct(i)
  <2>1. /\ Has(i, "produce") /\ units' = [units EXCEPT ![i] = Finished(@)]
        /\ upgrades' = upgrades
    BY <1>4 DEF NoPlaceForProduct
  <2>2. Replaces(i, Doing(units[i], Tail(units[i].commands), "stop"))
    BY <2>1, FinishedStep
  <2> QED
    BY <2>1, <2>2, HandFinished
<1>5. CASE FinishUpgrade(i)
  BY <1>5, HandFinishUpgrade
<1>6. CASE FinishMorph(i)
  BY <1>6, HandFinishMorph
<1>7. CASE BeginBuilding(i)
  BY <1>7, HandBeginBuilding
<1>8. CASE NoPlaceToBuild(i)
  <2>1. PICK s \in {"stop", units[i].skill} : CancelLast(i, s)
    BY <1>8 DEF NoPlaceToBuild
  <2> QED
    BY <2>1, HandCancelLast
<1>9. CASE Distracted(i)
  <2>1. /\ Has(i, "build") /\ units' = [units EXCEPT ![i].skill = "stop"]
        /\ upgrades' = upgrades
    BY <1>9 DEF Distracted
  <2>2. "stop" \in Skill
    BY DEF Skill, Class
  <2> DEFINE x == Doing(units[i], units[i].commands, "stop")
  <2>3. Replaces(i, x)
    BY <2>1, <2>2, SkillStep
  <2>4. x.commands = units[i].commands
    BY <2>2, UnitOf, UnitFields, DoingFields
  <2> HIDE DEF x
  <2> QED
    BY <2>1, <2>3, <2>4, HandSkill
<1>10. CASE NothingToBuild(i)
  <2>1. /\ Has(i, "build") /\ units' = [units EXCEPT ![i] = Finished(@)]
        /\ upgrades' = upgrades
    BY <1>10 DEF NothingToBuild
  <2>2. Replaces(i, Doing(units[i], Tail(units[i].commands), "stop"))
    BY <2>1, FinishedStep
  <2> QED
    BY <2>1, <2>2, HandFinished
<1>11. CASE FinishBuilding(i)
  BY <1>11, HandFinishBuilding
<1>12. CASE Kill(i)
  BY <1>12, HandKill
<1> QED
  BY <1>1, <1>2, <1>3, <1>4, <1>5, <1>6, <1>7, <1>8, <1>9, <1>10, <1>11, <1>12 DEF Update

LEMMA HandStep ==
    ASSUME FewUpgrades \/ LookupFindsType', Sane, StoreOK, Hand, [Next]_vars
    PROVE  Hand' /\ Allows(upgrades, upgrades')
<1>0. Account' \in Solvent
  BY BooksStep DEF Sane
<1>1. ASSUME NEW i \in Id, Player(i) PROVE Hand' /\ Allows(upgrades, upgrades')
  <2>1. ASSUME NEW o \in Orders[units[i].type], NEW p \in BOOLEAN, GiveCommand(i, o, p)
        PROVE  Hand' /\ Allows(upgrades, upgrades')
    BY <2>1, HandGiveCommand
  <2>2. CASE CancelCommand(i)
    BY <2>2, HandCancelLast DEF CancelCommand
  <2> QED
    BY <1>1, <2>1, <2>2 DEF Player
<1>2. ASSUME NEW i \in Id, Update(i) PROVE Hand' /\ Allows(upgrades, upgrades')
  BY <1>0, <1>2, HandUpdate
<1>3. ASSUME NEW i \in Id, NEW x, Replaces(i, x), x.commands = units[i].commands,
             upgrades' = upgrades
      PROVE  Hand' /\ Allows(upgrades, upgrades')
  BY <1>0, <1>3, HandSkill
<1>4. ASSUME NEW i \in Id, NEW s \in Skill PROVE Doing(units[i], units[i].commands, s).commands
                                                   = units[i].commands
  BY UnitOf, UnitFields, DoingFields
<1>5. ASSUME NEW i \in Id, Repair(i) PROVE Hand' /\ Allows(upgrades, upgrades')
  <2>1. Replaces(i, Doing(units[i], units[i].commands, "stop")) /\ upgrades' = upgrades
    BY <1>5, RepairStep
  <2>2. "stop" \in Skill
    BY DEF Skill, Class
  <2> QED
    BY <1>3, <1>4, <2>1, <2>2
<1>6. ASSUME NEW i \in Id, DecHp(i) PROVE Hand' /\ Allows(upgrades, upgrades')
  <2>1. Replaces(i, [units[i] EXCEPT !.alive = FALSE]) /\ upgrades' = upgrades
    BY <1>6, DecHpStep
  <2>2. [units[i] EXCEPT !.alive = FALSE].commands = units[i].commands
    BY UnitOf DEF Unit
  <2> QED
    BY <1>3, <2>1, <2>2
<1>7. ASSUME NEW i \in Id, Undertake(i) PROVE Hand' /\ Allows(upgrades, upgrades')
  <2>1. Replaces(i, Doing(units[i], units[i].commands, "gone")) /\ upgrades' = upgrades
    BY <1>7, UndertakeStep
  <2>2. "gone" \in Skill
    BY DEF Skill
  <2> QED
    BY <1>3, <1>4, <2>1, <2>2
<1>8. CASE UNCHANGED <<units, upgrades>>
  BY <1>8, AllowsSame DEF Hand
<1>9. CASE Harvest
  BY <1>8, <1>9, HarvestStep
<1> QED
  BY <1>1, <1>2, <1>5, <1>6, <1>7, <1>8, <1>9 DEF Next, vars

LEMMA NothingKnown ==
    ASSUME Init
    PROVE  /\ Sound(upgrades)
           /\ \A v \in Upgrade : StateOf(upgrades, v) = "none"
<1>1. /\ upgrades.list = <<>> /\ Len(upgrades.list) = 0
      /\ \A v \in Upgrade : upgrades.index[v] = 0
  BY DEF Init, Manager!NoUpgrades
<1>2. Sound(upgrades)
  BY <1>1 DEF Sound, Finds
<1> QED
  BY <1>1, <1>2 DEF StateOf, Manager!IsUpgraded, Manager!IsUpgrading

LEMMA HandInit == Init => Hand
<1> SUFFICES ASSUME Init PROVE Hand
  OBVIOUS
<1>1. Sound(upgrades) /\ \A v \in Upgrade : InHand(upgrades, v) = 0
  BY NothingKnown DEF InHand
<1>2. units \in Seq(Unit)
  BY BooksInit DEF Sane
<1>3. \A k \in 1 .. Len(units) : units[k].commands = <<>> /\ units[k] \in Unit
  <2>1. \A t, s : NewUnit(t, s).commands = <<>>
    BY DEF NewUnit
  <2>2. \A k \in 1 .. Len(Starting) : units[k].commands = <<>>
    BY <2>1 DEF Init
  <2>3. Len(units) = Len(Starting)
    BY StartingAssumption DEF Init
  <2> QED
    BY <1>2, <2>2, <2>3
<1>4. ASSUME NEW v \in Upgrade PROVE Weight(Researching(v), units) = 0
  <2>1. \A k \in 1 .. Len(units) : Researching(v)[units[k]] = Weight(Ups(v), <<>>)
    BY <1>3, ResearchingType
  <2>2. Weight(Ups(v), <<>>) = 0
    BY UpsType, WeightOfEmpty
  <2>3. Researching(v) \in [Unit -> Int]
    BY ResearchingType
  <2> DEFINE h == Researching(v)
  <2> HIDE DEF h
  <2>4. Weight(h, units) = 0
    BY <1>2, <2>1, <2>2, <2>3, WeightZero DEF h
  <2> QED
    BY <2>4 DEF h
<1> QED
  BY <1>1, <1>4 DEF Hand

\* The orders that are counted are the orders that weigh.
LEMMA HandIsUpgradeInHand ==
    ASSUME Sane, Hand
    PROVE  UpgradeInHand
<1> SUFFICES ASSUME NEW v \in Upgrade
             PROVE  Manager!IsUpgrading(upgrades, v) <=>
                    1 = SumFunction([i \in Id |->
                           Cardinality({k \in DOMAIN units[i].commands :
                               /\ units[i].commands[k].class = "upgrade"
                               /\ units[i].commands[k].what = v})])
  BY DEF UpgradeInHand
<1>1. units \in Seq(Unit) /\ DOMAIN units = Id /\ upgrades \in Managers
  BY AccountFields DEF Sane, Id
<1>2. ASSUME NEW i \in Id
      PROVE  Cardinality({k \in DOMAIN units[i].commands :
                 /\ units[i].commands[k].class = "upgrade"
                 /\ units[i].commands[k].what = v}) = Researching(v)[units[i]]
  <2> DEFINE q == units[i].commands
             h == Ups(v)
             K == {k \in DOMAIN q : q[k].class = "upgrade" /\ q[k].what = v}
  <2>1. units[i] \in Unit /\ q \in Seq(Command)
    BY UnitOf, UnitFields
  <2>2. Researching(v)[units[i]] = Weight(h, q)
    BY <2>1, ResearchingType
  <2> HIDE DEF q
  <2>3. K \in SUBSET (1 .. Len(q)) /\ h \in [Command -> Int]
    BY <2>1, UpsType
  <2>4. ASSUME NEW k \in 1 .. Len(q) PROVE h[q[k]] = IF k \in K THEN 1 ELSE 0
    <3>1. q[k] \in Command /\ k \in DOMAIN q
      BY <2>1
    <3> QED
      BY <3>1, UpsType
  <2>5. Cardinality(K) = Weight(h, q)
    <3> HIDE DEF h, K
    <3> QED
      BY <2>1, <2>3, <2>4, CountIsWeight
  <2> QED
    BY <2>2, <2>5 DEF q
<1>3. SumFunction([i \in Id |->
          Cardinality({k \in DOMAIN units[i].commands :
              /\ units[i].commands[k].class = "upgrade"
              /\ units[i].commands[k].what = v})]) = Weight(Researching(v), units)
  <2>1. [i \in Id |-> Cardinality({k \in DOMAIN units[i].commands :
                          /\ units[i].commands[k].class = "upgrade"
                          /\ units[i].commands[k].what = v})]
        = [i \in DOMAIN units |-> Researching(v)[units[i]]]
    BY <1>1, <1>2
  <2> QED
    BY <2>1 DEF Weight
<1>4. Weight(Researching(v), units) = IF StateOf(upgrades, v) = "upgrading" THEN 1 ELSE 0
  BY DEF Hand, InHand
<1>5. Manager!IsUpgrading(upgrades, v) <=> StateOf(upgrades, v) = "upgrading"
  BY <1>1, StateIs
<1> QED
  BY <1>3, <1>4, <1>5

LEMMA KeepsIsABookStep ==
    ASSUME Allows(upgrades, upgrades')
    PROVE  [Book!Next]_Known
<1>1. /\ Known \in [Upgrade -> {"none", "upgrading", "upgraded"}]
      /\ \A v \in Upgrade : Known[v] = StateOf(upgrades, v) /\ Known'[v] = StateOf(upgrades', v)
      /\ Known' \in [Upgrade -> {"none", "upgrading", "upgraded"}]
  BY DEF Known, StateOf
<1>2. CASE Drops(upgrades, upgrades')
  <2> DEFINE S == {v \in Upgrade : Known[v] = "upgrading" /\ Known'[v] = "none"}
  <2>1. Known' = [v \in Upgrade |-> IF v \in S THEN "none" ELSE Known[v]]
    BY <1>1, <1>2 DEF Drops
  <2>2. Book!Cancel(S)
    BY <2>1 DEF Book!Cancel
  <2> QED
    BY <2>2 DEF Book!Next
<1>3. ASSUME NEW u \in Upgrade, StateOf(upgrades, u) = "none",
             \A v \in Upgrade : StateOf(upgrades', v) = IF v = u THEN "upgrading"
                                                        ELSE StateOf(upgrades, v)
      PROVE  Book!Start(u)
  <2>1. Known' = [Known EXCEPT ![u] = "upgrading"]
    BY <1>1, <1>3
  <2> QED
    BY <1>1, <1>3, <2>1 DEF Book!Start
<1>4. ASSUME NEW u \in Upgrade, StateOf(upgrades, u) = "upgrading",
             \A v \in Upgrade : StateOf(upgrades', v) = IF v = u THEN "upgraded"
                                                        ELSE StateOf(upgrades, v)
      PROVE  Book!Finish(u)
  <2>1. Known' = [Known EXCEPT ![u] = "upgraded"]
    BY <1>1, <1>4
  <2> QED
    BY <1>1, <1>4, <2>1 DEF Book!Finish
<1> QED
  BY <1>2, <1>3, <1>4 DEF Allows, Book!Next

\* With two upgrades or fewer, the lookup of UpgradeManager finds the upgrade that it is
\* asked for.  With three, the places that cancelUpgrade does not move break it.
THEOREM LookupHolds == FewUpgrades => (Spec => []LookupFindsType)
<1> SUFFICES ASSUME FewUpgrades PROVE Spec => []LookupFindsType
  OBVIOUS
<1>1. Init => Sane /\ StoreOK /\ Hand
  BY BooksInit, HandInit
<1>2. Sane /\ StoreOK /\ Hand /\ [Next]_vars => (Sane /\ StoreOK /\ Hand)'
  BY BooksStep, HandStep
<1>3. Hand => LookupFindsType
  BY DEF Hand, Sound, Finds, LookupFindsType
<1> QED
  BY <1>1, <1>2, <1>3, PTL DEF Spec

\* As long as the lookup finds the right upgrades, an upgrade is being researched, as
\* UpgradeManager says, exactly if one command in the queue of one unit orders it: no
\* order given, cancelled or swept away, no finished research and no death of a unit
\* leaves one without the other.  Nothing but the lookup can bring research to grief,
\* however many upgrades there are.
THEOREM UpgradeInHandHolds == Spec /\ []LookupFindsType => []UpgradeInHand
<1>1. Init => Sane /\ StoreOK /\ Hand
  BY BooksInit, HandInit
<1>2. Sane /\ StoreOK /\ Hand /\ [Next]_vars /\ LookupFindsType' => (Sane /\ StoreOK /\ Hand)'
  BY BooksStep, HandStep
<1>3. Sane /\ Hand => UpgradeInHand
  BY HandIsUpgradeInHand
<1> QED
  BY <1>1, <1>2, <1>3, PTL DEF Spec

\* As long as the lookup finds the right upgrades, what isUpgrading and isUpgraded say
\* changes as an upgrade book does: research begins with what is not known, ends with
\* what was being researched, and is only given up before it is done.
THEOREM BookImplemented == Spec /\ []LookupFindsType => ImplementsBook
<1>1. Init => Sane /\ StoreOK /\ Hand
  BY BooksInit, HandInit
<1>2. Sane /\ StoreOK /\ Hand /\ [Next]_vars /\ LookupFindsType' => (Sane /\ StoreOK /\ Hand)'
  BY BooksStep, HandStep
<1>3. Init => Book!Init
  <2> SUFFICES ASSUME Init PROVE Known = [u \in Upgrade |-> "none"]
    BY DEF Book!Init
  <2> QED
    BY NothingKnown DEF Known
<1>4. Sane /\ StoreOK /\ Hand /\ [Next]_vars /\ LookupFindsType' => [Book!Next]_Known
  BY HandStep, KeepsIsABookStep
<1> QED
  BY <1>1, <1>2, <1>3, <1>4, PTL DEF Spec, ImplementsBook, Book!Spec

\* With two upgrades or fewer both hold of every behaviour.
COROLLARY ResearchOfTwo == FewUpgrades => (Spec => []UpgradeInHand /\ ImplementsBook)
<1> SUFFICES ASSUME FewUpgrades PROVE Spec => []UpgradeInHand /\ ImplementsBook
  OBVIOUS
<1>1. Spec => []LookupFindsType
  BY LookupHolds
<1> QED
  BY <1>1, UpgradeInHandHolds, BookImplemented, PTL
=============================================================================
