--------------------------- MODULE UpgradeManager ---------------------------
(***************************************************************************)
(* The upgrade manager of a faction: the upgrades in the order in which    *)
(* they were begun, and a lookup from an upgrade's type to its place in    *)
(* that list (0: it has none).  A manager is a record of the two; the      *)
(* operations are functions of managers.                                   *)
(***************************************************************************)
EXTENDS Naturals, SequencesExt

CONSTANT Upgrade

NoUpgrades == [list |-> <<>>, index |-> [u \in Upgrade |-> 0]]

StartUpgrade(m, u) ==
    [list  |-> Append(m.list, [type |-> u, state |-> "upgrading"]),
     index |-> [m.index EXCEPT ![u] = Len(m.list) + 1]]

\* Mutant of CancelUpgrade: the type is not taken out of the lookup.
CancelUpgradeKeepsType(m, u) ==
    LET rest == RemoveAt(m.list, m.index[u])
    IN  [list |-> rest, index |-> [v \in Upgrade |->
            IF m.index[v] > Len(rest) THEN m.index[v] - 1 ELSE m.index[v]]]

\* Mutant of CancelUpgrade: the places of the others are left as they were.
CancelUpgradeKeepsPlaces(m, u) ==
    [list  |-> RemoveAt(m.list, m.index[u]),
     index |-> [m.index EXCEPT ![u] = 0]]

\* The loop moves only those places that lie beyond the end of the shorter list:
\* a place between the cancelled one and the last is left as it was.
CancelUpgrade(m, u) ==
    LET rest == RemoveAt(m.list, m.index[u])
        Moved(k) == IF k > Len(rest) THEN k - 1 ELSE k
    IN  [list  |-> rest,
         index |-> [v \in Upgrade |-> IF v = u THEN 0 ELSE Moved(m.index[v])]]

FinishUpgrade(m, u) == [m EXCEPT !.list[m.index[u]].state = "upgraded"]

IsUpgradingOrUpgraded(m, u) == m.index[u] # 0

IsUpgraded(m, u) == m.index[u] # 0 /\ m.list[m.index[u]].state = "upgraded"

IsUpgrading(m, u) == m.index[u] # 0 /\ m.list[m.index[u]].state = "upgrading"
=============================================================================
