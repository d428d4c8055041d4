---------------------------- MODULE UpgradeBook ----------------------------
(***************************************************************************)
(* What a faction's upgrade manager promises: a book that says of every    *)
(* upgrade whether it is unknown, being researched or done.                *)
(***************************************************************************)
CONSTANT Upgrade

VARIABLE book

TypeOK == book \in [Upgrade -> {"none", "upgrading", "upgraded"}]

Init == book = [u \in Upgrade |-> "none"]

Start(u) == /\ book[u] = "none"
            /\ book' = [book EXCEPT ![u] = "upgrading"]

Finish(u) == /\ book[u] = "upgrading"
             /\ book' = [book EXCEPT ![u] = "upgraded"]

\* A unit that loses its orders cancels all upgrades it was to research.
Cancel(S) == /\ \A u \in S : book[u] = "upgrading"
             /\ book' = [u \in Upgrade |-> IF u \in S THEN "none" ELSE book[u]]

Next == \/ \E u \in Upgrade : Start(u) \/ Finish(u)
        \/ \E S \in SUBSET Upgrade : Cancel(S)

Spec == Init /\ [][Next]_book
=============================================================================
