------------------------------- MODULE Board -------------------------------
(***************************************************************************)
(* The board that the cells of the map promise to be: every unit holds a   *)
(* set of seats, a seat is held by one unit at most, and a step changes    *)
(* what one unit holds, at the expense of nobody.                          *)
(***************************************************************************)
CONSTANTS Unit, Seat

VARIABLE held   \* what each unit holds

Free == Seat \ UNION {held[u] : u \in Unit}

Init == held = [u \in Unit |-> {}]

\* A unit gives up what it likes and takes what is free.
Take(u) == \E S \in SUBSET (Free \cup held[u]) : held' = [held EXCEPT ![u] = S]

Next == \E u \in Unit : Take(u)

Spec == Init /\ [][Next]_held
=============================================================================
