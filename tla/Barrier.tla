------------------------------ MODULE Barrier ------------------------------
(***************************************************************************)
(* What the barrier before a network game promises: its gate opens once,   *)
(* when no member is still coming, and nobody passes a closed gate.        *)
(***************************************************************************)
CONSTANT Member

VARIABLES where,    \* where each member is
          open      \* whether the gate is open

vars == <<where, open>>

Place == {"coming", "arrived", "passed", "left"}

TypeOK == /\ where \in [Member -> Place]
          /\ open \in BOOLEAN

Init == /\ where = [m \in Member |-> "coming"]
        /\ open = FALSE

Arrive(m) == /\ where[m] = "coming"
             /\ where' = [where EXCEPT ![m] = "arrived"]
             /\ UNCHANGED open

Open == /\ \A m \in Member : where[m] # "coming"
        /\ open' = TRUE
        /\ UNCHANGED where

Pass(m) == /\ open
           /\ where[m] = "arrived"
           /\ where' = [where EXCEPT ![m] = "passed"]
           /\ UNCHANGED open

Leave(m) == /\ where' = [where EXCEPT ![m] = "left"]
            /\ UNCHANGED open

Next == \/ Open
        \/ \E m \in Member : Arrive(m) \/ Pass(m) \/ Leave(m)

Spec == Init /\ [][Next]_vars
=============================================================================
