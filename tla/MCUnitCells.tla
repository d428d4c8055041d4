----------------------------- MODULE MCUnitCells -----------------------------
(* A row of cells.  A soldier may become a golem, a bird or a dragon, a golem *)
(* a soldier again; a gate has a hole in the middle.                          *)
EXTENDS UnitCells, Integers

CONSTANT Length   \* of the row

Types == {"soldier", "golem", "bird", "dragon", "gate"}

Row == 1 .. Length

SizeOf == [soldier |-> 1, golem |-> 2, bird |-> 1, dragon |-> 2, gate |-> 3]

FieldOf == [soldier |-> "land", golem |-> "land", bird |-> "air",
            dragon |-> "air", gate |-> "land"]

SquareOf == [t \in Types |-> [p \in Row |-> p .. p + SizeOf[t] - 1]]

BodyOf == [t \in Types |-> [p \in Row |->
             IF t = "gate" THEN {p, p + 2} ELSE SquareOf[t][p]]]

\* Trees stand on the last cell.
PassableOf == [land |-> Row \ {Length}, air |-> Row]

MorphsTidy == {<<"soldier", "golem">>, <<"soldier", "bird">>, <<"soldier", "dragon">>,
               <<"golem", "soldier">>, <<"golem", "dragon">>}

Gates == {"gate"}
=============================================================================
