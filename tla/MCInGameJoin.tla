---------------------------- MODULE MCInGameJoin ----------------------------
(* Model checking of InGameJoin. *)
EXTENDS InGameJoin
=============================================================================
