--------------------------- MODULE MCReadyBarrier ---------------------------
(* The barrier before a game on small instances. *)
EXTENDS ReadyBarrier
=============================================================================
