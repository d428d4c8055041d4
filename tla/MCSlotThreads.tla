--------------------------- MODULE MCSlotThreads ---------------------------
(* Two slots are interchangeable. *)
EXTENDS SlotThreads, TLC

Slots == Permutations(Slot)
=============================================================================
