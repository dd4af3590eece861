---------------------------- MODULE MCSlotBooking ----------------------------
(* SlotBooking for TLC: ids are interchangeable, and so are handlers. *)
EXTENDS SlotBooking, TLC

Symmetry == Permutations(Procs) \cup Permutations(Orders) \cup Permutations(Items)
===============================================================================
