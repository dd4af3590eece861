---------------------------- MODULE MCCashRegister ----------------------------
(* CashRegister for TLC: ids are interchangeable, and so are handlers. *)
EXTENDS CashRegister, TLC

Symmetry == Permutations(Procs) \cup Permutations(Orders) \cup Permutations(Sessions)
===============================================================================
