---------------------------- MODULE MCOrderNumbers ----------------------------
(* OrderNumbers for TLC: ids are interchangeable, and so are handlers. *)
EXTENDS OrderNumbers, TLC

Symmetry == Permutations(Procs) \cup Permutations(Orders)
===============================================================================
