---------------------------- MODULE MCTableSeating ----------------------------
(* TableSeating for TLC: ids are interchangeable, and so are handlers. *)
EXTENDS TableSeating, TLC

Symmetry == Permutations(Procs) \cup Permutations(Orders) \cup Permutations(Tables)
===============================================================================
