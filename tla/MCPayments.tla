------------------------------ MODULE MCPayments ------------------------------
(* Payments for TLC: handlers are interchangeable. *)
EXTENDS Payments, TLC

Symmetry == Permutations(Procs)
===============================================================================
