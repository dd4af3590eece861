----------------------------- MODULE MCOrderItems -----------------------------
(* OrderItems for TLC: item ids are interchangeable, and so are handlers. *)
EXTENDS OrderItems, TLC

Symmetry == Permutations(Procs) \cup Permutations(Items)

(* Items of different totals are explored while handlers do not overlap;  *)
(* once they have overlapped, every item costs the same.                  *)
OnePriceOverlapped ==
  overlapped =>
    /\ \A rows \in {items} \cup {entity[p].items : p \in Procs} :
         \A i \in DOMAIN rows : rows[i].total = 1
    /\ \A p \in Procs : call[p].row # None => call[p].row.total = 1
===============================================================================
