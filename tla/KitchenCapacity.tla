---------------------------- MODULE KitchenCapacity ----------------------------
(***************************************************************************)
(* What slot booking promises to the kitchen, whatever the handlers do     *)
(* inside: orders come and change one at a time, and no change that puts   *)
(* more dishes on a slot leaves it above the largest maxDishesPerSlot the  *)
(* organization ever configured.  (A manager may lower the limit below     *)
(* what is already booked; the bookings stay.)                             *)
(***************************************************************************)
EXTENDS DishLoad

VARIABLES commitments, \* what was promised to customers: orders by their id
          ceiling      \* the largest maxDishesPerSlot configured so far

kitchenVars == <<commitments, ceiling>>

KitchenInit ==
  /\ commitments = [o \in {} |-> {}]
  /\ ceiling \in Nat

(***************************************************************************)
(* One committed transaction: one order appears or changes.                *)
(***************************************************************************)
ChangeOrder ==
  /\ \E o \in Orders :
       /\ o \in DOMAIN commitments'
       /\ DOMAIN commitments' = DOMAIN commitments \cup {o}
       /\ \A q \in DOMAIN commitments \ {o} : commitments'[q] = commitments[q]
       /\ commitments'[o] \in OrderRows
  /\ \A s \in Slots :
       Load(commitments', s) > Load(commitments, s) => Load(commitments', s) <= ceiling
  /\ UNCHANGED ceiling

RaiseCeiling ==
  /\ ceiling' \in Nat
  /\ ceiling' > ceiling
  /\ UNCHANGED commitments

KitchenNext == ChangeOrder \/ RaiseCeiling

Spec == KitchenInit /\ [][KitchenNext]_kitchenVars
================================================================================
