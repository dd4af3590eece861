------------------------------- MODULE DishLoad -------------------------------
(***************************************************************************)
(* The data of scheduled orders, and how many kitchen dishes they stand    *)
(* for (orders.service.ts countDishes, entities/order.entity.ts and        *)
(* order-item.entity.ts).  Everything here belongs to one organization:    *)
(* every query of the service filters by organizationId.                   *)
(*                                                                         *)
(* An instant a customer can book is a number in Slots; ForNow is the null *)
(* of Order.scheduledFor ("for now").  An item is reduced to the dishes it *)
(* puts on the kitchen: its quantity when countsTowardKitchenCapacity, and *)
(* 0 otherwise.                                                            *)
(***************************************************************************)
EXTENDS Integers, FiniteSets

CONSTANTS Orders,     \* order ids (bound on the orders ever created)
          Items,      \* order item ids (bound on the items alive at once)
          MaxDishes,  \* bound on one item's quantity
          NumSlots    \* bound on the bookable instants

ASSUME DishLoadAssumption ==
  /\ IsFiniteSet(Orders)
  /\ IsFiniteSet(Items)
  /\ MaxDishes \in Nat \ {0}
  /\ NumSlots \in Nat \ {0}

ForNow == 0
Slots == 1 .. NumSlots
Schedules == Slots \cup {ForNow}
DishCounts == 0 .. MaxDishes

\* Items are kept as a function from the ids of an order's items to dishes.
ItemMaps == UNION {[S -> DishCounts] : S \in SUBSET Items}
OrderRows == [scheduledFor : Schedules, items : ItemMaps]

(***************************************************************************)
(* One element per dish, so that a sum of quantities is a cardinality.     *)
(***************************************************************************)
DishesOf(items) == {d \in (DOMAIN items) \X (1 .. MaxDishes) : d[2] <= items[d[1]]}
countDishes(items) == Cardinality(DishesOf(items))

(***************************************************************************)
(* The dishes all committed orders really put on slot s.                   *)
(***************************************************************************)
SlotDishes(rows, s) ==
  UNION { {<<o, d>> : d \in DishesOf(rows[o].items)} :
            o \in {q \in DOMAIN rows : rows[q].scheduledFor = s} }
Load(rows, s) == Cardinality(SlotDishes(rows, s))

\* The items of an order with item i set to d dishes, and without item i.
With(items, i, d) ==
  [j \in (DOMAIN items) \cup {i} |-> IF j = i THEN d ELSE items[j]]
Without(items, i) == [j \in (DOMAIN items) \ {i} |-> items[j]]
===============================================================================
