--------------------------- MODULE SlotBookingProofs ---------------------------
(***************************************************************************)
(* Theorems about SlotBooking, for any number of handlers, orders, items,  *)
(* slots and limits: the types, that no slot is booked beyond the largest  *)
(* limit, that handlers never wait for each other in a circle, that each   *)
(* counter is what its orders hold when no two handlers of one order       *)
(* overlap, and that the handlers then implement KitchenCapacity.          *)
(*                                                                         *)
(* TypeOK is not inductive: a handler about to save must name an order and *)
(* an item that exist, which CallOK adds.  The limit needs what handlers   *)
(* remember of it (LimitsKnown), and freedom from deadlock needs that the  *)
(* slots a handler has locked lie before all slots it still wants          *)
(* (LocksBehind).  The counters need to know what every handler in flight  *)
(* still owes them: the change its order will make of a slot is either     *)
(* written under the slot's lock or among the steps left (OnTrack).        *)
(*                                                                         *)
(* At the end, theorems about SlotGrid, which decides what may be booked,  *)
(* for any intervals, opening hours and times: they follow from the twelve *)
(* intervals that divide the hour.                                         *)
(***************************************************************************)
EXTENDS SlotBooking, SlotGrid, FiniteSetTheorems, WellFoundedInduction, TLAPS

-------------------------------------------------------------------------------
(* What the operators of DishLoad return: item maps stay item maps when an *)
(* item is added, changed or removed, they hold a natural number of        *)
(* dishes, and that number changes by the dishes of the item.  What a slot *)
(* has to cook is the sum of what its orders contribute, so a change of    *)
(* one order changes it by that order's contribution.                      *)


(***************************************************************************)
(* An item map is a function from some of the items to dishes.             *)
(***************************************************************************)
LEMMA ItemMapsShape ==
  ASSUME NEW f \in ItemMaps
  PROVE  DOMAIN f \subseteq Items /\ f \in [DOMAIN f -> DishCounts]
<1>1. PICK S \in SUBSET Items : f \in [S -> DishCounts]
  BY DEF ItemMaps
<1>2. DOMAIN f = S
  BY <1>1
<1>3. QED
  BY <1>1, <1>2

(***************************************************************************)
(* And every such function is an item map.                                 *)
(***************************************************************************)
LEMMA ItemMapsIntro ==
  ASSUME NEW S \in SUBSET Items, NEW f \in [S -> DishCounts]
  PROVE  f \in ItemMaps
BY DEF ItemMaps

(***************************************************************************)
(* countDishes counts: its result is a natural number.                     *)
(***************************************************************************)
LEMMA CountDishesType ==
  ASSUME NEW f \in ItemMaps
  PROVE  countDishes(f) \in Nat
<1>1. DOMAIN f \subseteq Items
  BY ItemMapsShape
<1>2. IsFiniteSet(DOMAIN f)
  BY <1>1, FS_Subset, DishLoadAssumption
<1>3. IsFiniteSet(1 .. MaxDishes)
  BY FS_Interval, DishLoadAssumption
<1>4. IsFiniteSet((DOMAIN f) \X (1 .. MaxDishes))
  BY <1>2, <1>3, FS_Product
<1>5. DishesOf(f) \in SUBSET ((DOMAIN f) \X (1 .. MaxDishes))
  BY DEF DishesOf
<1>6. IsFiniteSet(DishesOf(f))
  BY <1>4, <1>5, FS_Subset
<1>7. QED
  BY <1>6, FS_CardinalityType DEF countDishes

(***************************************************************************)
(* addItem and updateOrderItem keep the items an item map.                 *)
(***************************************************************************)
LEMMA WithType ==
  ASSUME NEW f \in ItemMaps, NEW i \in Items, NEW d \in DishCounts
  PROVE  With(f, i, d) \in ItemMaps
<1>1. DOMAIN f \subseteq Items /\ f \in [DOMAIN f -> DishCounts]
  BY ItemMapsShape
<1>2. (DOMAIN f) \cup {i} \in SUBSET Items
  BY <1>1
<1>3. With(f, i, d) \in [(DOMAIN f) \cup {i} -> DishCounts]
  BY <1>1 DEF With
<1>4. QED
  BY <1>2, <1>3, ItemMapsIntro

(***************************************************************************)
(* So does removeItem.                                                     *)
(***************************************************************************)
LEMMA WithoutType ==
  ASSUME NEW f \in ItemMaps, NEW i
  PROVE  Without(f, i) \in ItemMaps
<1>1. DOMAIN f \subseteq Items /\ f \in [DOMAIN f -> DishCounts]
  BY ItemMapsShape
<1>2. (DOMAIN f) \ {i} \in SUBSET Items
  BY <1>1
<1>3. Without(f, i) \in [(DOMAIN f) \ {i} -> DishCounts]
  BY <1>1 DEF Without
<1>4. QED
  BY <1>2, <1>3, ItemMapsIntro

-------------------------------------------------------------------------------
(* Counting the dishes of one order *)

(***************************************************************************)
(* An order has finitely many dishes.                                      *)
(***************************************************************************)
LEMMA DishesFinite ==
  ASSUME NEW f \in ItemMaps
  PROVE  IsFiniteSet(DishesOf(f)) /\ DishesOf(f) \subseteq Items \X (1 .. MaxDishes)
<1>1. DOMAIN f \subseteq Items
  BY ItemMapsShape
<1>2. IsFiniteSet(Items \X (1 .. MaxDishes))
  <2>1. IsFiniteSet(1 .. MaxDishes)
    BY FS_Interval, DishLoadAssumption
  <2>2. QED
    BY <2>1, FS_Product, DishLoadAssumption
<1>3. DishesOf(f) \subseteq Items \X (1 .. MaxDishes)
  BY <1>1 DEF DishesOf
<1>4. QED
  BY <1>2, <1>3, FS_Subset

(***************************************************************************)
(* An item that is added adds its dishes.                                  *)
(***************************************************************************)
LEMMA CountWithNew ==
  ASSUME NEW f \in ItemMaps, NEW i \in Items, i \notin DOMAIN f, NEW d \in DishCounts
  PROVE  countDishes(With(f, i, d)) = countDishes(f) + d
<1>1. DOMAIN f \subseteq Items /\ f \in [DOMAIN f -> DishCounts]
  BY ItemMapsShape
<1>2. d \in Nat /\ d <= MaxDishes /\ MaxDishes \in Nat
  BY DishLoadAssumption DEF DishCounts
<1>3. PICK g : g = With(f, i, d)
  OBVIOUS
<1>4. /\ DOMAIN g = (DOMAIN f) \cup {i} /\ g[i] = d
      /\ \A j \in DOMAIN f : g[j] = f[j]
  BY <1>3 DEF With
<1>5. DishesOf(g) = DishesOf(f) \cup ({i} \X (1 .. d))
  <2>1. ASSUME NEW x \in DishesOf(g) PROVE x \in DishesOf(f) \cup ({i} \X (1 .. d))
    <3>1. /\ x \in (DOMAIN g) \X (1 .. MaxDishes) /\ x[2] <= g[x[1]]
      BY <2>1 DEF DishesOf
    <3>2. CASE x[1] = i
      BY <1>2, <1>4, <3>1, <3>2
    <3>3. CASE x[1] # i
      <4>1. x \in (DOMAIN f) \X (1 .. MaxDishes) /\ x[2] <= f[x[1]]
        BY <1>4, <3>1, <3>3
      <4>2. QED
        BY <4>1 DEF DishesOf
    <3>4. QED
      BY <3>2, <3>3
  <2>2. ASSUME NEW x \in DishesOf(f) PROVE x \in DishesOf(g)
    BY <1>4, <2>2 DEF DishesOf
  <2>3. ASSUME NEW x \in {i} \X (1 .. d) PROVE x \in DishesOf(g)
    <3>1. x \in (DOMAIN g) \X (1 .. MaxDishes) /\ x[1] = i /\ x[2] <= d
      BY <1>2, <1>4, <2>3
    <3>2. QED
      BY <1>4, <3>1 DEF DishesOf
  <2>4. QED
    BY <2>1, <2>2, <2>3
<1>6. DishesOf(f) \cap ({i} \X (1 .. d)) = {}
  BY DEF DishesOf
<1>7. IsFiniteSet({i} \X (1 .. d)) /\ Cardinality({i} \X (1 .. d)) = d
  <2>1. IsFiniteSet(1 .. d) /\ Cardinality(1 .. d) = d
    BY <1>2, FS_Interval
  <2>2. IsFiniteSet({i}) /\ Cardinality({i}) = 1
    BY FS_Singleton
  <2>3. QED
    BY <1>2, <2>1, <2>2, FS_Product
<1>8. IsFiniteSet(DishesOf(f)) /\ Cardinality(DishesOf(f)) \in Nat
  BY DishesFinite, FS_CardinalityType
<1>9. Cardinality(DishesOf(f) \cup ({i} \X (1 .. d))) = Cardinality(DishesOf(f)) + d
  <2>1. Cardinality(DishesOf(f) \cup ({i} \X (1 .. d)))
          = Cardinality(DishesOf(f)) + Cardinality({i} \X (1 .. d))
            - Cardinality(DishesOf(f) \cap ({i} \X (1 .. d)))
    BY <1>7, <1>8, FS_Union
  <2>2. Cardinality(DishesOf(f) \cap ({i} \X (1 .. d))) = 0
    BY <1>6, FS_EmptySet
  <2>3. QED
    BY <1>2, <1>7, <1>8, <2>1, <2>2
<1>10. QED
  BY <1>3, <1>5, <1>9 DEF countDishes

(***************************************************************************)
(* An item that is removed takes its dishes away.                          *)
(***************************************************************************)
LEMMA CountWithout ==
  ASSUME NEW f \in ItemMaps, NEW i \in DOMAIN f
  PROVE  countDishes(Without(f, i)) + f[i] = countDishes(f)
<1>1. DOMAIN f \subseteq Items /\ f \in [DOMAIN f -> DishCounts]
  BY ItemMapsShape
<1>2. PICK g \in ItemMaps : g = Without(f, i)
  BY WithoutType
<1>3. DOMAIN g = (DOMAIN f) \ {i} /\ \A j \in DOMAIN g : g[j] = f[j]
  BY <1>2 DEF Without
<1>4. With(g, i, f[i]) = f
  <2>1. (DOMAIN g) \cup {i} = DOMAIN f
    BY <1>3
  <2>2. With(g, i, f[i]) = [j \in DOMAIN f |-> f[j]]
    BY <1>3, <2>1 DEF With
  <2>3. QED
    BY <1>1, <2>2
<1>5. countDishes(With(g, i, f[i])) = countDishes(g) + f[i]
  BY <1>1, <1>3, CountWithNew
<1>6. QED
  BY <1>2, <1>4, <1>5

(***************************************************************************)
(* A new quantity replaces the old one.                                    *)
(***************************************************************************)
LEMMA CountWithOld ==
  ASSUME NEW f \in ItemMaps, NEW i \in DOMAIN f, NEW d \in DishCounts
  PROVE  countDishes(With(f, i, d)) = countDishes(f) - f[i] + d
<1>1. DOMAIN f \subseteq Items /\ f \in [DOMAIN f -> DishCounts]
  BY ItemMapsShape
<1>2. PICK g \in ItemMaps : g = Without(f, i)
  BY WithoutType
<1>3. DOMAIN g = (DOMAIN f) \ {i} /\ \A j \in DOMAIN g : g[j] = f[j]
  BY <1>2 DEF Without
<1>4. With(g, i, d) = With(f, i, d)
  <2>1. (DOMAIN g) \cup {i} = (DOMAIN f) \cup {i}
    BY <1>3
  <2>2. QED
    BY <1>3, <2>1 DEF With
<1>5. countDishes(With(g, i, d)) = countDishes(g) + d
  BY <1>1, <1>3, CountWithNew
<1>6. countDishes(g) + f[i] = countDishes(f)
  BY <1>2, CountWithout
<1>7. countDishes(g) \in Nat /\ countDishes(f) \in Nat /\ f[i] \in Int /\ d \in Int
  BY <1>1, CountDishesType DEF DishCounts
<1>8. QED
  BY <1>4, <1>5, <1>6, <1>7

(***************************************************************************)
(* An order without items has no dishes.                                   *)
(***************************************************************************)
LEMMA CountNothing ==
  ASSUME NEW f, DOMAIN f = {}
  PROVE  countDishes(f) = 0
<1>1. DishesOf(f) = {}
  BY DEF DishesOf
<1>2. QED
  BY <1>1, FS_EmptySet DEF countDishes

-------------------------------------------------------------------------------
(* Counting the dishes of a slot *)

\* The dishes one order puts on slot s, and those of all orders but o.
Contribution(row, s) == IF row.scheduledFor = s THEN countDishes(row.items) ELSE 0
DishesWithout(rows, o, s) ==
  UNION { {<<q, d>> : d \in DishesOf(rows[q].items)} :
            q \in {q \in (DOMAIN rows) \ {o} : rows[q].scheduledFor = s} }

\* Committed orders.
Table(rows) == DOMAIN rows \subseteq Orders /\ \A o \in DOMAIN rows : rows[o] \in OrderRows

(***************************************************************************)
(* One order contributes a natural number of dishes.                       *)
(***************************************************************************)
LEMMA ContributionType ==
  ASSUME NEW row \in OrderRows, NEW s
  PROVE  Contribution(row, s) \in Nat
BY CountDishesType DEF Contribution, OrderRows

(***************************************************************************)
(* The other orders' dishes can be counted.                                *)
(***************************************************************************)
LEMMA OthersFinite ==
  ASSUME NEW rows, Table(rows), NEW o, NEW s
  PROVE  /\ IsFiniteSet(DishesWithout(rows, o, s))
         /\ Cardinality(DishesWithout(rows, o, s)) \in Nat
<1>1. IsFiniteSet(Orders \X (Items \X (1 .. MaxDishes)))
  <2>1. IsFiniteSet(1 .. MaxDishes)
    BY FS_Interval, DishLoadAssumption
  <2>2. IsFiniteSet(Items \X (1 .. MaxDishes))
    BY <2>1, FS_Product, DishLoadAssumption
  <2>3. QED
    BY <2>2, FS_Product, DishLoadAssumption
<1>2. \A q \in DOMAIN rows : q \in Orders /\ DishesOf(rows[q].items) \subseteq Items \X (1 .. MaxDishes)
  BY DishesFinite DEF Table, OrderRows
<1>3. DishesWithout(rows, o, s) \subseteq Orders \X (Items \X (1 .. MaxDishes))
  BY <1>2 DEF DishesWithout
<1>4. QED
  BY <1>1, <1>3, FS_Subset, FS_CardinalityType

(***************************************************************************)
(* A slot cooks what the other orders hold, and what order o contributes.  *)
(***************************************************************************)
LEMMA LoadSplit ==
  ASSUME NEW rows, Table(rows), NEW o \in DOMAIN rows, NEW s
  PROVE  Load(rows, s) = Cardinality(DishesWithout(rows, o, s)) + Contribution(rows[o], s)
<1>1. IsFiniteSet(DishesWithout(rows, o, s)) /\ Cardinality(DishesWithout(rows, o, s)) \in Nat
  BY OthersFinite
<1>2. CASE rows[o].scheduledFor # s
  <2>1. {q \in DOMAIN rows : rows[q].scheduledFor = s}
          = {q \in (DOMAIN rows) \ {o} : rows[q].scheduledFor = s}
    BY <1>2
  <2>2. SlotDishes(rows, s) = DishesWithout(rows, o, s)
    BY <2>1 DEF SlotDishes, DishesWithout
  <2>3. QED
    BY <1>1, <1>2, <2>2 DEF Load, Contribution
<1>3. CASE rows[o].scheduledFor = s
  <2>. DEFINE D == DishesOf(rows[o].items)
  <2>1. SlotDishes(rows, s) = DishesWithout(rows, o, s) \cup ({o} \X D)
    <3>1. \A x \in SlotDishes(rows, s) : x \in DishesWithout(rows, o, s) \cup ({o} \X D)
      BY DEF SlotDishes, DishesWithout
    <3>2. \A x \in DishesWithout(rows, o, s) : x \in SlotDishes(rows, s)
      BY DEF SlotDishes, DishesWithout
    <3>3. \A x \in {o} \X D : x \in SlotDishes(rows, s)
      BY <1>3 DEF SlotDishes
    <3>4. QED
      BY <3>1, <3>2, <3>3
  <2>2. DishesWithout(rows, o, s) \cap ({o} \X D) = {}
    BY DEF DishesWithout
  <2>3. IsFiniteSet(D) /\ Cardinality(D) \in Nat
    BY DishesFinite, FS_CardinalityType DEF Table, OrderRows
  <2>4. IsFiniteSet({o} \X D) /\ Cardinality({o} \X D) = Cardinality(D)
    <3>1. IsFiniteSet({o}) /\ Cardinality({o}) = 1
      BY FS_Singleton
    <3>2. QED
      BY <2>3, <3>1, FS_Product
  <2>5. Cardinality(DishesWithout(rows, o, s) \cup ({o} \X D))
          = Cardinality(DishesWithout(rows, o, s)) + Cardinality({o} \X D)
            - Cardinality(DishesWithout(rows, o, s) \cap ({o} \X D))
    BY <1>1, <2>4, FS_Union
  <2>6. Cardinality(DishesWithout(rows, o, s) \cap ({o} \X D)) = 0
    BY <2>2, FS_EmptySet
  <2>7. Load(rows, s) = Cardinality(DishesWithout(rows, o, s)) + Cardinality(D)
    BY <1>1, <2>1, <2>3, <2>4, <2>5, <2>6 DEF Load
  <2>8. QED
    BY <1>3, <2>7 DEF Contribution, countDishes
<1>4. QED
  BY <1>2, <1>3

(***************************************************************************)
(* A slot cooks nothing for an order that does not exist.                  *)
(***************************************************************************)
LEMMA LoadWithout ==
  ASSUME NEW rows, Table(rows), NEW o, o \notin DOMAIN rows, NEW s
  PROVE  Load(rows, s) = Cardinality(DishesWithout(rows, o, s))
<1>1. {q \in DOMAIN rows : rows[q].scheduledFor = s}
        = {q \in (DOMAIN rows) \ {o} : rows[q].scheduledFor = s}
  OBVIOUS
<1>2. QED
  BY <1>1 DEF Load, SlotDishes, DishesWithout

(***************************************************************************)
(* Saving order o leaves the other orders' dishes alone.                   *)
(***************************************************************************)
LEMMA OthersStay ==
  ASSUME NEW rows, NEW saved, NEW o, NEW s,
         DOMAIN saved = (DOMAIN rows) \cup {o},
         \A q \in (DOMAIN rows) \ {o} : saved[q] = rows[q]
  PROVE  DishesWithout(saved, o, s) = DishesWithout(rows, o, s)
<1>1. {q \in (DOMAIN saved) \ {o} : saved[q].scheduledFor = s}
        = {q \in (DOMAIN rows) \ {o} : rows[q].scheduledFor = s}
  OBVIOUS
<1>2. \A q \in (DOMAIN rows) \ {o} : saved[q] = rows[q]
  OBVIOUS
<1>3. QED
  BY <1>1, <1>2 DEF DishesWithout

-------------------------------------------------------------------------------
(* The invariants.                                                         *)

\* What a handler in flight names exists.
CallOK == \A p \in Procs :
  /\ pc[p] # "idle" => call[p].order \in Orders
  /\ pc[p] # "idle" /\ call[p].op \in ItemOps \cup {"markItemPrepared"} =>
       call[p].order \in DOMAIN orders /\ call[p].item \in Items
  /\ pc[p] = "reload" => call[p].op \in ItemOps

\* Every limit a handler works with is, or was, the organization's.
LimitsKnown ==
  /\ maxDishesPerSlot <= peak
  /\ \A p \in Procs : capacity[p] <= peak
  /\ \A s \in Slots : pending[s] <= peak

\* No two steps of a handler are for one slot.
StepsDistinct == \A p \in Procs : \A st, other \in steps[p] :
  st.slot = other.slot => st = other

\* Locks are held only inside a transaction, on slots already done with.
LocksBehind == \A p \in Procs : \A s \in Slots : lockedBy[s] = p =>
  /\ pc[p] \in {"slots", "reload", "save"}
  /\ \A st \in steps[p] : s < st.slot

TypeInv == TypeOK /\ CallOK
LimitInv == CapacityNeverExceeded /\ LimitsKnown
LockInv == StepsDistinct /\ LocksBehind

USE SlotBookingAssumption, DishLoadAssumption

-------------------------------------------------------------------------------
(* Types *)

(***************************************************************************)
(* What a handler plans to release and reserve is a set of slot steps.     *)
(***************************************************************************)
LEMMA StepSets ==
  ASSUME NEW s \in Schedules, NEW n \in Int
  PROVE  /\ Release(s, n) \in SUBSET Steps
         /\ Reserve(s, n) \in SUBSET Steps
BY DEF Release, Reserve, Steps, Schedules, ForNow, Slots

(***************************************************************************)
(* Where a handler goes next; only the item handlers reload the order.     *)
(***************************************************************************)
LEMMA ProgressType ==
  ASSUME NEW op, NEW left
  PROVE  /\ Progress(op, left) \in {"slots", "reload", "save"}
         /\ Progress(op, left) = "reload" => op \in ItemOps
         /\ left = {} => Progress(op, left) # "slots"
BY DEF Progress

(***************************************************************************)
(* The empty order in the memory of an idle handler is an order.           *)
(***************************************************************************)
LEMMA NoOrderType == NoOrder \in OrderRows
<1>1. NoOrder.items \in [{} -> DishCounts]
  BY DEF NoOrder
<1>2. NoOrder.items \in ItemMaps
  BY <1>1, ItemMapsIntro
<1>3. QED
  BY <1>2 DEF NoOrder, OrderRows, Schedules, ForNow

(***************************************************************************)
(* The service starts with every variable of its type.                     *)
(***************************************************************************)
LEMMA TypeInit == Init => TypeInv
<1>. SUFFICES ASSUME Init PROVE TypeInv
  OBVIOUS
<1>1. TypeOK
  BY NoOrderType DEF Init, TypeOK, NoCall, Calls, Ops, DishCounts, ForNow
<1>2. CallOK
  BY DEF Init, CallOK
<1>3. QED
  BY <1>1, <1>2 DEF TypeInv

(***************************************************************************)
(* All handlers begin alike: with a call that names what exists and a plan *)
(* with at most one step per slot.                                         *)
(***************************************************************************)
WellFormed(c, plan) ==
  /\ c.order \in Orders
  /\ c.op \in ItemOps \cup {"markItemPrepared"} =>
       c.order \in DOMAIN orders /\ c.item \in Items
  /\ \A st, other \in plan : st.slot = other.slot => st = other

WellBegun(p) ==
  \E c \in Calls, plan \in SUBSET Steps, needsConfig \in BOOLEAN, copy \in OrderRows :
    WellFormed(c, plan) /\ Begin(p, c, plan, needsConfig, copy)

(***************************************************************************)
(* A handler releases or reserves one slot in one step, and never zero     *)
(* dishes.                                                                 *)
(***************************************************************************)
LEMMA StepSlots ==
  ASSUME NEW s, NEW n
  PROVE  /\ \A st, other \in Release(s, n) : st = other
         /\ \A st, other \in Reserve(s, n) : st = other
         /\ \A st \in Release(s, n) \cup Reserve(s, n) : st.slot = s /\ n > 0
BY DEF Release, Reserve

(***************************************************************************)
(* A handler that begins with a call and a plan of the right form has      *)
(* begun well.                                                             *)
(***************************************************************************)
LEMMA WellBegunIntro ==
  ASSUME NEW p, NEW c \in Calls, NEW plan \in SUBSET Steps, NEW needsConfig \in BOOLEAN,
         NEW copy \in OrderRows, WellFormed(c, plan), Begin(p, c, plan, needsConfig, copy)
  PROVE  WellBegun(p)
BY DEF WellBegun

(***************************************************************************)
(* applyScheduleChange has two different slots, and a new quantity is      *)
(* either more or less.                                                    *)
(***************************************************************************)
LEMMA StartBegins ==
  ASSUME TypeInv, NEW p \in Procs, Start(p)
  PROVE  WellBegun(p)
<1>rows. \A o \in DOMAIN orders :
         /\ o \in Orders
         /\ orders[o] \in OrderRows
         /\ orders[o].scheduledFor \in Schedules
         /\ orders[o].items \in ItemMaps
  BY DEF TypeInv, TypeOK, OrderRows
<1>items. \A o \in DOMAIN orders : \A i \in DOMAIN orders[o].items :
         i \in Items /\ orders[o].items[i] \in DishCounts
  BY <1>rows, ItemMapsShape
<1>1. CASE Create(p)
  <2>0. PICK o \in Orders, s \in Schedules, new \in SUBSET Items :
          \E items \in [new -> DishCounts] :
            Begin(p, OrderCall("create", o),
                  Reserve(s, countDishes(items)), s # ForNow,
                  [scheduledFor |-> s, items |-> items])
    BY <1>1 DEF Create
  <2>1. PICK items \in [new -> DishCounts] :
          Begin(p, OrderCall("create", o),
                Reserve(s, countDishes(items)), s # ForNow,
                [scheduledFor |-> s, items |-> items])
    BY <2>0
  <2>2. items \in ItemMaps /\ countDishes(items) \in Int
    BY ItemMapsIntro, CountDishesType
  <2>3. [scheduledFor |-> s, items |-> items] \in OrderRows
    BY <2>2 DEF OrderRows
  <2>4. OrderCall("create", o) \in Calls
    BY DEF OrderCall, Calls, Ops, DishCounts
  <2>5. Reserve(s, countDishes(items)) \in SUBSET Steps
    BY <2>2, StepSets
  <2>6. WellFormed(OrderCall("create", o), Reserve(s, countDishes(items)))
    BY StepSlots DEF WellFormed, OrderCall, ItemOps
  <2>7. QED
    BY <2>1, <2>3, <2>4, <2>5, <2>6, WellBegunIntro
<1>2. CASE CreatePosOrder(p)
  <2>1. PICK o \in Orders, s \in Schedules :
          Begin(p, OrderCall("createPosOrder", o),
                {}, s # ForNow, [scheduledFor |-> s, items |-> NoOrder.items])
    BY <1>2 DEF CreatePosOrder
  <2>2. [scheduledFor |-> s, items |-> NoOrder.items] \in OrderRows
    BY NoOrderType DEF OrderRows
  <2>3. OrderCall("createPosOrder", o) \in Calls
    BY DEF OrderCall, Calls, Ops, DishCounts
  <2>4. WellFormed(OrderCall("createPosOrder", o), {})
    BY DEF WellFormed, OrderCall, ItemOps
  <2>5. QED
    BY <2>1, <2>2, <2>3, <2>4, WellBegunIntro
<1>3. CASE Update(p)
  <2>. DEFINE Plan(o, s) ==
         IF s # orders[o].scheduledFor
         THEN SchedulePlan(orders[o].scheduledFor, s, countDishes(orders[o].items)) ELSE {}
  <2>1. PICK o \in DOMAIN orders, s \in Schedules :
          Begin(p, OrderCall("update", o), Plan(o, s),
                s # orders[o].scheduledFor, [orders[o] EXCEPT !.scheduledFor = s])
    BY <1>3 DEF Update
  <2>2. [orders[o] EXCEPT !.scheduledFor = s] \in OrderRows
    BY <1>rows DEF OrderRows
  <2>3. OrderCall("update", o) \in Calls
    BY <1>rows DEF OrderCall, Calls, Ops, DishCounts
  <2>4. Plan(o, s) \in SUBSET Steps
    BY <1>rows, CountDishesType, StepSets DEF SchedulePlan
  <2>5. WellFormed(OrderCall("update", o), Plan(o, s))
    BY <1>rows DEF WellFormed, OrderCall, ItemOps, SchedulePlan, Release, Reserve
  <2>. HIDE DEF Plan
  <2>6. QED
    BY <2>1, <2>2, <2>3, <2>4, <2>5, WellBegunIntro
<1>4. CASE AddItem(p)
  <2>1. PICK o \in DOMAIN orders, i \in Items, d \in DishCounts :
          Begin(p, [op |-> "addItem", order |-> o, item |-> i, dishes |-> d],
                Reserve(orders[o].scheduledFor, d),
                Reserve(orders[o].scheduledFor, d) # {}, NoOrder)
    BY <1>4 DEF AddItem
  <2>2. [op |-> "addItem", order |-> o, item |-> i, dishes |-> d] \in Calls
    BY <1>rows DEF Calls, Ops
  <2>3. Reserve(orders[o].scheduledFor, d) \in SUBSET Steps
    BY <1>rows, StepSets DEF DishCounts
  <2>4. WellFormed([op |-> "addItem", order |-> o, item |-> i, dishes |-> d],
                   Reserve(orders[o].scheduledFor, d))
    BY <1>rows, StepSlots DEF WellFormed
  <2>5. QED
    BY <2>1, <2>2, <2>3, <2>4, NoOrderType, WellBegunIntro
<1>5. CASE RemoveItem(p)
  <2>1. PICK o \in DOMAIN orders : \E i \in DOMAIN orders[o].items :
          Begin(p, [op |-> "removeItem", order |-> o, item |-> i, dishes |-> 0],
                Release(orders[o].scheduledFor, orders[o].items[i]), FALSE, NoOrder)
    BY <1>5 DEF RemoveItem
  <2>2. PICK i \in DOMAIN orders[o].items :
          Begin(p, [op |-> "removeItem", order |-> o, item |-> i, dishes |-> 0],
                Release(orders[o].scheduledFor, orders[o].items[i]), FALSE, NoOrder)
    BY <2>1
  <2>3. [op |-> "removeItem", order |-> o, item |-> i, dishes |-> 0] \in Calls
    BY <1>rows, <1>items DEF Calls, Ops, DishCounts
  <2>4. Release(orders[o].scheduledFor, orders[o].items[i]) \in SUBSET Steps
    BY <1>rows, <1>items, StepSets DEF DishCounts
  <2>5. WellFormed([op |-> "removeItem", order |-> o, item |-> i, dishes |-> 0],
                   Release(orders[o].scheduledFor, orders[o].items[i]))
    BY <1>rows, <1>items, StepSlots DEF WellFormed
  <2>6. QED
    BY <2>2, <2>3, <2>4, <2>5, NoOrderType, WellBegunIntro
<1>6. CASE UpdateOrderItem(p)
  <2>. DEFINE D(o, i, d) == d - orders[o].items[i]
              Plan(o, i, d) == Reserve(orders[o].scheduledFor, D(o, i, d))
                               \cup Release(orders[o].scheduledFor, -D(o, i, d))
  <2>1. PICK o \in DOMAIN orders : \E i \in DOMAIN orders[o].items, d \in DishCounts :
          Begin(p, [op |-> "updateOrderItem", order |-> o, item |-> i, dishes |-> d],
                Plan(o, i, d), Reserve(orders[o].scheduledFor, D(o, i, d)) # {}, NoOrder)
    BY <1>6 DEF UpdateOrderItem
  <2>2. PICK i \in DOMAIN orders[o].items, d \in DishCounts :
          Begin(p, [op |-> "updateOrderItem", order |-> o, item |-> i, dishes |-> d],
                Plan(o, i, d), Reserve(orders[o].scheduledFor, D(o, i, d)) # {}, NoOrder)
    BY <2>1
  <2>3. [op |-> "updateOrderItem", order |-> o, item |-> i, dishes |-> d] \in Calls
    BY <1>rows, <1>items DEF Calls, Ops
  <2>4. D(o, i, d) \in Int /\ -D(o, i, d) \in Int
    BY <1>items DEF DishCounts
  <2>5. Plan(o, i, d) \in SUBSET Steps
    BY <1>rows, <2>4, StepSets
  <2>6. WellFormed([op |-> "updateOrderItem", order |-> o, item |-> i, dishes |-> d],
                   Plan(o, i, d))
    <3>1. \A st, other \in Plan(o, i, d) : st = other
      BY <2>4 DEF Reserve, Release
    <3>2. QED
      BY <1>rows, <1>items, <3>1 DEF WellFormed
  <2>. HIDE DEF Plan
  <2>7. QED
    BY <2>2, <2>3, <2>5, <2>6, NoOrderType, WellBegunIntro
<1>7. CASE UpdatePaymentStatus(p)
  <2>1. PICK o \in DOMAIN orders :
          Begin(p, OrderCall("updatePaymentStatus", o),
                {}, FALSE, orders[o])
    BY <1>7 DEF UpdatePaymentStatus
  <2>2. OrderCall("updatePaymentStatus", o) \in Calls
    BY <1>rows DEF OrderCall, Calls, Ops, DishCounts
  <2>3. WellFormed(OrderCall("updatePaymentStatus", o), {})
    BY <1>rows DEF WellFormed, OrderCall, ItemOps
  <2>4. QED
    BY <1>rows, <2>1, <2>2, <2>3, WellBegunIntro
<1>8. CASE MarkItemPrepared(p)
  <2>1. PICK o \in DOMAIN orders : \E i \in DOMAIN orders[o].items :
          Begin(p, [op |-> "markItemPrepared", order |-> o, item |-> i,
                    dishes |-> orders[o].items[i]], {}, FALSE, NoOrder)
    BY <1>8 DEF MarkItemPrepared
  <2>2. PICK i \in DOMAIN orders[o].items :
          Begin(p, [op |-> "markItemPrepared", order |-> o, item |-> i,
                    dishes |-> orders[o].items[i]], {}, FALSE, NoOrder)
    BY <2>1
  <2>3. [op |-> "markItemPrepared", order |-> o, item |-> i,
         dishes |-> orders[o].items[i]] \in Calls
    BY <1>rows, <1>items DEF Calls, Ops
  <2>4. WellFormed([op |-> "markItemPrepared", order |-> o, item |-> i,
                    dishes |-> orders[o].items[i]], {})
    BY <1>rows, <1>items DEF WellFormed
  <2>5. QED
    BY <2>2, <2>3, <2>4, NoOrderType, WellBegunIntro
<1>9. QED
  BY <1>1, <1>2, <1>3, <1>4, <1>5, <1>6, <1>7, <1>8 DEF Start
(***************************************************************************)
(* No handler breaks the types by starting.                                *)
(***************************************************************************)
LEMMA StartType ==
  ASSUME TypeInv, NEW p \in Procs, Start(p)
  PROVE  TypeInv'
<1>1. PICK c \in Calls, plan \in SUBSET Steps, needsConfig \in BOOLEAN, copy \in OrderRows :
        WellFormed(c, plan) /\ Begin(p, c, plan, needsConfig, copy)
  BY StartBegins DEF WellBegun
<1>2. Progress(c.op, plan) \in {"slots", "reload", "save"}
      /\ (Progress(c.op, plan) = "reload" => c.op \in ItemOps)
  BY ProgressType
<1>3. TypeOK'
  BY <1>1, <1>2 DEF TypeInv, TypeOK, Begin, slotVars
<1>4. CallOK'
  BY <1>1, <1>2 DEF TypeInv, TypeOK, CallOK, Begin, WellFormed
<1>5. QED
  BY <1>3, <1>4 DEF TypeInv

(***************************************************************************)
(* A transaction that ends leaves its handler idle and its slots free.     *)
(***************************************************************************)
LEMMA FinishType ==
  ASSUME TypeInv, NEW p \in Procs, Finish(p)
  PROVE  /\ pc' \in [Procs -> {"idle", "config", "slots", "reload", "save"}]
         /\ call' \in [Procs -> Calls]
         /\ steps' \in [Procs -> SUBSET Steps]
         /\ capacity' \in [Procs -> Nat]
         /\ entity' \in [Procs -> OrderRows]
         /\ lockedBy' \in [Slots -> Procs \cup {None}]
         /\ pending' \in [Slots -> Nat]
<1>1. NoCall \in Calls
  BY DEF NoCall, Calls, Ops, DishCounts
<1>2. QED
  BY <1>1, NoOrderType DEF TypeInv, TypeOK, Finish

\* What is in Procs other than p stays as it was.
LEMMA FinishCall ==
  ASSUME TypeInv, NEW p \in Procs, Finish(p), DOMAIN orders \subseteq DOMAIN orders'
  PROVE  CallOK'
BY DEF TypeInv, TypeOK, CallOK, Finish

(***************************************************************************)
(* A slot step moves its handler on and touches one lock.                  *)
(***************************************************************************)
LEMMA TakeStepType ==
  ASSUME TypeInv, NEW p \in Procs, NEW st \in steps[p], pc[p] = "slots", TakeStep(p, st),
         \/ UNCHANGED <<lockedBy, pending>>
         \/ \E n \in Nat : LockSlot(p, st, n)
  PROVE  TypeInv'
<1>1. /\ Progress(call[p].op, steps[p] \ {st}) \in {"slots", "reload", "save"}
      /\ Progress(call[p].op, steps[p] \ {st}) = "reload" => call[p].op \in ItemOps
  BY ProgressType
<1>2. lockedBy' \in [Slots -> Procs \cup {None}] /\ pending' \in [Slots -> Nat]
  BY DEF TypeInv, TypeOK, LockSlot
<1>3. TypeOK'
  BY <1>1, <1>2 DEF TypeInv, TypeOK, TakeStep
<1>4. CallOK'
  BY <1>1 DEF TypeInv, TypeOK, CallOK, TakeStep
<1>5. QED
  BY <1>3, <1>4 DEF TypeInv

(***************************************************************************)
(* Reserving and releasing keep the types: a counter never goes below      *)
(* zero, because releaseSlotCapacity clamps it.                            *)
(***************************************************************************)
LEMMA SlotStepType ==
  ASSUME TypeInv, NEW p \in Procs,
         ReserveSlotCapacity(p) \/ ReleaseSlotCapacity(p)
  PROVE  TypeInv'
<1>steps. \A st \in steps[p] : st.slot \in Slots /\ st.dishes \in Nat
  BY DEF TypeInv, TypeOK, Steps
<1>1. CASE ReserveSlotCapacity(p)
  <2>1. PICK st \in steps[p] :
          /\ pc[p] = "slots"
          /\ LockSlot(p, st, dishesBooked[st.slot] + st.dishes)
          /\ TakeStep(p, st)
    BY <1>1 DEF ReserveSlotCapacity
  <2>2. dishesBooked[st.slot] + st.dishes \in Nat
    BY <1>steps DEF TypeInv, TypeOK
  <2>3. QED
    BY <2>1, <2>2, TakeStepType
<1>2. CASE ReleaseSlotCapacity(p)
  <2>1. PICK st \in steps[p] :
          /\ pc[p] = "slots"
          /\ \/ LockSlot(p, st, Remaining(dishesBooked[st.slot], st.dishes))
             \/ UNCHANGED <<lockedBy, pending>>
          /\ TakeStep(p, st)
    BY <1>2 DEF ReleaseSlotCapacity
  <2>2. Remaining(dishesBooked[st.slot], st.dishes) \in Nat
    BY <1>steps DEF TypeInv, TypeOK, Remaining
  <2>3. QED
    BY <2>1, <2>2, TakeStepType
<1>3. QED
  BY <1>1, <1>2

(***************************************************************************)
(* The answer of organization-ms, the reload and the commit keep the       *)
(* types.                                                                  *)
(***************************************************************************)
LEMMA ContinueType ==
  ASSUME TypeInv, NEW p \in Procs,
         GetOrgSchedulingConfig(p) \/ ReloadOrder(p) \/ Commit(p)
  PROVE  TypeInv'
<1>1. CASE GetOrgSchedulingConfig(p)
  <2>1. /\ Progress(call[p].op, steps[p]) \in {"slots", "reload", "save"}
        /\ Progress(call[p].op, steps[p]) = "reload" => call[p].op \in ItemOps
    BY ProgressType
  <2>2. maxDishesPerSlot \in Nat
    BY DEF TypeInv, TypeOK
  <2>3. TypeOK'
    BY <1>1, <2>1, <2>2 DEF TypeInv, TypeOK, GetOrgSchedulingConfig, slotVars
  <2>4. CallOK'
    BY <1>1, <2>1 DEF TypeInv, TypeOK, CallOK, GetOrgSchedulingConfig
  <2>5. QED
    BY <2>3, <2>4 DEF TypeInv
<1>2. CASE ReloadOrder(p)
  <2>. DEFINE c == call[p]
              row == orders[c.order]
              new == IF c.op = "removeItem" THEN Without(row.items, c.item)
                                            ELSE With(row.items, c.item, c.dishes)
  <2>1. /\ c.order \in DOMAIN orders /\ c.item \in Items /\ c.dishes \in DishCounts
        /\ c.order \in Orders
    BY <1>2 DEF TypeInv, TypeOK, CallOK, ReloadOrder, Calls
  <2>2. row \in OrderRows /\ row.items \in ItemMaps
    BY <2>1 DEF TypeInv, TypeOK, OrderRows
  <2>3. new \in ItemMaps
    BY <2>1, <2>2, WithType, WithoutType
  <2>4. [row EXCEPT !.items = new] \in OrderRows
    BY <2>2, <2>3 DEF OrderRows
  <2>5. entity' = [entity EXCEPT ![p] = [row EXCEPT !.items = new]]
    BY <1>2 DEF ReloadOrder
  <2>6. TypeOK'
    BY <1>2, <2>4, <2>5 DEF TypeInv, TypeOK, ReloadOrder, slotVars
  <2>7. CallOK'
    BY <1>2 DEF TypeInv, TypeOK, CallOK, ReloadOrder
  <2>8. QED
    BY <2>6, <2>7 DEF TypeInv
<1>3. CASE Commit(p)
  <2>1. call[p].order \in Orders
    BY <1>3 DEF TypeInv, CallOK, Commit
  <2>2. SavedOrder(p) \in OrderRows
    <3>1. CASE call[p].op = "markItemPrepared"
      <4>1. /\ call[p].order \in DOMAIN orders /\ call[p].item \in Items
            /\ call[p].dishes \in DishCounts
        BY <1>3, <3>1 DEF TypeInv, TypeOK, CallOK, Commit, Calls
      <4>2. orders[call[p].order] \in OrderRows /\ orders[call[p].order].items \in ItemMaps
        BY <4>1 DEF TypeInv, TypeOK, OrderRows
      <4>3. With(orders[call[p].order].items, call[p].item, call[p].dishes) \in ItemMaps
        BY <4>1, <4>2, WithType
      <4>4. QED
        BY <3>1, <4>2, <4>3 DEF SavedOrder, OrderRows
    <3>2. CASE call[p].op # "markItemPrepared"
      BY <3>2 DEF SavedOrder, TypeInv, TypeOK
    <3>3. QED
      BY <3>1, <3>2
  <2>3. Finish(p)
    BY <1>3 DEF Commit
  <2>4. DOMAIN orders' \subseteq Orders /\ \A o \in DOMAIN orders' : orders'[o] \in OrderRows
    BY <1>3, <2>1, <2>2 DEF Commit, TypeInv, TypeOK
  <2>5. slotRows' \subseteq Slots /\ dishesBooked' \in [Slots -> Nat]
    BY <1>3 DEF Commit, TypeInv, TypeOK
  <2>6. maxDishesPerSlot' \in Capacities /\ peak' \in Nat
    BY <2>3 DEF Finish, TypeInv, TypeOK
  <2>7. TypeOK'
    BY <2>3, <2>4, <2>5, <2>6, FinishType DEF TypeOK
  <2>8. CallOK'
    BY <1>3, <2>3, FinishCall DEF Commit
  <2>9. QED
    BY <2>7, <2>8 DEF TypeInv
<1>4. QED
  BY <1>1, <1>2, <1>3

(***************************************************************************)
(* A transaction that fails leaves only what was there before.             *)
(***************************************************************************)
LEMMA RollbackType ==
  ASSUME TypeInv, NEW p \in Procs, Rollback(p)
  PROVE  TypeInv'
<1>1. Finish(p) /\ UNCHANGED <<orders, slotRows, dishesBooked>>
  BY DEF Rollback
<1>2. TypeOK'
  BY <1>1, FinishType DEF TypeInv, TypeOK, Finish
<1>3. CallOK'
  BY <1>1, FinishCall
<1>4. QED
  BY <1>2, <1>3 DEF TypeInv

(***************************************************************************)
(* Every step of the service keeps the types.                              *)
(***************************************************************************)
LEMMA TypeNext == TypeInv /\ [Next]_vars => TypeInv'
<1>. SUFFICES ASSUME TypeInv, [Next]_vars PROVE TypeInv'
  OBVIOUS
<1>1. CASE Reconfigure
  BY <1>1 DEF Reconfigure, TypeInv, TypeOK, CallOK, slotVars, callVars
<1>2. CASE UNCHANGED vars
  BY <1>2 DEF vars, TypeInv, TypeOK, CallOK, slotVars, callVars
<1>3. ASSUME NEW p \in Procs, Start(p) \/ SlotStep(p) \/ Continue(p) \/ Rollback(p)
      PROVE  TypeInv'
  <2>1. CASE Start(p)
    BY <2>1, StartType
  <2>2. CASE ReserveSlotCapacity(p) \/ ReleaseSlotCapacity(p)
    BY <2>2, SlotStepType
  <2>3. CASE GetOrgSchedulingConfig(p) \/ ReloadOrder(p) \/ Commit(p)
    BY <2>3, ContinueType
  <2>4. CASE Rollback(p)
    BY <2>4, RollbackType
  <2>5. QED
    BY <1>3, <2>1, <2>2, <2>3, <2>4
       DEF SlotStep, Continue, SlotCapacityExceeded, SaveRejected
<1>4. QED
  BY <1>1, <1>2, <1>3 DEF Next

(***************************************************************************)
(* The variables keep their types, counters of dishes stay natural, and a  *)
(* handler in flight names an order and an item that exist.                *)
(***************************************************************************)
THEOREM TypeCorrect == Spec => []TypeInv
BY TypeInit, TypeNext, PTL DEF Spec

(***************************************************************************)
(* In particular the type invariant the runs check.                        *)
(***************************************************************************)
THEOREM Typing == Spec => []TypeOK
BY TypeCorrect, PTL DEF TypeInv
-------------------------------------------------------------------------------
(* The limit *)

(***************************************************************************)
(* Nothing is booked at the start.                                         *)
(***************************************************************************)
LEMMA LimitInit == Init => LimitInv
<1>. SUFFICES ASSUME Init PROVE LimitInv
  OBVIOUS
<1>1. maxDishesPerSlot \in Nat
  BY DEF Init
<1>2. QED
  BY <1>1 DEF Init, LimitInv, LimitsKnown, CapacityNeverExceeded

(***************************************************************************)
(* A handler that starts has been told no limit and holds no row.          *)
(***************************************************************************)
LEMMA StartLimit ==
  ASSUME LimitInv, NEW p \in Procs, Start(p)
  PROVE  LimitInv'
<1>1. UNCHANGED <<slotVars, maxDishesPerSlot, peak, capacity>>
  BY DEF Start, Create, CreatePosOrder, Update, AddItem, RemoveItem, UpdateOrderItem,
         UpdatePaymentStatus, MarkItemPrepared, Begin
<1>2. QED
  BY <1>1 DEF LimitInv, LimitsKnown, CapacityNeverExceeded, slotVars

(***************************************************************************)
(* What reserveSlotCapacity writes passed the check against a limit that   *)
(* the handler knows; what releaseSlotCapacity writes is no more than what *)
(* was there.                                                              *)
(***************************************************************************)
LEMMA SlotStepLimit ==
  ASSUME TypeInv, LimitInv, NEW p \in Procs,
         ReserveSlotCapacity(p) \/ ReleaseSlotCapacity(p)
  PROVE  LimitInv'
<1>types. /\ peak \in Nat /\ capacity[p] \in Nat
          /\ dishesBooked \in [Slots -> Nat] /\ pending \in [Slots -> Nat]
          /\ \A st \in steps[p] : st.slot \in Slots /\ st.dishes \in Nat
  BY DEF TypeInv, TypeOK, Steps
<1>1. CASE ReserveSlotCapacity(p)
  <2>1. PICK st \in steps[p] :
          /\ HasRoom(dishesBooked[st.slot], st.dishes, capacity[p])
          /\ LockSlot(p, st, dishesBooked[st.slot] + st.dishes)
          /\ TakeStep(p, st)
    BY <1>1 DEF ReserveSlotCapacity
  <2>2. dishesBooked[st.slot] + st.dishes <= peak
    BY <1>types, <2>1 DEF HasRoom, LimitInv, LimitsKnown
  <2>3. \A s \in Slots : pending'[s] <= peak
    BY <1>types, <2>1, <2>2 DEF LockSlot, LimitInv, LimitsKnown
  <2>4. QED
    BY <2>1, <2>3 DEF TakeStep, LimitInv, LimitsKnown, CapacityNeverExceeded
<1>2. CASE ReleaseSlotCapacity(p)
  <2>1. PICK st \in steps[p] :
          /\ \/ LockSlot(p, st, Remaining(dishesBooked[st.slot], st.dishes))
             \/ UNCHANGED pending
          /\ TakeStep(p, st)
    BY <1>2 DEF ReleaseSlotCapacity
  <2>2. dishesBooked[st.slot] <= peak
    BY <1>types DEF LimitInv, CapacityNeverExceeded
  <2>3. Remaining(dishesBooked[st.slot], st.dishes) <= peak
    BY <1>types, <2>2 DEF Remaining
  <2>4. \A s \in Slots : pending'[s] <= peak
    BY <1>types, <2>1, <2>3 DEF LockSlot, LimitInv, LimitsKnown
  <2>5. QED
    BY <2>1, <2>4 DEF TakeStep, LimitInv, LimitsKnown, CapacityNeverExceeded
<1>3. QED
  BY <1>1, <1>2

(***************************************************************************)
(* A handler that ends forgets its limit and its counts.                   *)
(***************************************************************************)
LEMMA FinishLimit ==
  ASSUME TypeInv, LimitInv, NEW p \in Procs, Finish(p)
  PROVE  LimitsKnown' /\ peak' = peak
<1>1. peak \in Nat
  BY DEF TypeInv, TypeOK
<1>2. QED
  BY <1>1 DEF TypeInv, TypeOK, LimitInv, LimitsKnown, Finish

(***************************************************************************)
(* A limit a handler is told was configured, and what a commit publishes   *)
(* was checked against one.                                                *)
(***************************************************************************)
LEMMA ContinueLimit ==
  ASSUME TypeInv, LimitInv, NEW p \in Procs, Continue(p) \/ Rollback(p)
  PROVE  LimitInv'
<1>1. CASE GetOrgSchedulingConfig(p)
  BY <1>1 DEF GetOrgSchedulingConfig, TypeInv, TypeOK, LimitInv, LimitsKnown,
              CapacityNeverExceeded, slotVars
<1>2. CASE ReloadOrder(p)
  BY <1>2 DEF ReloadOrder, LimitInv, LimitsKnown, CapacityNeverExceeded, slotVars
<1>3. CASE Commit(p)
  <2>1. LimitsKnown' /\ peak' = peak
    BY <1>3, FinishLimit DEF Commit
  <2>2. \A s \in Slots : dishesBooked'[s] <= peak
    BY <1>3 DEF Commit, LimitInv, LimitsKnown, CapacityNeverExceeded
  <2>3. QED
    BY <2>1, <2>2 DEF LimitInv, CapacityNeverExceeded
<1>4. CASE Rollback(p)
  BY <1>4, FinishLimit DEF Rollback, LimitInv, CapacityNeverExceeded
<1>5. QED
  BY <1>1, <1>2, <1>3, <1>4 DEF Continue, SaveRejected

(***************************************************************************)
(* A new limit raises the peak or leaves it.                               *)
(***************************************************************************)
LEMMA ReconfigureLimit ==
  ASSUME TypeInv, LimitInv, Reconfigure
  PROVE  LimitInv'
<1>1. /\ peak' \in Nat /\ peak <= peak' /\ maxDishesPerSlot' <= peak'
      /\ UNCHANGED <<slotVars, capacity>>
  BY DEF Reconfigure, TypeInv, TypeOK, callVars
<1>2. /\ peak \in Nat /\ dishesBooked \in [Slots -> Nat] /\ pending \in [Slots -> Nat]
      /\ capacity \in [Procs -> Nat]
  BY DEF TypeInv, TypeOK
<1>3. \A s \in Slots : dishesBooked[s] <= peak /\ pending[s] <= peak
  BY DEF LimitInv, LimitsKnown, CapacityNeverExceeded
<1>4. \A p \in Procs : capacity[p] <= peak
  BY DEF LimitInv, LimitsKnown
<1>5. \A n \in Nat : n <= peak => n <= peak'
  BY <1>1, <1>2
<1>6. QED
  BY <1>1, <1>2, <1>3, <1>4, <1>5 DEF LimitInv, LimitsKnown, CapacityNeverExceeded, slotVars

(***************************************************************************)
(* Every step keeps committed and pending counts within the peak.          *)
(***************************************************************************)
LEMMA LimitNext == TypeInv /\ LimitInv /\ [Next]_vars => LimitInv'
<1>. SUFFICES ASSUME TypeInv, LimitInv, [Next]_vars PROVE LimitInv'
  OBVIOUS
<1>1. CASE UNCHANGED vars
  BY <1>1 DEF vars, LimitInv, LimitsKnown, CapacityNeverExceeded, slotVars, callVars
<1>2. CASE Reconfigure
  BY <1>2, ReconfigureLimit
<1>3. ASSUME NEW p \in Procs, Start(p) \/ SlotStep(p) \/ Continue(p) \/ Rollback(p)
      PROVE  LimitInv'
  BY <1>3, StartLimit, SlotStepLimit, ContinueLimit DEF SlotStep, SlotCapacityExceeded
<1>4. QED
  BY <1>1, <1>2, <1>3 DEF Next

(***************************************************************************)
(* reserveSlotCapacity: no slot is ever booked beyond the largest limit    *)
(* the organization has had, whatever overlaps.                            *)
(***************************************************************************)
THEOREM CapacitySafe == Spec => []CapacityNeverExceeded
<1>1. Spec => []LimitInv
  BY TypeCorrect, LimitInit, LimitNext, PTL DEF Spec
<1>2. QED
  BY <1>1, PTL DEF LimitInv

-------------------------------------------------------------------------------
(* Waiting for slots *)

(***************************************************************************)
(* At the start nobody holds a row.                                        *)
(***************************************************************************)
LEMMA LockInit == Init => LockInv
BY DEF Init, LockInv, StepsDistinct, LocksBehind

(***************************************************************************)
(* A handler that starts has its slots in ascending order and holds none   *)
(* of them.                                                                *)
(***************************************************************************)
LEMMA StartLocks ==
  ASSUME TypeInv, LockInv, NEW p \in Procs, Start(p)
  PROVE  LockInv'
<1>1. PICK c \in Calls, plan \in SUBSET Steps, needsConfig \in BOOLEAN, copy \in OrderRows :
        WellFormed(c, plan) /\ Begin(p, c, plan, needsConfig, copy)
  BY StartBegins DEF WellBegun
<1>2. StepsDistinct'
  BY <1>1 DEF TypeInv, TypeOK, LockInv, StepsDistinct, Begin, WellFormed
<1>3. LocksBehind'
  BY <1>1 DEF TypeInv, TypeOK, LockInv, LocksBehind, Begin, slotVars
<1>4. QED
  BY <1>2, <1>3 DEF LockInv

(***************************************************************************)
(* The step taken is the earliest, so the lock it leaves lies before the   *)
(* steps that remain.                                                      *)
(***************************************************************************)
LEMMA SlotStepLocks ==
  ASSUME TypeInv, LockInv, NEW p \in Procs,
         ReserveSlotCapacity(p) \/ ReleaseSlotCapacity(p)
  PROVE  LockInv'
<1>types. /\ steps \in [Procs -> SUBSET Steps] /\ lockedBy \in [Slots -> Procs \cup {None}]
          /\ pc \in [Procs -> {"idle", "config", "slots", "reload", "save"}]
          /\ \A q \in Procs : \A st \in steps[q] : st.slot \in Int
  BY DEF TypeInv, TypeOK, Steps, Slots
<1>1. PICK st \in steps[p], n \in Nat :
        /\ pc[p] = "slots"
        /\ EarliestFirst(steps[p], st)
        /\ LockSlot(p, st, n) \/ UNCHANGED <<lockedBy, pending>>
        /\ TakeStep(p, st)
  <2>1. CASE ReserveSlotCapacity(p)
    <3>1. PICK st \in steps[p] :
            /\ pc[p] = "slots" /\ EarliestFirst(steps[p], st)
            /\ LockSlot(p, st, dishesBooked[st.slot] + st.dishes)
            /\ TakeStep(p, st)
      BY <2>1 DEF ReserveSlotCapacity
    <3>2. dishesBooked[st.slot] + st.dishes \in Nat
      BY DEF TypeInv, TypeOK, Steps
    <3>3. QED
      BY <3>1, <3>2
  <2>2. CASE ReleaseSlotCapacity(p)
    <3>1. PICK st \in steps[p] :
            /\ pc[p] = "slots" /\ EarliestFirst(steps[p], st)
            /\ \/ LockSlot(p, st, Remaining(dishesBooked[st.slot], st.dishes))
               \/ UNCHANGED <<lockedBy, pending>>
            /\ TakeStep(p, st)
      BY <2>2 DEF ReleaseSlotCapacity
    <3>2. Remaining(dishesBooked[st.slot], st.dishes) \in Nat
      BY DEF TypeInv, TypeOK, Steps, Remaining
    <3>3. QED
      BY <3>1, <3>2
  <2>3. QED
    BY <2>1, <2>2
<1>2. steps' = [steps EXCEPT ![p] = steps[p] \ {st}]
      /\ pc' = [pc EXCEPT ![p] = Progress(call[p].op, steps[p] \ {st})]
  BY <1>1 DEF TakeStep
<1>3. Progress(call[p].op, steps[p] \ {st}) \in {"slots", "reload", "save"}
  BY ProgressType
<1>4. StepsDistinct'
  BY <1>types, <1>2 DEF LockInv, StepsDistinct
<1>5. \A other \in steps[p] \ {st} : st.slot < other.slot
  BY <1>types, <1>1 DEF EarliestFirst, LockInv, StepsDistinct
<1>6. lockedBy' = [lockedBy EXCEPT ![st.slot] = p] \/ lockedBy' = lockedBy
  BY <1>1 DEF LockSlot
<1>7. ASSUME NEW q \in Procs, NEW s \in Slots, lockedBy'[s] = q
      PROVE  /\ pc'[q] \in {"slots", "reload", "save"}
             /\ \A other \in steps'[q] : s < other.slot
  <2>1. CASE q # p
    BY <2>1, <1>types, <1>2, <1>6, <1>7 DEF LockInv, LocksBehind
  <2>2. CASE q = p /\ lockedBy[s] = p
    BY <2>2, <1>types, <1>2, <1>3 DEF LockInv, LocksBehind
  <2>3. CASE q = p /\ s = st.slot
    BY <2>3, <1>types, <1>2, <1>3, <1>5
  <2>4. QED
    BY <2>1, <2>2, <2>3, <1>types, <1>6, <1>7
<1>8. LocksBehind'
  BY <1>7 DEF LocksBehind
<1>9. QED
  BY <1>4, <1>8 DEF LockInv

(***************************************************************************)
(* A handler that ends holds no row.                                       *)
(***************************************************************************)
LEMMA FinishLocks ==
  ASSUME TypeInv, LockInv, NEW p \in Procs, Finish(p)
  PROVE  LockInv'
BY DEF TypeInv, TypeOK, LockInv, StepsDistinct, LocksBehind, Finish

(***************************************************************************)
(* Between slot steps and after the last of them no row is taken.          *)
(***************************************************************************)
LEMMA ContinueLocks ==
  ASSUME TypeInv, LockInv, NEW p \in Procs, Continue(p) \/ Rollback(p)
  PROVE  LockInv'
<1>1. CASE GetOrgSchedulingConfig(p)
  BY <1>1, ProgressType
     DEF GetOrgSchedulingConfig, TypeInv, TypeOK, LockInv, StepsDistinct, LocksBehind, slotVars
<1>2. CASE ReloadOrder(p)
  BY <1>2 DEF ReloadOrder, TypeInv, TypeOK, LockInv, StepsDistinct, LocksBehind, slotVars
<1>3. CASE Commit(p) \/ Rollback(p)
  BY <1>3, FinishLocks DEF Commit, Rollback
<1>4. QED
  BY <1>1, <1>2, <1>3 DEF Continue, SaveRejected

(***************************************************************************)
(* Every step keeps each handler's rows behind, in time, the slots it      *)
(* still has to lock.                                                      *)
(***************************************************************************)
LEMMA LockNext == TypeInv /\ LockInv /\ [Next]_vars => LockInv'
<1>. SUFFICES ASSUME TypeInv, LockInv, [Next]_vars PROVE LockInv'
  OBVIOUS
<1>1. CASE UNCHANGED vars \/ Reconfigure
  BY <1>1 DEF Reconfigure, vars, LockInv, StepsDistinct, LocksBehind, slotVars, callVars
<1>2. ASSUME NEW p \in Procs, Start(p) \/ SlotStep(p) \/ Continue(p) \/ Rollback(p)
      PROVE  LockInv'
  BY <1>2, StartLocks, SlotStepLocks, ContinueLocks DEF SlotStep, SlotCapacityExceeded
<1>3. QED
  BY <1>1, <1>2 DEF Next

(***************************************************************************)
(* If every handler of a set waited for another of the set, the slots they *)
(* wait for would have a largest one; but its holder waits for a later one.*)
(***************************************************************************)
LEMMA LocksAcyclic ==
  ASSUME TypeInv, LockInv
  PROVE  NoWaitCycle
<1>. SUFFICES ASSUME NEW P \in SUBSET Procs, P # {},
                     \A p \in P : \E q \in P : WaitsFor(p, q)
              PROVE  FALSE
  BY DEF NoWaitCycle
<1>. DEFINE Wanted == {s \in Slots : \E p, q \in P : \E st \in steps[p] :
                         /\ EarliestFirst(steps[p], st)
                         /\ st.slot = s /\ lockedBy[s] = q}
            Distances == {NumSlots - s : s \in Wanted}
<1>types. \A p \in Procs : \A st \in steps[p] : st.slot \in Slots
  BY DEF TypeInv, TypeOK, Steps
<1>1. \A p \in P : \E q \in P : \E st \in steps[p] :
        EarliestFirst(steps[p], st) /\ lockedBy[st.slot] = q
  BY DEF WaitsFor
<1>2. Wanted # {}
  <2>1. PICK p \in P : TRUE
    OBVIOUS
  <2>2. PICK q \in P : \E st \in steps[p] :
          EarliestFirst(steps[p], st) /\ lockedBy[st.slot] = q
    BY <1>1
  <2>3. PICK st \in steps[p] : EarliestFirst(steps[p], st) /\ lockedBy[st.slot] = q
    BY <2>2
  <2>4. st.slot \in Wanted
    BY <1>types, <2>3
  <2>5. QED
    BY <2>4
<1>3. Distances \subseteq Nat /\ Distances # {}
  BY <1>2 DEF Slots
<1>4. PICK d \in Distances : \A e \in Distances : ~ (<<e, d>> \in OpToRel(<, Nat))
  BY <1>3, NatLessThanWellFounded, WFMin
<1>5. PICK s \in Wanted : d = NumSlots - s
  OBVIOUS
<1>6. PICK q \in P : lockedBy[s] = q
  BY <1>5
<1>7. PICK st \in steps[q] : \E r \in P : EarliestFirst(steps[q], st) /\ lockedBy[st.slot] = r
  BY <1>1
<1>8. st.slot \in Wanted
  BY <1>7, <1>types
<1>9. s < st.slot
  BY <1>5, <1>6, <1>7 DEF LockInv, LocksBehind
<1>10. NumSlots - st.slot \in Distances /\ NumSlots - st.slot < d
  BY <1>5, <1>8, <1>9 DEF Slots
<1>11. <<NumSlots - st.slot, d>> \in OpToRel(<, Nat)
  BY <1>3, <1>10 DEF OpToRel
<1>12. QED
  BY <1>4, <1>10, <1>11

(***************************************************************************)
(* applyScheduleChange and the item handlers cannot deadlock on slots: no  *)
(* set of handlers, of any size, waits on itself.                          *)
(***************************************************************************)
THEOREM DeadlockFree == Spec => []NoWaitCycle
<1>1. Spec => []LockInv
  BY TypeCorrect, LockInit, LockNext, PTL DEF Spec
<1>2. QED
  BY <1>1, TypeCorrect, LocksAcyclic, PTL

-------------------------------------------------------------------------------
(* Counters and orders *)

\* The order a handler works on, as committed and as it is going to save it.
OldRow(rows, c) == IF c.order \in DOMAIN rows THEN rows[c.order] ELSE NoOrder
NewRow(old, c, copy) ==
  IF c.op \in {"addItem", "updateOrderItem", "markItemPrepared"}
  THEN [old EXCEPT !.items = With(old.items, c.item, c.dishes)]
  ELSE IF c.op = "removeItem" THEN [old EXCEPT !.items = Without(old.items, c.item)]
  ELSE copy
Delta(old, c, copy, s) == Contribution(NewRow(old, c, copy), s) - Contribution(old, s)

\* The steps left change slot s by delta.
Signed(st) == IF st.kind = "reserve" THEN st.dishes ELSE - st.dishes
Planned(left, s, delta) ==
  /\ \A st \in left : st.slot = s => delta = Signed(st)
  /\ (\A st \in left : st.slot # s) => delta = 0

\* For every slot, what p has written or is still going to write is what its
\* change of the order makes of the slot.
OnTrack(p) == pc[p] # "idle" =>
  LET old == OldRow(orders, call[p])
  IN /\ \A s \in Slots :
          LET delta == Delta(old, call[p], entity[p], s)
          IN IF lockedBy[s] = p THEN pending[s] = dishesBooked[s] + delta
                                ELSE Planned(steps[p], s, delta)
     /\ pc[p] \in {"reload", "save"} => steps[p] = {}
     /\ pc[p] = "save" /\ call[p].op \in ItemOps => entity[p] = NewRow(old, call[p], entity[p])

\* No two handlers in flight are for one order.
Apart == \A p, q \in Procs : p # q /\ call[p].order = call[q].order => call[p].order = None

Counted == \A s \in Slots :
  /\ dishesBooked[s] = Load(orders, s)
  /\ s \notin slotRows => dishesBooked[s] = 0

SerialInv == Apart /\ (\A p \in Procs : OnTrack(p)) /\ Counted

(***************************************************************************)
(* At the start there is nothing to count.                                 *)
(***************************************************************************)
LEMMA SerialInit == Init => SerialInv
<1>. SUFFICES ASSUME Init PROVE SerialInv
  OBVIOUS
<1>1. ASSUME NEW s \in Slots PROVE Load(orders, s) = 0
  <2>1. SlotDishes(orders, s) = {}
    BY DEF Init, SlotDishes
  <2>2. QED
    BY <2>1, FS_EmptySet DEF Load
<1>2. Counted
  BY <1>1 DEF Init, Counted
<1>3. Apart /\ \A p \in Procs : OnTrack(p)
  BY DEF Init, Apart, OnTrack, NoCall
<1>4. QED
  BY <1>2, <1>3 DEF SerialInv

(***************************************************************************)
(* Rows before and after a handler's change are orders, and their          *)
(* difference is a number of dishes.                                       *)
(***************************************************************************)
LEMMA RowTypes ==
  ASSUME TypeInv, NEW p \in Procs, pc[p] # "idle"
  PROVE  LET old == OldRow(orders, call[p])
             new == NewRow(old, call[p], entity[p])
         IN /\ old \in OrderRows /\ new \in OrderRows
            /\ \A s \in Slots : /\ Contribution(old, s) \in Nat /\ Contribution(new, s) \in Nat
                                /\ Delta(old, call[p], entity[p], s) \in Int
<1>. DEFINE old == OldRow(orders, call[p])
            new == NewRow(old, call[p], entity[p])
<1>1. old \in OrderRows /\ old.items \in ItemMaps
  BY NoOrderType DEF TypeInv, TypeOK, OldRow, OrderRows
<1>2. call[p].dishes \in DishCounts /\ entity[p] \in OrderRows
  BY DEF TypeInv, TypeOK, Calls
<1>3. call[p].op \in {"addItem", "updateOrderItem", "markItemPrepared"} => call[p].item \in Items
  BY DEF TypeInv, CallOK, ItemOps
<1>. HIDE DEF old
<1>4. new \in OrderRows
  <2>1. CASE call[p].op \in {"addItem", "updateOrderItem", "markItemPrepared"}
    <3>1. With(old.items, call[p].item, call[p].dishes) \in ItemMaps
      BY <1>1, <1>2, <1>3, <2>1, WithType
    <3>2. new = [old EXCEPT !.items = With(old.items, call[p].item, call[p].dishes)]
      BY <2>1 DEF NewRow
    <3>3. QED
      BY <1>1, <3>1, <3>2 DEF OrderRows
  <2>2. CASE call[p].op = "removeItem"
    <3>1. Without(old.items, call[p].item) \in ItemMaps
      BY <1>1, WithoutType
    <3>2. new = [old EXCEPT !.items = Without(old.items, call[p].item)]
      BY <2>2 DEF NewRow
    <3>3. QED
      BY <1>1, <3>1, <3>2 DEF OrderRows
  <2>3. CASE call[p].op \notin {"addItem", "updateOrderItem", "markItemPrepared", "removeItem"}
    BY <1>2, <2>3 DEF NewRow
  <2>4. QED
    BY <2>1, <2>2, <2>3
<1>. HIDE DEF new
<1>5. \A s \in Slots : Contribution(old, s) \in Nat /\ Contribution(new, s) \in Nat
  BY <1>1, <1>4, ContributionType
<1>6. \A s \in Slots : Delta(old, call[p], entity[p], s) = Contribution(new, s) - Contribution(old, s)
  BY DEF Delta, new
<1>7. \A s \in Slots : Delta(old, call[p], entity[p], s) \in Int
  BY <1>5, <1>6
<1>8. QED
  BY <1>1, <1>4, <1>5, <1>7 DEF old, new

(***************************************************************************)
(* A handler is not disturbed by others as long as they leave its order    *)
(* and the slots it has locked alone.                                      *)
(***************************************************************************)
LEMMA Undisturbed ==
  ASSUME NEW q \in Procs, OnTrack(q),
         pc'[q] = pc[q], call'[q] = call[q], steps'[q] = steps[q], entity'[q] = entity[q],
         pc[q] # "idle" => OldRow(orders', call[q]) = OldRow(orders, call[q]),
         \A s \in Slots : (lockedBy'[s] = q) <=> (lockedBy[s] = q),
         \A s \in Slots : lockedBy[s] = q =>
           pending'[s] = pending[s] /\ dishesBooked'[s] = dishesBooked[s]
  PROVE  OnTrack(q)'
BY DEF OnTrack

\* A plan that matches the change its handler is going to make, and an order
\* that no other handler works on.
PlansRight(c, plan, copy) ==
  \A s \in Slots : Planned(plan, s, Delta(OldRow(orders, c), c, copy, s))
Alone(c) == \A q \in Procs : call[q].order # c.order

(***************************************************************************)
(* Releasing takes n dishes from its slot, reserving adds them.            *)
(***************************************************************************)
LEMMA StepOf ==
  ASSUME NEW s, NEW n \in Nat
  PROVE  /\ \A st \in Release(s, n) : st.slot = s /\ n > 0 /\ Signed(st) = - n
         /\ \A st \in Reserve(s, n) : st.slot = s /\ n > 0 /\ Signed(st) = n
         /\ s # ForNow /\ n > 0 => (\E st \in Release(s, n) : st.slot = s)
         /\ s # ForNow /\ n > 0 => (\E st \in Reserve(s, n) : st.slot = s)
<1>1. ASSUME NEW st \in Release(s, n) PROVE st.slot = s /\ n > 0 /\ Signed(st) = - n
  <2>1. st = [slot |-> s, kind |-> "release", dishes |-> n] /\ n > 0
    BY <1>1 DEF Release
  <2>2. QED
    BY <2>1 DEF Signed
<1>2. ASSUME NEW st \in Reserve(s, n) PROVE st.slot = s /\ n > 0 /\ Signed(st) = n
  <2>1. st = [slot |-> s, kind |-> "reserve", dishes |-> n] /\ n > 0
    BY <1>2 DEF Reserve
  <2>2. QED
    BY <2>1 DEF Signed
<1>3. ASSUME s # ForNow, n > 0
      PROVE  (\E st \in Release(s, n) : st.slot = s) /\ (\E st \in Reserve(s, n) : st.slot = s)
  <2>1. [slot |-> s, kind |-> "release", dishes |-> n] \in Release(s, n)
    BY <1>3 DEF Release
  <2>2. [slot |-> s, kind |-> "reserve", dishes |-> n] \in Reserve(s, n)
    BY <1>3 DEF Reserve
  <2>3. QED
    BY <2>1, <2>2
<1>4. QED
  BY <1>1, <1>2, <1>3

(***************************************************************************)
(* Releasing dishes of one slot and reserving dishes of another.           *)
(***************************************************************************)
LEMMA PlanOf ==
  ASSUME NEW from \in Schedules, NEW to \in Schedules, NEW less \in Nat, NEW more \in Nat,
         from = to => (less = 0 \/ more = 0), NEW s \in Slots
  PROVE  Planned(Release(from, less) \cup Reserve(to, more), s,
                 (IF to = s THEN more ELSE 0) - (IF from = s THEN less ELSE 0))
<1>. DEFINE delta == (IF to = s THEN more ELSE 0) - (IF from = s THEN less ELSE 0)
            left == Release(from, less) \cup Reserve(to, more)
<1>1. s # ForNow
  BY DEF Slots, ForNow
<1>2. ASSUME NEW st \in left, st.slot = s PROVE delta = Signed(st)
  <2>1. CASE st \in Release(from, less)
    <3>1. from = s /\ less > 0 /\ Signed(st) = - less
      BY <1>2, <2>1, StepOf
    <3>2. to = s => more = 0
      BY <3>1
    <3>3. QED
      BY <3>1, <3>2
  <2>2. CASE st \in Reserve(to, more)
    <3>1. to = s /\ more > 0 /\ Signed(st) = more
      BY <1>2, <2>2, StepOf
    <3>2. from = s => less = 0
      BY <3>1
    <3>3. QED
      BY <3>1, <3>2
  <2>3. QED
    BY <2>1, <2>2
<1>3. ASSUME \A st \in left : st.slot # s PROVE delta = 0
  <2>1. from = s => less = 0
    BY <1>1, <1>3, StepOf
  <2>2. to = s => more = 0
    BY <1>1, <1>3, StepOf
  <2>3. QED
    BY <2>1, <2>2
<1>. HIDE DEF delta, left
<1>4. Planned(left, s, delta)
  BY <1>2, <1>3 DEF Planned
<1>5. QED
  BY <1>4 DEF delta, left

(***************************************************************************)
(* Nothing to do for a change that changes no slot.                        *)
(***************************************************************************)
LEMMA NoPlan ==
  ASSUME NEW s, NEW delta, delta = 0
  PROVE  Planned({}, s, delta)
BY DEF Planned

(***************************************************************************)
(* A change of an order's items changes its slot by the difference of      *)
(* dishes.                                                                 *)
(***************************************************************************)
LEMMA ItemsDelta ==
  ASSUME NEW old \in OrderRows, NEW items \in ItemMaps, NEW c, NEW copy, NEW s \in Slots,
         NewRow(old, c, copy) = [old EXCEPT !.items = items]
  PROVE  Delta(old, c, copy, s) =
           IF old.scheduledFor = s THEN countDishes(items) - countDishes(old.items) ELSE 0
<1>1. PICK new : new = NewRow(old, c, copy)
  OBVIOUS
<1>2. new.scheduledFor = old.scheduledFor /\ new.items = items
  BY <1>1 DEF OrderRows
<1>3. countDishes(items) \in Nat
  BY CountDishesType
<1>4. countDishes(old.items) \in Nat
  BY CountDishesType DEF OrderRows
<1>5. QED
  BY <1>1, <1>2, <1>3, <1>4 DEF Delta, Contribution

(***************************************************************************)
(* create reserves what it will insert; update moves the order's dishes    *)
(* from one slot to another; both POS creation and payments change none.   *)
(***************************************************************************)
LEMMA OrderPlans ==
  ASSUME TypeInv, SerialPerOrder, NEW p \in Procs,
         Create(p) \/ CreatePosOrder(p) \/ Update(p) \/ UpdatePaymentStatus(p)
  PROVE  \E c, plan, needsConfig, copy :
           Begin(p, c, plan, needsConfig, copy) /\ Alone(c) /\ PlansRight(c, plan, copy)
<1>rows. \A o \in DOMAIN orders :
         /\ orders[o] \in OrderRows /\ orders[o].scheduledFor \in Schedules
         /\ orders[o].items \in ItemMaps /\ countDishes(orders[o].items) \in Nat
  BY CountDishesType DEF TypeInv, TypeOK, OrderRows
<1>none. \A s \in Slots : Contribution(NoOrder, s) = 0
  BY DEF Contribution, NoOrder, Slots, ForNow
<1>1. CASE Create(p)
  <2>1. PICK o \in Orders, s0 \in Schedules, new \in SUBSET Items :
          /\ NewOrder(o)
          /\ \E items \in [new -> DishCounts] :
               Begin(p, OrderCall("create", o),
                     Reserve(s0, countDishes(items)), s0 # ForNow,
                     [scheduledFor |-> s0, items |-> items])
    BY <1>1 DEF Create
  <2>2. PICK items \in [new -> DishCounts] :
          Begin(p, OrderCall("create", o),
                Reserve(s0, countDishes(items)), s0 # ForNow,
                [scheduledFor |-> s0, items |-> items])
    BY <2>1
  <2>3. PICK n \in Nat : n = countDishes(items)
    BY ItemMapsIntro, CountDishesType
  <2>4. PICK c : c = OrderCall("create", o)
    OBVIOUS
  <2>5. PICK copy : copy = [scheduledFor |-> s0, items |-> items]
    OBVIOUS
  <2>6. Alone(c)
    BY <2>1, <2>4 DEF Alone, NewOrder, OrderCall
  <2>7. OldRow(orders, c) = NoOrder /\ NewRow(NoOrder, c, copy) = copy
    BY <2>1, <2>4 DEF OldRow, NewRow, OrderCall, NewOrder
  <2>8. \A s \in Slots : Delta(NoOrder, c, copy, s) = IF s0 = s THEN n ELSE 0
    BY <1>none, <2>3, <2>5, <2>7 DEF Delta, Contribution
  <2>9. PlansRight(c, Reserve(s0, n), copy)
    <3>1. SUFFICES ASSUME NEW s \in Slots PROVE Planned(Reserve(s0, n), s, Delta(NoOrder, c, copy, s))
      BY <2>7 DEF PlansRight
    <3>2. Planned(Release(ForNow, 0) \cup Reserve(s0, n), s,
                  (IF s0 = s THEN n ELSE 0) - (IF ForNow = s THEN 0 ELSE 0))
      BY PlanOf DEF Schedules
    <3>3. Release(ForNow, 0) \cup Reserve(s0, n) = Reserve(s0, n)
      BY DEF Release
    <3>4. (IF s0 = s THEN n ELSE 0) - (IF ForNow = s THEN 0 ELSE 0) = Delta(NoOrder, c, copy, s)
      BY <2>8
    <3>5. QED
      BY <3>2, <3>3, <3>4
  <2>10. QED
    BY <2>2, <2>3, <2>4, <2>5, <2>6, <2>9
<1>2. CASE CreatePosOrder(p)
  <2>1. PICK o \in Orders, s0 \in Schedules :
          /\ NewOrder(o)
          /\ Begin(p, OrderCall("createPosOrder", o),
                   {}, s0 # ForNow, [scheduledFor |-> s0, items |-> NoOrder.items])
    BY <1>2 DEF CreatePosOrder
  <2>2. PICK c : c = OrderCall("createPosOrder", o)
    OBVIOUS
  <2>3. PICK copy : copy = [scheduledFor |-> s0, items |-> NoOrder.items]
    OBVIOUS
  <2>4. Alone(c)
    BY <2>1, <2>2 DEF Alone, NewOrder, OrderCall
  <2>5. OldRow(orders, c) = NoOrder /\ NewRow(NoOrder, c, copy) = copy
    BY <2>1, <2>2 DEF OldRow, NewRow, OrderCall, NewOrder
  <2>6. countDishes(NoOrder.items) = 0
    BY CountNothing DEF NoOrder
  <2>7. \A s \in Slots : Delta(NoOrder, c, copy, s) = 0
    BY <1>none, <2>3, <2>5, <2>6 DEF Delta, Contribution
  <2>8. PlansRight(c, {}, copy)
    BY <2>5, <2>7, NoPlan DEF PlansRight
  <2>9. QED
    BY <2>1, <2>2, <2>3, <2>4, <2>8
<1>3. CASE Update(p)
  <2>. DEFINE Plan(o, s0) ==
         IF s0 # orders[o].scheduledFor
         THEN SchedulePlan(orders[o].scheduledFor, s0, countDishes(orders[o].items)) ELSE {}
  <2>1. PICK o \in DOMAIN orders, s0 \in Schedules :
          /\ MayHandle(o)
          /\ Begin(p, OrderCall("update", o), Plan(o, s0),
                   s0 # orders[o].scheduledFor, [orders[o] EXCEPT !.scheduledFor = s0])
    BY <1>3 DEF Update
  <2>2. PICK c : c = OrderCall("update", o)
    OBVIOUS
  <2>3. PICK copy : copy = [orders[o] EXCEPT !.scheduledFor = s0]
    OBVIOUS
  <2>4. PICK old \in OrderRows : old = orders[o]
    BY <1>rows
  <2>5. PICK n \in Nat : n = countDishes(old.items)
    BY <1>rows, <2>4
  <2>6. Alone(c)
    BY <2>1, <2>2 DEF Alone, MayHandle, OrderCall
  <2>7. OldRow(orders, c) = old /\ NewRow(old, c, copy) = copy
    BY <2>1, <2>2, <2>4 DEF OldRow, NewRow, OrderCall
  <2>8. copy.scheduledFor = s0 /\ copy.items = old.items
    BY <2>3, <2>4 DEF OrderRows
  <2>9. \A s \in Slots :
          Delta(old, c, copy, s) = (IF s0 = s THEN n ELSE 0) - (IF old.scheduledFor = s THEN n ELSE 0)
    BY <2>5, <2>7, <2>8 DEF Delta, Contribution
  <2>10. PlansRight(c, Plan(o, s0), copy)
    <3>1. SUFFICES ASSUME NEW s \in Slots PROVE Planned(Plan(o, s0), s, Delta(old, c, copy, s))
      BY <2>7 DEF PlansRight
    <3>2. CASE s0 = old.scheduledFor
      <4>1. Plan(o, s0) = {} /\ Delta(old, c, copy, s) = 0
        BY <2>4, <2>9, <3>2
      <4>2. QED
        BY <4>1, NoPlan
    <3>3. CASE s0 # old.scheduledFor
      <4>1. Plan(o, s0) = Release(old.scheduledFor, n) \cup Reserve(s0, n)
        BY <2>4, <2>5, <3>3 DEF SchedulePlan
      <4>2. old.scheduledFor \in Schedules
        BY DEF OrderRows
      <4>3. Planned(Release(old.scheduledFor, n) \cup Reserve(s0, n), s,
                    (IF s0 = s THEN n ELSE 0) - (IF old.scheduledFor = s THEN n ELSE 0))
        BY <3>3, <4>2, PlanOf
      <4>4. QED
        BY <2>9, <4>1, <4>3
    <3>4. QED
      BY <3>2, <3>3
  <2>. HIDE DEF Plan
  <2>11. QED
    BY <2>1, <2>2, <2>3, <2>6, <2>10
<1>4. CASE UpdatePaymentStatus(p)
  <2>1. PICK o \in DOMAIN orders :
          MayHandle(o) /\ Begin(p, OrderCall("updatePaymentStatus", o), {}, FALSE, orders[o])
    BY <1>4 DEF UpdatePaymentStatus
  <2>2. PICK c : c = OrderCall("updatePaymentStatus", o)
    OBVIOUS
  <2>3. Alone(c)
    BY <2>1, <2>2 DEF Alone, MayHandle, OrderCall
  <2>4. OldRow(orders, c) = orders[o] /\ NewRow(orders[o], c, orders[o]) = orders[o]
    BY <2>1, <2>2 DEF OldRow, NewRow, OrderCall
  <2>5. \A s \in Slots : Delta(orders[o], c, orders[o], s) = 0
    <3>1. \A s \in Slots : Contribution(orders[o], s) \in Nat
      BY <1>rows, ContributionType
    <3>2. QED
      BY <2>4, <3>1 DEF Delta
  <2>6. PlansRight(c, {}, orders[o])
    BY <2>4, <2>5, NoPlan DEF PlansRight
  <2>7. QED
    BY <2>1, <2>2, <2>3, <2>6
<1>5. QED
  BY <1>1, <1>2, <1>3, <1>4

(***************************************************************************)
(* An item handler releases or reserves, on its order's slot, as many      *)
(* dishes as the items lose or gain.                                       *)
(***************************************************************************)
LEMMA ItemPlanRight ==
  ASSUME NEW old \in OrderRows, NEW items \in ItemMaps, NEW c, NEW copy,
         NewRow(old, c, copy) = [old EXCEPT !.items = items],
         NEW less \in Nat, NEW more \in Nat, less = 0 \/ more = 0,
         countDishes(items) = countDishes(old.items) + more - less, NEW s \in Slots
  PROVE  Planned(Release(old.scheduledFor, less) \cup Reserve(old.scheduledFor, more), s,
                 Delta(old, c, copy, s))
<1>1. old.scheduledFor \in Schedules /\ countDishes(old.items) \in Nat
  BY CountDishesType DEF OrderRows
<1>2. Delta(old, c, copy, s) =
        IF old.scheduledFor = s THEN countDishes(items) - countDishes(old.items) ELSE 0
  BY ItemsDelta
<1>3. Delta(old, c, copy, s) = (IF old.scheduledFor = s THEN more ELSE 0)
                               - (IF old.scheduledFor = s THEN less ELSE 0)
  BY <1>1, <1>2
<1>4. Planned(Release(old.scheduledFor, less) \cup Reserve(old.scheduledFor, more), s,
              (IF old.scheduledFor = s THEN more ELSE 0)
              - (IF old.scheduledFor = s THEN less ELSE 0))
  BY <1>1, PlanOf
<1>5. QED
  BY <1>3, <1>4

(***************************************************************************)
(* addItem, removeItem and updateOrderItem plan the difference their item  *)
(* makes, and markItemPrepared makes none.                                 *)
(***************************************************************************)
LEMMA ItemPlans ==
  ASSUME TypeInv, SerialPerOrder, NEW p \in Procs,
         AddItem(p) \/ RemoveItem(p) \/ UpdateOrderItem(p) \/ MarkItemPrepared(p)
  PROVE  \E c, plan, needsConfig, copy :
           Begin(p, c, plan, needsConfig, copy) /\ Alone(c) /\ PlansRight(c, plan, copy)
<1>rows. \A o \in DOMAIN orders :
         /\ orders[o] \in OrderRows /\ orders[o].scheduledFor \in Schedules
         /\ orders[o].items \in ItemMaps /\ countDishes(orders[o].items) \in Nat
  BY CountDishesType DEF TypeInv, TypeOK, OrderRows
<1>items. \A o \in DOMAIN orders : \A i \in DOMAIN orders[o].items :
         i \in Items /\ orders[o].items[i] \in DishCounts
  BY <1>rows, ItemMapsShape
<1>nothing. \A s \in Schedules : Release(s, 0) = {} /\ Reserve(s, 0) = {}
  BY DEF Release, Reserve
<1>1. CASE AddItem(p)
  <2>1. PICK o \in DOMAIN orders, i \in Items, d \in DishCounts :
          /\ MayHandle(o) /\ NewItem(i)
          /\ Begin(p, [op |-> "addItem", order |-> o, item |-> i, dishes |-> d],
                   Reserve(orders[o].scheduledFor, d),
                   Reserve(orders[o].scheduledFor, d) # {}, NoOrder)
    BY <1>1 DEF AddItem
  <2>2. PICK c : c = [op |-> "addItem", order |-> o, item |-> i, dishes |-> d]
    OBVIOUS
  <2>3. PICK old \in OrderRows : old = orders[o]
    BY <1>rows
  <2>4. PICK items \in ItemMaps : items = With(old.items, i, d)
    BY WithType DEF OrderRows
  <2>5. Alone(c) /\ OldRow(orders, c) = old
    BY <2>1, <2>2, <2>3 DEF Alone, MayHandle, OldRow
  <2>6. NewRow(old, c, NoOrder) = [old EXCEPT !.items = items]
    BY <2>2, <2>4 DEF NewRow
  <2>7. countDishes(items) = countDishes(old.items) + d - 0 /\ d \in Nat
    <3>1. i \notin DOMAIN old.items
      BY <2>1, <2>3 DEF NewItem
    <3>2. countDishes(items) = countDishes(old.items) + d
      BY <2>4, <3>1, CountWithNew DEF OrderRows
    <3>3. QED
      BY <1>rows, <2>3, <3>2 DEF DishCounts
  <2>8. \A s \in Slots : Planned(Release(old.scheduledFor, 0) \cup Reserve(old.scheduledFor, d), s,
                                Delta(old, c, NoOrder, s))
    BY <2>6, <2>7, ItemPlanRight
  <2>9. Release(old.scheduledFor, 0) \cup Reserve(old.scheduledFor, d) = Reserve(old.scheduledFor, d)
    BY <1>nothing DEF OrderRows
  <2>10. PlansRight(c, Reserve(old.scheduledFor, d), NoOrder)
    BY <2>5, <2>8, <2>9 DEF PlansRight
  <2>11. QED
    BY <2>1, <2>2, <2>3, <2>5, <2>10
<1>2. CASE RemoveItem(p)
  <2>1. PICK o \in DOMAIN orders : MayHandle(o) /\ \E i \in DOMAIN orders[o].items :
          Begin(p, [op |-> "removeItem", order |-> o, item |-> i, dishes |-> 0],
                Release(orders[o].scheduledFor, orders[o].items[i]), FALSE, NoOrder)
    BY <1>2 DEF RemoveItem
  <2>2. PICK i \in DOMAIN orders[o].items :
          Begin(p, [op |-> "removeItem", order |-> o, item |-> i, dishes |-> 0],
                Release(orders[o].scheduledFor, orders[o].items[i]), FALSE, NoOrder)
    BY <2>1
  <2>3. PICK c : c = [op |-> "removeItem", order |-> o, item |-> i, dishes |-> 0]
    OBVIOUS
  <2>4. PICK old \in OrderRows : old = orders[o]
    BY <1>rows
  <2>5. PICK items \in ItemMaps : items = Without(old.items, i)
    BY WithoutType DEF OrderRows
  <2>6. Alone(c) /\ OldRow(orders, c) = old
    BY <2>1, <2>3, <2>4 DEF Alone, MayHandle, OldRow
  <2>7. NewRow(old, c, NoOrder) = [old EXCEPT !.items = items]
    BY <2>3, <2>5 DEF NewRow
  <2>8. PICK n \in Nat : n = old.items[i]
    BY <1>items, <2>4 DEF DishCounts
  <2>9. countDishes(items) = countDishes(old.items) + 0 - n
    <3>1. countDishes(items) + n = countDishes(old.items)
      BY <2>4, <2>5, <2>8, CountWithout DEF OrderRows
    <3>2. countDishes(items) \in Nat /\ countDishes(old.items) \in Nat
      BY CountDishesType DEF OrderRows
    <3>3. QED
      BY <3>1, <3>2
  <2>10. \A s \in Slots : Planned(Release(old.scheduledFor, n) \cup Reserve(old.scheduledFor, 0), s,
                                 Delta(old, c, NoOrder, s))
    BY <2>7, <2>9, ItemPlanRight
  <2>11. Release(old.scheduledFor, n) \cup Reserve(old.scheduledFor, 0) = Release(old.scheduledFor, n)
    BY <1>nothing DEF OrderRows
  <2>12. PlansRight(c, Release(old.scheduledFor, n), NoOrder)
    BY <2>6, <2>10, <2>11 DEF PlansRight
  <2>13. QED
    BY <2>2, <2>3, <2>4, <2>6, <2>8, <2>12
<1>3. CASE UpdateOrderItem(p)
  <2>. DEFINE D(o, i, d) == d - orders[o].items[i]
              Plan(o, i, d) == Reserve(orders[o].scheduledFor, D(o, i, d))
                               \cup Release(orders[o].scheduledFor, -D(o, i, d))
  <2>1. PICK o \in DOMAIN orders : MayHandle(o) /\ \E i \in DOMAIN orders[o].items, d \in DishCounts :
          Begin(p, [op |-> "updateOrderItem", order |-> o, item |-> i, dishes |-> d],
                Plan(o, i, d), Reserve(orders[o].scheduledFor, D(o, i, d)) # {}, NoOrder)
    BY <1>3 DEF UpdateOrderItem
  <2>2. PICK i \in DOMAIN orders[o].items, d \in DishCounts :
          Begin(p, [op |-> "updateOrderItem", order |-> o, item |-> i, dishes |-> d],
                Plan(o, i, d), Reserve(orders[o].scheduledFor, D(o, i, d)) # {}, NoOrder)
    BY <2>1
  <2>3. PICK c : c = [op |-> "updateOrderItem", order |-> o, item |-> i, dishes |-> d]
    OBVIOUS
  <2>4. PICK old \in OrderRows : old = orders[o]
    BY <1>rows
  <2>5. PICK items \in ItemMaps : items = With(old.items, i, d)
    BY <1>items, WithType DEF OrderRows
  <2>6. Alone(c) /\ OldRow(orders, c) = old
    BY <2>1, <2>3, <2>4 DEF Alone, MayHandle, OldRow
  <2>7. NewRow(old, c, NoOrder) = [old EXCEPT !.items = items]
    BY <2>3, <2>5 DEF NewRow
  <2>8. PICK n \in Nat : n = old.items[i] /\ d \in Nat
    BY <1>items, <2>4 DEF DishCounts
  <2>9. PICK more \in Nat : more = IF d >= n THEN d - n ELSE 0
    BY <2>8
  <2>10. PICK less \in Nat : less = IF d >= n THEN 0 ELSE n - d
    BY <2>8
  <2>11. countDishes(items) = countDishes(old.items) + more - less
    <3>1. countDishes(items) = countDishes(old.items) - n + d
      BY <2>4, <2>5, <2>8, CountWithOld DEF OrderRows
    <3>2. countDishes(old.items) \in Nat
      BY CountDishesType DEF OrderRows
    <3>3. QED
      BY <2>8, <2>9, <2>10, <3>1, <3>2
  <2>12. less = 0 \/ more = 0
    BY <2>9, <2>10
  <2>13. \A s \in Slots : Planned(Release(old.scheduledFor, less) \cup Reserve(old.scheduledFor, more), s,
                                 Delta(old, c, NoOrder, s))
    BY <2>7, <2>11, <2>12, ItemPlanRight
  <2>14. Plan(o, i, d) = Release(old.scheduledFor, less) \cup Reserve(old.scheduledFor, more)
    <3>1. D(o, i, d) = d - n
      BY <2>4, <2>8
    <3>2. Reserve(old.scheduledFor, d - n) = Reserve(old.scheduledFor, more)
      <4>1. CASE d >= n
        BY <2>9, <4>1
      <4>2. CASE ~ (d >= n)
        BY <2>8, <2>9, <4>2 DEF Reserve
      <4>3. QED
        BY <4>1, <4>2
    <3>3. Release(old.scheduledFor, - (d - n)) = Release(old.scheduledFor, less)
      <4>1. CASE d >= n
        BY <2>8, <2>10, <4>1 DEF Release
      <4>2. CASE ~ (d >= n)
        <5>1. - (d - n) = less
          BY <2>8, <2>10, <4>2
        <5>2. QED
          BY <5>1
      <4>3. QED
        BY <4>1, <4>2
    <3>4. QED
      BY <2>4, <3>1, <3>2, <3>3
  <2>. HIDE DEF Plan
  <2>15. PlansRight(c, Plan(o, i, d), NoOrder)
    BY <2>6, <2>13, <2>14 DEF PlansRight
  <2>16. QED
    BY <2>2, <2>3, <2>6, <2>15
<1>4. CASE MarkItemPrepared(p)
  <2>1. PICK o \in DOMAIN orders : MayHandle(o) /\ \E i \in DOMAIN orders[o].items :
          Begin(p, [op |-> "markItemPrepared", order |-> o, item |-> i,
                    dishes |-> orders[o].items[i]], {}, FALSE, NoOrder)
    BY <1>4 DEF MarkItemPrepared
  <2>2. PICK i \in DOMAIN orders[o].items :
          Begin(p, [op |-> "markItemPrepared", order |-> o, item |-> i,
                    dishes |-> orders[o].items[i]], {}, FALSE, NoOrder)
    BY <2>1
  <2>3. PICK old \in OrderRows : old = orders[o]
    BY <1>rows
  <2>4. PICK d \in DishCounts : d = old.items[i]
    BY <1>items, <2>3
  <2>5. PICK c : c = [op |-> "markItemPrepared", order |-> o, item |-> i, dishes |-> d]
    OBVIOUS
  <2>6. PICK items \in ItemMaps : items = With(old.items, i, d)
    BY <1>items, WithType DEF OrderRows
  <2>7. Alone(c) /\ OldRow(orders, c) = old
    BY <2>1, <2>3, <2>5 DEF Alone, MayHandle, OldRow
  <2>8. NewRow(old, c, NoOrder) = [old EXCEPT !.items = items]
    BY <2>5, <2>6 DEF NewRow
  <2>9. countDishes(items) = countDishes(old.items) + 0 - 0
    <3>1. countDishes(items) = countDishes(old.items) - d + d
      BY <2>3, <2>4, <2>6, CountWithOld DEF OrderRows
    <3>2. countDishes(old.items) \in Nat /\ d \in Nat
      BY CountDishesType DEF OrderRows, DishCounts
    <3>3. QED
      BY <3>1, <3>2
  <2>10. \A s \in Slots : Planned(Release(old.scheduledFor, 0) \cup Reserve(old.scheduledFor, 0), s,
                                 Delta(old, c, NoOrder, s))
    BY <2>8, <2>9, ItemPlanRight
  <2>11. Release(old.scheduledFor, 0) \cup Reserve(old.scheduledFor, 0) = {}
    BY <1>nothing DEF OrderRows
  <2>12. PlansRight(c, {}, NoOrder)
    BY <2>7, <2>10, <2>11 DEF PlansRight
  <2>13. QED
    BY <2>2, <2>3, <2>4, <2>5, <2>7, <2>12
<1>5. QED
  BY <1>1, <1>2, <1>3, <1>4

(***************************************************************************)
(* A handler starts with the right plan, and holds no slot.                *)
(***************************************************************************)
LEMMA StartSerial ==
  ASSUME TypeInv, LockInv, SerialPerOrder, SerialInv, NEW p \in Procs, Start(p)
  PROVE  SerialInv'
<1>1. PICK c, plan, needsConfig, copy :
        Begin(p, c, plan, needsConfig, copy) /\ Alone(c) /\ PlansRight(c, plan, copy)
  BY OrderPlans, ItemPlans DEF Start
<1>2. /\ pc[p] = "idle" /\ UNCHANGED <<orders, slotRows, dishesBooked, lockedBy, pending>>
      /\ call' = [call EXCEPT ![p] = c] /\ steps' = [steps EXCEPT ![p] = plan]
      /\ entity' = [entity EXCEPT ![p] = copy]
      /\ pc' = [pc EXCEPT ![p] = IF needsConfig THEN "config" ELSE Progress(c.op, plan)]
  BY <1>1 DEF Begin, slotVars
<1>3. /\ call'[p] = c /\ steps'[p] = plan /\ entity'[p] = copy
      /\ pc'[p] = IF needsConfig THEN "config" ELSE Progress(c.op, plan)
      /\ \A q \in Procs : q # p => pc'[q] = pc[q] /\ call'[q] = call[q]
                                     /\ steps'[q] = steps[q] /\ entity'[q] = entity[q]
  BY <1>2 DEF TypeInv, TypeOK
<1>4. Apart'
  BY <1>1, <1>3 DEF SerialInv, Apart, Alone
<1>5. OnTrack(p)'
  <2>1. \A s \in Slots : lockedBy'[s] # p
    BY <1>2 DEF LockInv, LocksBehind
  <2>2. \A s \in Slots : Planned(steps'[p], s, Delta(OldRow(orders', call'[p]), call'[p], entity'[p], s))
    BY <1>1, <1>2, <1>3 DEF PlansRight
  <2>3. pc'[p] \in {"reload", "save"} => steps'[p] = {}
    BY <1>3 DEF Progress
  <2>4. ~ (pc'[p] = "save" /\ call'[p].op \in ItemOps)
    BY <1>3 DEF Progress
  <2>5. QED
    BY <2>1, <2>2, <2>3, <2>4 DEF OnTrack
<1>6. ASSUME NEW q \in Procs, q # p PROVE OnTrack(q)'
  BY <1>2, <1>3, <1>6, Undisturbed DEF SerialInv
<1>7. Counted'
  BY <1>2 DEF SerialInv, Counted
<1>8. QED
  BY <1>4, <1>5, <1>6, <1>7 DEF SerialInv

(***************************************************************************)
(* A slot's counter holds at least what one order contributes, so that     *)
(* releaseSlotCapacity never has to clamp.                                 *)
(***************************************************************************)
LEMMA CounterCoversOrder ==
  ASSUME TypeInv, SerialInv, NEW p \in Procs, pc[p] # "idle", NEW s \in Slots
  PROVE  dishesBooked[s] >= Contribution(OldRow(orders, call[p]), s)
<1>. DEFINE o == call[p].order
<1>1. Table(orders)
  BY DEF TypeInv, TypeOK, Table
<1>2. dishesBooked[s] = Load(orders, s) /\ dishesBooked[s] \in Nat
  BY DEF SerialInv, Counted, TypeInv, TypeOK
<1>3. CASE o \in DOMAIN orders
  <2>1. Load(orders, s) = Cardinality(DishesWithout(orders, o, s)) + Contribution(orders[o], s)
    BY <1>1, <1>3, LoadSplit
  <2>2. Cardinality(DishesWithout(orders, o, s)) \in Nat
    BY <1>1, OthersFinite
  <2>3. Contribution(orders[o], s) \in Nat
    BY <1>1, <1>3, ContributionType DEF Table
  <2>4. QED
    BY <1>2, <1>3, <2>1, <2>2, <2>3 DEF OldRow
<1>4. CASE o \notin DOMAIN orders
  <2>1. Contribution(NoOrder, s) = 0
    BY DEF Contribution, NoOrder, Slots, ForNow
  <2>2. QED
    BY <1>2, <1>4, <2>1 DEF OldRow
<1>5. QED
  BY <1>3, <1>4

(***************************************************************************)
(* Taking a step turns what was planned for its slot into what is written, *)
(* or finds that there was nothing to write.                               *)
(***************************************************************************)
LEMMA TakeStepSerial ==
  ASSUME TypeInv, LockInv, SerialInv, NEW p \in Procs, NEW st \in steps[p], pc[p] = "slots",
         TakeStep(p, st),
         \/ LockFree(st.slot) /\ LockSlot(p, st, dishesBooked[st.slot] + Signed(st))
         \/ UNCHANGED <<lockedBy, pending>> /\ Signed(st) = 0
  PROVE  SerialInv'
<1>1. /\ UNCHANGED <<orders, slotRows, dishesBooked, call, entity>>
      /\ steps' = [steps EXCEPT ![p] = steps[p] \ {st}]
      /\ pc' = [pc EXCEPT ![p] = Progress(call[p].op, steps[p] \ {st})]
  BY DEF TakeStep
<1>2. /\ steps'[p] = steps[p] \ {st} /\ pc'[p] = Progress(call[p].op, steps[p] \ {st})
      /\ \A q \in Procs : q # p => pc'[q] = pc[q] /\ steps'[q] = steps[q]
  BY <1>1 DEF TypeInv, TypeOK
<1>3. st.slot \in Slots
  BY DEF TypeInv, TypeOK, Steps
<1>4. \/ /\ lockedBy[st.slot] = None /\ lockedBy'[st.slot] = p
         /\ pending'[st.slot] = dishesBooked[st.slot] + Signed(st)
         /\ \A s \in Slots : s # st.slot => lockedBy'[s] = lockedBy[s] /\ pending'[s] = pending[s]
      \/ UNCHANGED <<lockedBy, pending>> /\ Signed(st) = 0
  BY <1>3 DEF LockFree, LockSlot, TypeInv, TypeOK
<1>5. \A q \in Procs : lockedBy[st.slot] = None => lockedBy[st.slot] # q
  OBVIOUS
<1>6. ASSUME NEW q \in Procs, q # p PROVE OnTrack(q)'
  <2>1. \A s \in Slots : lockedBy'[s] = q <=> lockedBy[s] = q
    BY <1>4, <1>5, <1>6
  <2>2. \A s \in Slots : lockedBy[s] = q => pending'[s] = pending[s] /\ dishesBooked'[s] = dishesBooked[s]
    BY <1>1, <1>4, <1>5, <1>6
  <2>3. QED
    BY <1>1, <1>2, <1>6, <2>1, <2>2, Undisturbed DEF SerialInv
<1>7. OnTrack(p)'
  <2>. DEFINE delta(s) == Delta(OldRow(orders, call[p]), call[p], entity[p], s)
  <2>1. ASSUME NEW s \in Slots
        PROVE  IF lockedBy'[s] = p THEN pending'[s] = dishesBooked'[s] + delta(s)
                                   ELSE Planned(steps'[p], s, delta(s))
    <3>1. IF lockedBy[s] = p THEN pending[s] = dishesBooked[s] + delta(s)
                             ELSE Planned(steps[p], s, delta(s))
      BY DEF SerialInv, OnTrack
    <3>. HIDE DEF delta
    <3>2. CASE s # st.slot
      <4>1. lockedBy'[s] = lockedBy[s] /\ pending'[s] = pending[s]
        BY <1>4, <3>2
      <4>2. Planned(steps[p], s, delta(s)) => Planned(steps'[p], s, delta(s))
        BY <1>2, <3>2 DEF Planned
      <4>3. QED
        BY <1>1, <3>1, <4>1, <4>2
    <3>3. CASE s = st.slot
      <4>1. lockedBy[s] # p
        BY <3>3 DEF LockInv, LocksBehind, TypeInv, TypeOK, Steps, Slots
      <4>2. delta(s) = Signed(st)
        BY <3>1, <3>3, <4>1 DEF Planned
      <4>3. CASE lockedBy'[s] = p
        BY <1>1, <1>4, <3>3, <4>1, <4>2, <4>3
      <4>4. CASE lockedBy'[s] # p
        <5>1. Signed(st) = 0
          BY <1>4, <3>3, <4>4
        <5>2. \A other \in steps'[p] : other.slot = s => delta(s) = Signed(other)
          BY <1>2, <3>1, <4>1 DEF Planned
        <5>3. Planned(steps'[p], s, delta(s))
          BY <4>2, <5>1, <5>2 DEF Planned
        <5>4. QED
          BY <4>4, <5>3
      <4>5. QED
        BY <4>3, <4>4
    <3>4. QED
      BY <3>2, <3>3
  <2>2. pc'[p] \in {"reload", "save"} => steps'[p] = {}
    BY <1>2 DEF Progress
  <2>3. ~ (pc'[p] = "save" /\ call[p].op \in ItemOps)
    BY <1>2 DEF Progress
  <2>4. QED
    BY <1>1, <2>1, <2>2, <2>3 DEF OnTrack
<1>8. Apart' /\ Counted'
  BY <1>1 DEF SerialInv, Apart, Counted
<1>9. QED
  BY <1>6, <1>7, <1>8 DEF SerialInv

(***************************************************************************)
(* What reserveSlotCapacity and releaseSlotCapacity write is what they     *)
(* planned.                                                                *)
(***************************************************************************)
LEMMA SlotStepSerial ==
  ASSUME TypeInv, LockInv, SerialInv, NEW p \in Procs,
         ReserveSlotCapacity(p) \/ ReleaseSlotCapacity(p)
  PROVE  SerialInv'
<1>types. \A st \in steps[p] : st.slot \in Slots /\ st.dishes \in Nat /\ dishesBooked[st.slot] \in Nat
  BY DEF TypeInv, TypeOK, Steps
<1>1. CASE ReserveSlotCapacity(p)
  <2>1. PICK st \in steps[p] :
          /\ pc[p] = "slots" /\ st.kind = "reserve"
          /\ LockSlot(p, st, dishesBooked[st.slot] + st.dishes)
          /\ TakeStep(p, st)
    BY <1>1 DEF ReserveSlotCapacity
  <2>2. Signed(st) = st.dishes /\ LockFree(st.slot)
    BY <2>1 DEF Signed, LockSlot
  <2>3. QED
    BY <2>1, <2>2, TakeStepSerial
<1>2. CASE ReleaseSlotCapacity(p)
  <2>1. PICK st \in steps[p] :
          /\ pc[p] = "slots" /\ st.kind = "release"
          /\ \/ /\ st.slot \in slotRows
                /\ LockSlot(p, st, Remaining(dishesBooked[st.slot], st.dishes))
             \/ st.slot \notin slotRows /\ UNCHANGED <<lockedBy, pending>>
          /\ TakeStep(p, st)
    BY <1>2 DEF ReleaseSlotCapacity
  <2>2. Signed(st) = - st.dishes
    BY <2>1 DEF Signed
  <2>3. lockedBy[st.slot] # p
    BY <1>types DEF LockInv, LocksBehind, Slots
  <2>4. Delta(OldRow(orders, call[p]), call[p], entity[p], st.slot) = - st.dishes
    BY <1>types, <2>1, <2>2, <2>3 DEF SerialInv, OnTrack, Planned
  <2>5. /\ Contribution(OldRow(orders, call[p]), st.slot) \in Nat
        /\ Contribution(NewRow(OldRow(orders, call[p]), call[p], entity[p]), st.slot) \in Nat
    BY <1>types, <2>1, RowTypes
  <2>6. st.dishes <= Contribution(OldRow(orders, call[p]), st.slot)
    BY <1>types, <2>4, <2>5 DEF Delta
  <2>7. dishesBooked[st.slot] >= st.dishes
    BY <1>types, <2>1, <2>5, <2>6, CounterCoversOrder
  <2>8. CASE st.slot \in slotRows
    <3>1. Remaining(dishesBooked[st.slot], st.dishes) = dishesBooked[st.slot] + Signed(st)
      BY <1>types, <2>2, <2>7 DEF Remaining
    <3>2. LockFree(st.slot)
      BY <2>1, <2>8 DEF LockSlot
    <3>3. QED
      BY <2>1, <2>8, <3>1, <3>2, TakeStepSerial
  <2>9. CASE st.slot \notin slotRows
    <3>1. dishesBooked[st.slot] = 0
      BY <1>types, <2>9 DEF SerialInv, Counted
    <3>2. Signed(st) = 0
      BY <1>types, <2>2, <2>7, <3>1
    <3>3. QED
      BY <2>1, <2>9, <3>2, TakeStepSerial
  <2>10. QED
    BY <2>8, <2>9
<1>3. QED
  BY <1>1, <1>2

(***************************************************************************)
(* The answer of organization-ms changes no plan.                          *)
(***************************************************************************)
LEMMA ConfigSerial ==
  ASSUME TypeInv, LockInv, SerialInv, NEW p \in Procs, GetOrgSchedulingConfig(p)
  PROVE  SerialInv'
<1>1. /\ UNCHANGED <<orders, slotRows, dishesBooked, lockedBy, pending, call, steps, entity>>
      /\ pc[p] = "config" /\ pc' = [pc EXCEPT ![p] = Progress(call[p].op, steps[p])]
  BY DEF GetOrgSchedulingConfig, slotVars
<1>2. /\ pc'[p] = Progress(call[p].op, steps[p])
      /\ \A q \in Procs : q # p => pc'[q] = pc[q]
  BY <1>1 DEF TypeInv, TypeOK
<1>3. OnTrack(p)'
  <2>1. \A s \in Slots :
          LET delta == Delta(OldRow(orders, call[p]), call[p], entity[p], s)
          IN IF lockedBy[s] = p THEN pending[s] = dishesBooked[s] + delta
                                ELSE Planned(steps[p], s, delta)
    BY <1>1 DEF SerialInv, OnTrack
  <2>2. pc'[p] \in {"reload", "save"} => steps[p] = {}
    BY <1>2 DEF Progress
  <2>3. ~ (pc'[p] = "save" /\ call[p].op \in ItemOps)
    BY <1>2 DEF Progress
  <2>4. QED
    BY <1>1, <2>1, <2>2, <2>3 DEF OnTrack
<1>4. ASSUME NEW q \in Procs, q # p PROVE OnTrack(q)'
  BY <1>1, <1>2, <1>4, Undisturbed DEF SerialInv
<1>5. Apart' /\ Counted'
  BY <1>1 DEF SerialInv, Apart, Counted
<1>6. QED
  BY <1>3, <1>4, <1>5 DEF SerialInv

(***************************************************************************)
(* The reload lays the handler's change over the committed order.          *)
(***************************************************************************)
LEMMA ReloadSerial ==
  ASSUME TypeInv, LockInv, SerialInv, NEW p \in Procs, ReloadOrder(p)
  PROVE  SerialInv'
<1>1. /\ UNCHANGED <<orders, slotRows, dishesBooked, lockedBy, pending, call, steps>>
      /\ pc[p] = "reload" /\ pc' = [pc EXCEPT ![p] = "save"]
  BY DEF ReloadOrder, slotVars
<1>. DEFINE c == call[p]
            old == OldRow(orders, c)
<1>2. call[p].op \in ItemOps /\ call[p].order \in DOMAIN orders
  BY <1>1 DEF TypeInv, CallOK
<1>3. old = orders[c.order] /\ old \in OrderRows
  BY <1>2 DEF OldRow, TypeInv, TypeOK
<1>4. \A copy : NewRow(old, c, copy) = [old EXCEPT !.items =
         IF c.op = "removeItem" THEN Without(old.items, c.item)
                                ELSE With(old.items, c.item, c.dishes)]
  BY <1>2 DEF NewRow, ItemOps
<1>5. entity' = [entity EXCEPT ![p] =
         [old EXCEPT !.items = IF c.op = "removeItem" THEN Without(@, c.item)
                                                      ELSE With(@, c.item, c.dishes)]]
  BY <1>3 DEF ReloadOrder
<1>. HIDE DEF old
<1>6. entity'[p] = NewRow(old, c, entity'[p])
  BY <1>3, <1>4, <1>5 DEF TypeInv, TypeOK, OrderRows
<1>7. /\ pc'[p] = "save"
      /\ \A q \in Procs : q # p => pc'[q] = pc[q] /\ entity'[q] = entity[q]
  BY <1>1, <1>5 DEF TypeInv, TypeOK
<1>8. OnTrack(p)'
  <2>1. \A s \in Slots : Delta(old, c, entity'[p], s) = Delta(old, c, entity[p], s)
    BY <1>4 DEF Delta
  <2>2. \A s \in Slots :
          LET delta == Delta(old, c, entity[p], s)
          IN IF lockedBy[s] = p THEN pending[s] = dishesBooked[s] + delta
                                ELSE Planned(steps[p], s, delta)
    BY <1>1 DEF SerialInv, OnTrack, old
  <2>3. steps[p] = {}
    BY <1>1 DEF SerialInv, OnTrack
  <2>4. QED
    BY <1>1, <1>6, <2>1, <2>2, <2>3 DEF OnTrack, old
<1>9. ASSUME NEW q \in Procs, q # p PROVE OnTrack(q)'
  BY <1>1, <1>7, <1>9, Undisturbed DEF SerialInv
<1>10. Apart' /\ Counted'
  BY <1>1 DEF SerialInv, Apart, Counted
<1>11. QED
  BY <1>8, <1>9, <1>10 DEF SerialInv

(***************************************************************************)
(* An idle handler owes nothing to any slot: a handler that ends without   *)
(* saving, by whatever failure, leaves the counters as they were.          *)
(***************************************************************************)
LEMMA FinishTrack ==
  ASSUME TypeInv, LockInv, SerialInv, NEW p \in Procs, Finish(p),
         \A q \in Procs : q # p =>
           \/ pc[q] = "idle"
           \/ /\ OldRow(orders', call[q]) = OldRow(orders, call[q])
              /\ \A s \in Slots : lockedBy[s] = q => dishesBooked'[s] = dishesBooked[s]
  PROVE  Apart' /\ \A q \in Procs : OnTrack(q)'
<1>1. /\ pc'[p] = "idle" /\ call'[p] = NoCall
      /\ \A q \in Procs : q # p => /\ pc'[q] = pc[q] /\ call'[q] = call[q]
                                   /\ steps'[q] = steps[q] /\ entity'[q] = entity[q]
  BY DEF Finish, TypeInv, TypeOK
<1>2. \A s \in Slots : /\ lockedBy'[s] = IF lockedBy[s] = p THEN None ELSE lockedBy[s]
                       /\ pending'[s] = IF lockedBy[s] = p THEN 0 ELSE pending[s]
  BY DEF Finish
<1>3. Apart'
  BY <1>1 DEF SerialInv, Apart, NoCall
<1>4. OnTrack(p)'
  BY <1>1 DEF OnTrack
<1>5. ASSUME NEW q \in Procs, q # p PROVE OnTrack(q)'
  <2>1. CASE pc[q] = "idle"
    BY <1>1, <1>5, <2>1 DEF OnTrack
  <2>2. CASE pc[q] # "idle"
    <3>1. \A s \in Slots : (lockedBy'[s] = q) <=> (lockedBy[s] = q)
      BY <1>2, <1>5
    <3>2. \A s \in Slots : lockedBy[s] = q =>
            pending'[s] = pending[s] /\ dishesBooked'[s] = dishesBooked[s]
      BY <1>2, <1>5, <2>2
    <3>3. OldRow(orders', call[q]) = OldRow(orders, call[q])
      BY <1>5, <2>2
    <3>4. QED
      BY <1>1, <1>5, <3>1, <3>2, <3>3, Undisturbed DEF SerialInv
  <2>3. QED
    BY <2>1, <2>2
<1>6. QED
  BY <1>3, <1>4, <1>5

(***************************************************************************)
(* A rolled back transaction leaves orders and counters as they were.      *)
(***************************************************************************)
LEMMA RollbackSerial ==
  ASSUME TypeInv, LockInv, SerialInv, NEW p \in Procs, Rollback(p)
  PROVE  SerialInv'
<1>1. Finish(p) /\ UNCHANGED <<orders, slotRows, dishesBooked>>
  BY DEF Rollback
<1>2. Apart' /\ \A q \in Procs : OnTrack(q)'
  BY <1>1, FinishTrack
<1>3. Counted'
  BY <1>1 DEF SerialInv, Counted
<1>4. QED
  BY <1>2, <1>3 DEF SerialInv

(***************************************************************************)
(* What a handler saves is its change of the order as committed, and       *)
(* changes the load of a slot by what the handler planned for it.          *)
(***************************************************************************)
LEMMA CommittedLoad ==
  ASSUME TypeInv, TypeInv', SerialInv, NEW p \in Procs, Commit(p)
  PROVE  /\ call[p].order \in Orders
         /\ DOMAIN orders' = DOMAIN orders \cup {call[p].order}
         /\ \A q \in (DOMAIN orders) \ {call[p].order} : orders'[q] = orders[q]
         /\ \A s \in Slots : Load(orders', s) = Load(orders, s)
                              + Delta(OldRow(orders, call[p]), call[p], entity[p], s)
<1>. DEFINE c == call[p]
            o == c.order
            old == OldRow(orders, c)
            new == NewRow(old, c, entity[p])
<1>1. /\ pc[p] = "save"
      /\ orders' = [q \in DOMAIN orders \cup {o} |-> IF q = o THEN SavedOrder(p) ELSE orders[q]]
  BY DEF Commit
<1>2. /\ o \in Orders
      /\ c.op \in ItemOps \cup {"markItemPrepared"} => o \in DOMAIN orders
  BY <1>1 DEF TypeInv, CallOK
<1>3. SavedOrder(p) = new
  <2>1. CASE c.op = "markItemPrepared"
    BY <1>2, <2>1 DEF SavedOrder, NewRow, OldRow, TypeInv, TypeOK, OrderRows
  <2>2. CASE c.op \in ItemOps
    <3>1. entity[p] = new
      BY <1>1, <2>2 DEF SerialInv, OnTrack
    <3>2. QED
      BY <2>2, <3>1 DEF SavedOrder, ItemOps
  <2>3. CASE c.op \notin ItemOps \cup {"markItemPrepared"}
    BY <2>3 DEF SavedOrder, NewRow, ItemOps
  <2>4. QED
    BY <2>1, <2>2, <2>3
<1>4. old = IF o \in DOMAIN orders THEN orders[o] ELSE NoOrder
  BY DEF OldRow
<1>5. \A s \in Slots : Contribution(old, s) \in Nat /\ Contribution(new, s) \in Nat
  BY <1>1, RowTypes
<1>6. \A s \in Slots : Delta(old, c, entity[p], s) = Contribution(new, s) - Contribution(old, s)
  BY DEF Delta
<1>. HIDE DEF c, old, new
<1>7. /\ DOMAIN orders' = DOMAIN orders \cup {o} /\ orders'[o] = new
      /\ \A q \in (DOMAIN orders) \ {o} : orders'[q] = orders[q]
  BY <1>1, <1>3
<1>8. Table(orders) /\ Table(orders')
  BY DEF TypeInv, TypeOK, Table
<1>9. ASSUME NEW s \in Slots
      PROVE  Load(orders', s) = Load(orders, s) + Delta(old, c, entity[p], s)
  <2>. DEFINE others == Cardinality(DishesWithout(orders, o, s))
  <2>1. others \in Nat
    BY <1>8, OthersFinite
  <2>2. DishesWithout(orders', o, s) = DishesWithout(orders, o, s)
    BY <1>7, OthersStay
  <2>3. Load(orders', s) = others + Contribution(new, s)
    <3>1. o \in DOMAIN orders'
      BY <1>7
    <3>2. Load(orders', s) = Cardinality(DishesWithout(orders', o, s)) + Contribution(orders'[o], s)
      BY <1>8, <3>1, LoadSplit
    <3>3. QED
      BY <1>7, <2>2, <3>2
  <2>4. Load(orders, s) = others + Contribution(old, s)
    <3>1. CASE o \in DOMAIN orders
      BY <1>4, <1>8, <3>1, LoadSplit
    <3>2. CASE o \notin DOMAIN orders
      <4>1. Contribution(NoOrder, s) = 0
        BY DEF Contribution, NoOrder, Slots, ForNow
      <4>2. Load(orders, s) = others
        BY <1>8, <3>2, LoadWithout
      <4>3. QED
        BY <1>4, <2>1, <3>2, <4>1, <4>2
    <3>3. QED
      BY <3>1, <3>2
  <2>. HIDE DEF others
  <2>5. QED
    BY <1>5, <1>6, <2>1, <2>3, <2>4
<1>10. QED
  BY <1>2, <1>7, <1>9 DEF c, old

(***************************************************************************)
(* A commit brings the order and the counters from one agreement to the    *)
(* next.                                                                   *)
(***************************************************************************)
LEMMA CommitSerial ==
  ASSUME TypeInv, TypeInv', LockInv, SerialInv, NEW p \in Procs, Commit(p)
  PROVE  SerialInv'
<1>. DEFINE delta(s) == Delta(OldRow(orders, call[p]), call[p], entity[p], s)
<1>1. /\ pc[p] = "save" /\ Finish(p)
      /\ slotRows' = slotRows \cup {s \in Slots : lockedBy[s] = p}
      /\ \A s \in Slots : dishesBooked'[s] = IF lockedBy[s] = p THEN pending[s] ELSE dishesBooked[s]
  BY DEF Commit
<1>2. /\ call[p].order \in Orders
      /\ DOMAIN orders' = DOMAIN orders \cup {call[p].order}
      /\ \A q \in (DOMAIN orders) \ {call[p].order} : orders'[q] = orders[q]
      /\ \A s \in Slots : Load(orders', s) = Load(orders, s) + delta(s)
  BY CommittedLoad
<1>3. \A s \in Slots : /\ lockedBy[s] = p => pending[s] = dishesBooked[s] + delta(s)
                       /\ lockedBy[s] # p => delta(s) = 0
  BY <1>1 DEF SerialInv, OnTrack, Planned
<1>. HIDE DEF delta
<1>4. \A s \in Slots : dishesBooked[s] \in Nat
  BY DEF TypeInv, TypeOK
<1>5. ASSUME NEW q \in Procs, q # p, pc[q] # "idle"
      PROVE  /\ OldRow(orders', call[q]) = OldRow(orders, call[q])
             /\ \A s \in Slots : lockedBy[s] = q => dishesBooked'[s] = dishesBooked[s]
  <2>1. call[q].order # call[p].order
    BY <1>2, <1>5 DEF SerialInv, Apart
  <2>2. QED
    BY <1>1, <1>2, <1>5, <2>1 DEF OldRow
<1>6. Apart' /\ \A q \in Procs : OnTrack(q)'
  BY <1>1, <1>5, FinishTrack
<1>7. Counted'
  <2>1. ASSUME NEW s \in Slots
        PROVE  /\ dishesBooked'[s] = Load(orders', s)
               /\ s \notin slotRows' => dishesBooked'[s] = 0
    <3>1. dishesBooked[s] = Load(orders, s) /\ (s \notin slotRows => dishesBooked[s] = 0)
      BY DEF SerialInv, Counted
    <3>2. QED
      BY <1>1, <1>2, <1>3, <1>4, <3>1
  <2>2. QED
    BY <2>1 DEF Counted
<1>8. QED
  BY <1>6, <1>7 DEF SerialInv

(***************************************************************************)
(* Every step keeps orders and counters in agreement, as long as no two    *)
(* handlers in flight are for one order.                                   *)
(***************************************************************************)
LEMMA SerialNext ==
  ASSUME SerialPerOrder, TypeInv, TypeInv', LockInv, SerialInv, [Next]_vars
  PROVE  SerialInv'
<1>1. CASE UNCHANGED vars \/ Reconfigure
  <2>1. UNCHANGED <<orders, slotRows, dishesBooked, lockedBy, pending, pc, call, steps, entity>>
    BY <1>1 DEF Reconfigure, vars, slotVars, callVars
  <2>2. \A q \in Procs : OnTrack(q)'
    BY <2>1, Undisturbed DEF SerialInv
  <2>3. Apart' /\ Counted'
    BY <2>1 DEF SerialInv, Apart, Counted
  <2>4. QED
    BY <2>2, <2>3 DEF SerialInv
<1>2. ASSUME NEW p \in Procs, Start(p) \/ SlotStep(p) \/ Continue(p) \/ Rollback(p)
      PROVE  SerialInv'
  <2>1. CASE Start(p)
    BY <2>1, StartSerial
  <2>2. CASE ReserveSlotCapacity(p) \/ ReleaseSlotCapacity(p)
    BY <2>2, SlotStepSerial
  <2>3. CASE GetOrgSchedulingConfig(p)
    BY <2>3, ConfigSerial
  <2>4. CASE ReloadOrder(p)
    BY <2>4, ReloadSerial
  <2>5. CASE Commit(p)
    BY <2>5, CommitSerial
  <2>6. CASE SlotCapacityExceeded(p) \/ SaveRejected(p) \/ Rollback(p)
    BY <2>6, RollbackSerial DEF SlotCapacityExceeded, SaveRejected
  <2>7. QED
    BY <1>2, <2>1, <2>2, <2>3, <2>4, <2>5, <2>6 DEF SlotStep, Continue
<1>3. QED
  BY <1>1, <1>2 DEF Next

(***************************************************************************)
(* For any numbers of handlers, orders, items and slots: when no two       *)
(* handlers of one order overlap, every slot's dishesBooked is the number  *)
(* of dishes its committed orders hold.                                    *)
(***************************************************************************)
THEOREM BookingsExact == Spec => []BookingsMatchOrders
<1>1. Spec => []LockInv
  BY TypeCorrect, LockInit, LockNext, PTL DEF Spec
<1>2. CASE SerialPerOrder
  <2>1. TypeInv /\ TypeInv' /\ LockInv /\ SerialInv /\ [Next]_vars => SerialInv'
    BY <1>2, SerialNext
  <2>2. SerialInv => BookingsMatchOrders
    BY DEF SerialInv, Counted, BookingsMatchOrders
  <2>3. QED
    BY <1>1, <2>1, <2>2, TypeCorrect, SerialInit, PTL DEF Spec
<1>3. CASE ~ SerialPerOrder
  <2>1. BookingsMatchOrders
    BY <1>3 DEF BookingsMatchOrders
  <2>2. QED
    BY <2>1, PTL
<1>4. QED
  BY <1>2, <1>3

-------------------------------------------------------------------------------
(* Refinement *)

(***************************************************************************)
(* The kitchen counts as the counters do.                                  *)
(***************************************************************************)
LEMMA KitchenLoad ==
  ASSUME NEW rows, NEW s
  PROVE  Kitchen!Load(rows, s) = Load(rows, s)
BY DEF Kitchen!Load, Kitchen!SlotDishes, Kitchen!DishesOf, Kitchen!Cardinality,
       Load, SlotDishes, DishesOf, Cardinality

(***************************************************************************)
(* The kitchen knows the same slots and orders.                            *)
(***************************************************************************)
LEMMA KitchenData == Kitchen!Slots = Slots /\ Kitchen!OrderRows = OrderRows
BY DEF Kitchen!Slots, Slots, Kitchen!OrderRows, OrderRows, Kitchen!Schedules, Schedules,
       Kitchen!ForNow, ForNow, Kitchen!ItemMaps, ItemMaps, Kitchen!DishCounts, DishCounts

(***************************************************************************)
(* A commit is the kitchen's ChangeOrder: the slot's new load is its new   *)
(* counter, which the limit bounds.                                        *)
(***************************************************************************)
LEMMA CommitRefines ==
  ASSUME TypeInv, TypeInv', SerialInv, SerialInv', LimitInv', NEW p \in Procs, Commit(p)
  PROVE  Kitchen!ChangeOrder
<1>1. PICK o : o = call[p].order
  OBVIOUS
<1>2. /\ o \in Orders /\ DOMAIN orders' = DOMAIN orders \cup {o}
      /\ \A q \in (DOMAIN orders) \ {o} : orders'[q] = orders[q]
  BY <1>1, CommittedLoad
<1>3. orders'[o] \in OrderRows
  BY <1>2 DEF TypeInv, TypeOK
<1>4. peak' = peak
  BY DEF Commit, Finish
<1>5. \A s \in Slots : Load(orders', s) <= peak
  BY <1>4 DEF SerialInv, Counted, LimitInv, CapacityNeverExceeded
<1>6. \A s \in Kitchen!Slots : Kitchen!Load(orders', s) <= peak
  BY <1>5, KitchenLoad, KitchenData
<1>7. QED
  BY <1>2, <1>3, <1>4, <1>6, KitchenData DEF Kitchen!ChangeOrder

(***************************************************************************)
(* Every step is a step of the kitchen or does not concern it.             *)
(***************************************************************************)
LEMMA KitchenStep ==
  ASSUME TypeInv, TypeInv', SerialInv, SerialInv', LimitInv', [Next]_vars
  PROVE  [Kitchen!KitchenNext]_(Kitchen!kitchenVars)
<1>1. CASE UNCHANGED vars
  BY <1>1 DEF vars, Kitchen!kitchenVars
<1>2. CASE Reconfigure
  <2>1. PICK c \in Capacities : orders' = orders /\ peak' = IF c > peak THEN c ELSE peak
    BY <1>2 DEF Reconfigure
  <2>2. c \in Nat /\ peak \in Nat
    BY DEF TypeInv, TypeOK
  <2>3. QED
    BY <2>1, <2>2 DEF Kitchen!KitchenNext, Kitchen!RaiseCeiling, Kitchen!kitchenVars
<1>3. ASSUME NEW p \in Procs, Start(p) \/ SlotStep(p) \/ Continue(p) \/ Rollback(p)
      PROVE  [Kitchen!KitchenNext]_(Kitchen!kitchenVars)
  <2>1. CASE Commit(p)
    BY <2>1, CommitRefines DEF Kitchen!KitchenNext
  <2>2. CASE ~ Commit(p)
    <3>1. orders' = orders /\ peak' = peak
      <4>1. CASE Start(p)
        BY <4>1, StartBegins DEF WellBegun, Begin
      <4>2. CASE SlotStep(p) \/ Rollback(p)
        BY <4>2 DEF SlotStep, ReserveSlotCapacity, ReleaseSlotCapacity, SlotCapacityExceeded,
                    TakeStep, Rollback, Finish
      <4>3. CASE Continue(p)
        BY <2>2, <4>3 DEF Continue, GetOrgSchedulingConfig, ReloadOrder, SaveRejected,
                          Rollback, Finish
      <4>4. QED
        BY <1>3, <4>1, <4>2, <4>3
    <3>2. QED
      BY <3>1 DEF Kitchen!kitchenVars
  <2>3. QED
    BY <2>1, <2>2
<1>4. QED
  BY <1>1, <1>2, <1>3 DEF Next

(***************************************************************************)
(* For any numbers of handlers, orders, items and slots: when no two       *)
(* handlers of one order overlap, every interleaving of the handlers is a  *)
(* behaviour of KitchenCapacity.                                           *)
(***************************************************************************)
THEOREM KitchenServed == SerialPerOrder => (Spec => KitchenSpec)
<1>. SUFFICES ASSUME SerialPerOrder PROVE Spec => KitchenSpec
  OBVIOUS
<1>1. Spec => []LockInv
  BY TypeCorrect, LockInit, LockNext, PTL DEF Spec
<1>2. Spec => []SerialInv
  <2>1. TypeInv /\ TypeInv' /\ LockInv /\ SerialInv /\ [Next]_vars => SerialInv'
    BY SerialNext
  <2>2. QED
    BY <1>1, <2>1, TypeCorrect, SerialInit, PTL DEF Spec
<1>3. Spec => []LimitInv
  BY TypeCorrect, LimitInit, LimitNext, PTL DEF Spec
<1>4. Init => Kitchen!KitchenInit
  <2>1. [o \in {} |-> NoOrder] = [o \in {} |-> {}]
    OBVIOUS
  <2>2. Init => orders = [o \in {} |-> NoOrder] /\ peak \in Nat
    BY DEF Init
  <2>3. QED
    BY <2>1, <2>2 DEF Kitchen!KitchenInit
<1>5. TypeInv /\ TypeInv' /\ SerialInv /\ SerialInv' /\ LimitInv' /\ [Next]_vars
        => [Kitchen!KitchenNext]_(Kitchen!kitchenVars)
  BY KitchenStep
<1>6. QED
  BY <1>2, <1>3, <1>4, <1>5, TypeCorrect, PTL DEF Spec, KitchenSpec, Kitchen!Spec

-------------------------------------------------------------------------------
(* Slots and the hour                                                      *)

Divisors == {1, 2, 3, 4, 5, 6, 10, 12, 15, 20, 30, 60}

(***************************************************************************)
(* The intervals that divide the hour.                                     *)
(***************************************************************************)
LEMMA DivisorsOfTheHour ==
  ASSUME NEW i \in Nat \ {0}, 60 % i = 0
  PROVE  i \in Divisors
<1>1. i <= 60
  OBVIOUS
<1>2. \A d \in 1 .. 60 : 60 % d = 0 => d \in Divisors
  BY DEF Divisors
<1>3. QED
  BY <1>1, <1>2

(***************************************************************************)
(* Steps of such an interval from a slot boundary and steps within the     *)
(* hour meet the same minutes.                                             *)
(***************************************************************************)
LEMMA SameGrid ==
  ASSUME NEW i \in Nat \ {0}, 60 % i = 0,
         NEW o \in Nat, o % i = 0, NEW t \in Nat, o <= t
  PROVE  ((t - o) % i = 0) <=> ((t % 60) % i = 0)
<1>1. i \in Divisors
  BY DivisorsOfTheHour
<1>2. CASE i = 1 BY <1>2
<1>3. CASE i = 2 BY <1>3
<1>4. CASE i = 3 BY <1>4
<1>5. CASE i = 4 BY <1>5
<1>6. CASE i = 5 BY <1>6
<1>7. CASE i = 6 BY <1>7
<1>8. CASE i = 10 BY <1>8
<1>9. CASE i = 12 BY <1>9
<1>10. CASE i = 15 BY <1>10
<1>11. CASE i = 20 BY <1>11
<1>12. CASE i = 30 BY <1>12
<1>13. CASE i = 60 BY <1>13
<1>14. QED
  BY <1>1, <1>2, <1>3, <1>4, <1>5, <1>6, <1>7, <1>8, <1>9, <1>10, <1>11, <1>12, <1>13 DEF Divisors

(***************************************************************************)
(* Steps of such an interval from a minute off the grid never meet it.     *)
(***************************************************************************)
LEMMA OffGrid ==
  ASSUME NEW i \in Nat \ {0}, 60 % i = 0,
         NEW o \in Nat, o % i # 0, NEW t \in Nat, o <= t, (t - o) % i = 0
  PROVE  (t % 60) % i # 0
<1>1. i \in Divisors
  BY DivisorsOfTheHour
<1>2. CASE i = 1 BY <1>2
<1>3. CASE i = 2 BY <1>3
<1>4. CASE i = 3 BY <1>4
<1>5. CASE i = 4 BY <1>5
<1>6. CASE i = 5 BY <1>6
<1>7. CASE i = 6 BY <1>7
<1>8. CASE i = 10 BY <1>8
<1>9. CASE i = 12 BY <1>9
<1>10. CASE i = 15 BY <1>10
<1>11. CASE i = 20 BY <1>11
<1>12. CASE i = 30 BY <1>12
<1>13. CASE i = 60 BY <1>13
<1>14. QED
  BY <1>1, <1>2, <1>3, <1>4, <1>5, <1>6, <1>7, <1>8, <1>9, <1>10, <1>11, <1>12, <1>13 DEF Divisors

(***************************************************************************)
(* Between two slots of such an interval no minute is on the grid.         *)
(***************************************************************************)
LEMMA GapBetweenSlots ==
  ASSUME NEW i \in Nat \ {0}, 60 % i = 0,
         NEW t \in Nat, (t % 60) % i = 0, NEW d \in 1 .. i - 1
  PROVE  ((t + d) % 60) % i # 0
<1>1. i \in Divisors
  BY DivisorsOfTheHour
<1>2. CASE i = 1 BY <1>2
<1>3. CASE i = 2 BY <1>3
<1>4. CASE i = 3 BY <1>4
<1>5. CASE i = 4 BY <1>5
<1>6. CASE i = 5 BY <1>6
<1>7. CASE i = 6 BY <1>7
<1>8. CASE i = 10 BY <1>8
<1>9. CASE i = 12 BY <1>9
<1>10. CASE i = 15 BY <1>10
<1>11. CASE i = 20 BY <1>11
<1>12. CASE i = 30 BY <1>12
<1>13. CASE i = 60 BY <1>13
<1>14. QED
  BY <1>1, <1>2, <1>3, <1>4, <1>5, <1>6, <1>7, <1>8, <1>9, <1>10, <1>11, <1>12, <1>13 DEF Divisors

-------------------------------------------------------------------------------
(* The offer and the validation                                            *)

\* What the organization has set is one of the values it can be set to.
GridOK ==
  /\ intervalMinutes \in Intervals
  /\ openingHours \in OpeningHours
  /\ now \in Clock

(***************************************************************************)
(* Only an edit of the organization and the clock change what validation   *)
(* and offer depend on.                                                    *)
(***************************************************************************)
LEMMA GridInvariant == ASSUME SlotGridAssumption PROVE GridSpec => []GridOK
<1>1. GridInit => GridOK
  BY DEF GridInit, GridOK
<1>2. GridOK /\ [GridNext]_gridVars => GridOK'
  BY DEF GridOK, GridNext, EditOrganization, Tick, gridVars
<1>3. QED
  BY <1>1, <1>2, PTL DEF GridSpec

(***************************************************************************)
(* Whatever the hours, the ranges that slots are generated from begin and  *)
(* end at a minute of the day.                                             *)
(***************************************************************************)
LEMMA RangesOK ==
  ASSUME SlotGridAssumption, GridOK
  PROVE  \A r \in Ranges : r.open \in Nat /\ r.close \in Nat
<1>1. CASE openingHours = AlwaysOpen
  BY <1>1 DEF Ranges, EndOfDay
<1>2. CASE openingHours # AlwaysOpen
  BY <1>2 DEF Ranges, SlotGridAssumption, GridOK
<1>3. QED
  BY <1>1, <1>2

(***************************************************************************)
(* A minute of a range that opens on a slot boundary is a step of the      *)
(* range exactly if the validation finds it on the grid.                   *)
(***************************************************************************)
LEMMA AlignedStep ==
  ASSUME SlotGridAssumption, GridOK, 60 % intervalMinutes = 0, NEW r \in Ranges,
         r.open % intervalMinutes = 0, NEW t \in Instants, r.open <= t
  PROVE  ((t - r.open) % intervalMinutes = 0) <=> AlignsToInterval(t)
<1>1. intervalMinutes \in Nat \ {0} /\ t \in Nat
  BY DEF SlotGridAssumption, GridOK
<1>2. r.open \in Nat /\ 60 % intervalMinutes = 0 /\ r.open % intervalMinutes = 0
  BY RangesOK
<1>3. PICK i \in Nat \ {0} : i = intervalMinutes
  BY <1>1
<1>4. PICK o \in Nat : o = r.open
  BY <1>2
<1>5. PICK u \in Nat : u = t
  BY <1>1
<1>6. 60 % i = 0 /\ o % i = 0 /\ o <= u
  BY <1>2, <1>3, <1>4, <1>5
<1>7. ((u - o) % i = 0) <=> ((u % 60) % i = 0)
  BY <1>6, SameGrid
<1>8. QED
  BY <1>3, <1>4, <1>5, <1>7 DEF AlignsToInterval

(***************************************************************************)
(* getAvailableSlots and validateScheduledFor agree: if the interval       *)
(* divides the hour and the ranges open on a boundary, what is offered is  *)
(* accepted and what is accepted was offered, except for the last minute   *)
(* of a day without opening hours.                                         *)
(***************************************************************************)
THEOREM OfferIsAccepted == GridSpec => []OfferMatchesValidation
<1>1. ASSUME GridOK, Regular
      PROVE  OfferedSlots \subseteq Bookable
  <2>. SUFFICES ASSUME NEW r \in Ranges, NEW t \in generateSlotTimes(r), t > now
                PROVE  t \in Bookable
    BY DEF OfferedSlots
  <2>1. /\ t \in Instants /\ r.open <= t /\ t < r.close
        /\ (t - r.open) % intervalMinutes = 0
    BY DEF generateSlotTimes
  <2>2. AlignsToInterval(t)
    BY <1>1, <2>1, AlignedStep, SlotGridAssumption DEF Regular
  <2>3. WithinHours(t)
    BY <2>1 DEF WithinHours, Ranges
  <2>4. QED
    BY <2>1, <2>2, <2>3 DEF Bookable, validateScheduledFor
<1>2. ASSUME GridOK, Regular, NEW t \in Bookable, t \notin OfferedSlots
      PROVE  openingHours = AlwaysOpen /\ t = EndOfDay
  <2>1. t \in Instants /\ t > now /\ AlignsToInterval(t) /\ WithinHours(t)
    BY DEF Bookable, validateScheduledFor
  <2>2. \A r \in Ranges : r.open <= t => ~ (t < r.close)
    <3>. SUFFICES ASSUME NEW r \in Ranges, r.open <= t, t < r.close PROVE FALSE
      OBVIOUS
    <3>1. (t - r.open) % intervalMinutes = 0
      BY <1>2, <2>1, AlignedStep, SlotGridAssumption DEF Regular
    <3>2. t \in generateSlotTimes(r)
      BY <2>1, <3>1 DEF generateSlotTimes
    <3>3. QED
      BY <1>2, <2>1, <3>2 DEF OfferedSlots
  <2>3. openingHours = AlwaysOpen
    BY <2>1, <2>2 DEF WithinHours, Ranges
  <2>4. t \in 0 .. EndOfDay
    BY <2>1, SlotGridAssumption DEF SlotGridAssumption, EndOfDay
  <2>5. ~ (t < EndOfDay)
    <3>1. [open |-> 0, close |-> EndOfDay] \in Ranges
      BY <2>3 DEF Ranges
    <3>2. QED
      BY <2>2, <2>4, <3>1
  <2>6. QED
    BY <2>3, <2>4, <2>5 DEF EndOfDay
<1>3. GridOK => OfferMatchesValidation
  BY <1>1, <1>2 DEF OfferMatchesValidation
<1>4. QED
  BY GridInvariant, SlotGridAssumption, <1>3, PTL

(***************************************************************************)
(* validateScheduledFor: if the interval divides the hour, accepted        *)
(* instants are an interval apart or more.                                 *)
(***************************************************************************)
THEOREM SlotsAreApart == GridSpec => []SlotsDoNotOverlap
<1>1. GridOK => SlotsDoNotOverlap
  <2>. SUFFICES ASSUME GridOK, 60 % intervalMinutes = 0, NEW t \in Bookable,
                       NEW d \in 1 .. intervalMinutes - 1, t + d \in Bookable
                PROVE  FALSE
    BY DEF SlotsDoNotOverlap
  <2>1. t \in Nat /\ intervalMinutes \in Nat \ {0}
    BY SlotGridAssumption DEF SlotGridAssumption, GridOK, Bookable
  <2>2. (t % 60) % intervalMinutes = 0 /\ ((t + d) % 60) % intervalMinutes = 0
    BY DEF Bookable, validateScheduledFor, AlignsToInterval
  <2>3. QED
    BY <2>1, <2>2, GapBetweenSlots
<1>2. QED
  BY GridInvariant, SlotGridAssumption, <1>1, PTL

(***************************************************************************)
(* No step of a range that opens off the grid is accepted.                 *)
(***************************************************************************)
LEMMA StepsOffGrid ==
  ASSUME SlotGridAssumption, GridOK, 60 % intervalMinutes = 0, NEW r \in Ranges,
         r.open % intervalMinutes # 0, NEW t \in generateSlotTimes(r)
  PROVE  t \notin Bookable
<1>1. intervalMinutes \in Nat \ {0} /\ t \in Nat /\ r.open \in Nat
  BY RangesOK DEF SlotGridAssumption, GridOK, generateSlotTimes
<1>2. r.open <= t /\ (t - r.open) % intervalMinutes = 0
  BY DEF generateSlotTimes
<1>3. PICK i \in Nat \ {0} : i = intervalMinutes
  BY <1>1
<1>4. PICK o \in Nat : o = r.open
  BY <1>1
<1>5. PICK u \in Nat : u = t
  BY <1>1
<1>6. 60 % i = 0 /\ o % i # 0 /\ o <= u /\ (u - o) % i = 0
  BY <1>2, <1>3, <1>4, <1>5
<1>7. (u % 60) % i # 0
  BY <1>6, OffGrid
<1>8. QED
  BY <1>3, <1>5, <1>7 DEF Bookable, validateScheduledFor, AlignsToInterval

(***************************************************************************)
(* generateSlotTimes offers a range of opening hours whole or in vain: if  *)
(* the interval divides the hour, validateScheduledFor accepts all of its  *)
(* future slots or none, as the range opens on a slot boundary or not.     *)
(***************************************************************************)
THEOREM RangeOfferedWhole == GridSpec => []WholeRangeOrNothing
<1>1. GridOK => WholeRangeOrNothing
  <2>. SUFFICES ASSUME GridOK, 60 % intervalMinutes = 0, NEW r \in Ranges,
                       NEW t \in FutureSlots(r)
                PROVE  (r.open % intervalMinutes = 0) <=> (t \in Bookable)
    BY DEF WholeRangeOrNothing
  <2>1. /\ t \in Instants /\ t > now /\ r.open <= t /\ t < r.close
        /\ t \in generateSlotTimes(r) /\ (t - r.open) % intervalMinutes = 0
    BY DEF FutureSlots, generateSlotTimes
  <2>2. CASE r.open % intervalMinutes = 0
    <3>1. AlignsToInterval(t)
      BY <2>1, <2>2, AlignedStep, SlotGridAssumption
    <3>2. WithinHours(t)
      BY <2>1 DEF WithinHours, Ranges
    <3>3. QED
      BY <2>1, <2>2, <3>1, <3>2 DEF Bookable, validateScheduledFor
  <2>3. CASE r.open % intervalMinutes # 0
    BY <2>1, <2>3, StepsOffGrid, SlotGridAssumption
  <2>4. QED
    BY <2>2, <2>3
<1>2. QED
  BY GridInvariant, SlotGridAssumption, <1>1, PTL
=================================================================================
