------------------------------ MODULE SlotBooking ------------------------------
(***************************************************************************)
(* Scheduled orders and the capacity of their slots: every handler of      *)
(* OrdersService that writes an order's schedule or items, and the         *)
(* order_slots rows it books (orders.service.ts create, createPosOrder,    *)
(* update, addItem, removeItem, updateOrderItem, updatePaymentStatus,      *)
(* markItemPrepared, applyScheduleChange, reserve/releaseSlotCapacity).    *)
(*                                                                         *)
(* A process is one RPC or event being handled.  Handlers run concurrently *)
(* and interleave at every await: the read of the order before the         *)
(* transaction, the question to organization-ms, each row lock, the reload *)
(* inside the transaction, the commit.  PostgreSQL runs at READ COMMITTED; *)
(* SELECT ... FOR UPDATE is the only lock the handlers wait on.            *)
(***************************************************************************)
EXTENDS DishLoad

CONSTANTS Procs,          \* handlers that may be in flight at once
          None,           \* no process, no order, no item
          Capacities,     \* values a manager gives to maxDishesPerSlot
          SerialPerOrder  \* TRUE: never two handlers in flight for one order

ASSUME SlotBookingAssumption ==
  /\ None \notin Procs /\ None \notin Orders /\ None \notin Items
  /\ Capacities \subseteq Nat
  /\ SerialPerOrder \in BOOLEAN

VARIABLES
  orders,            \* table orders joined with order_items (committed)
  slotRows,          \* slots that have a row in order_slots (committed)
  dishesBooked,      \* OrderSlot.dishesBooked, 0 where there is no row
  lockedBy,          \* the transaction holding FOR UPDATE on a slot's row
  pending,           \* dishesBooked as that transaction has written it
  maxDishesPerSlot,  \* the limit, kept by organization-ms
  peak,              \* history: the largest limit configured so far
  pc, call,          \* where a handler is, and what it was asked to do
  steps,             \* slots it still has to release or reserve
  capacity,          \* maxDishesPerSlot as the handler was told it
  entity             \* the order object in memory that it will save

slotVars == <<slotRows, dishesBooked, lockedBy, pending>>
callVars == <<pc, call, steps, capacity, entity>>
vars == <<orders, slotVars, maxDishesPerSlot, peak, callVars>>

Ops == {"none", "create", "createPosOrder", "update", "addItem", "removeItem",
        "updateOrderItem", "updatePaymentStatus", "markItemPrepared"}
\* These reload the order inside the transaction before they save it.
ItemOps == {"addItem", "removeItem", "updateOrderItem"}

Calls == [op : Ops, order : Orders \cup {None}, item : Items \cup {None},
          dishes : DishCounts]
Steps == [slot : Slots, kind : {"release", "reserve"}, dishes : Nat]

NoCall == [op |-> "none", order |-> None, item |-> None, dishes |-> 0]
OrderCall(op, o) == [op |-> op, order |-> o, item |-> None, dishes |-> 0]
NoOrder == [scheduledFor |-> ForNow, items |-> [i \in {} |-> 0]]

(***************************************************************************)
(* The slot steps of a handler: release or reserve n dishes of slot s,     *)
(* which is nothing at all for n <= 0 or an order that is for now.         *)
(***************************************************************************)
Release(s, n) == IF s # ForNow /\ n > 0
                 THEN {[slot |-> s, kind |-> "release", dishes |-> n]} ELSE {}
Reserve(s, n) == IF s # ForNow /\ n > 0
                 THEN {[slot |-> s, kind |-> "reserve", dishes |-> n]} ELSE {}

\* applyScheduleChange: out of the old slot, into the new one.
PlanReservedLast(old, new, n) == Reserve(old, n) \cup Release(new, n)
SchedulePlan(old, new, n) == Release(old, n) \cup Reserve(new, n)

(***************************************************************************)
(* applyScheduleChange and the item handlers take the slots in ascending   *)
(* time order: st is the next of the steps left.                           *)
(***************************************************************************)
RequestOrder(left, st) == TRUE
EarliestFirst(left, st) == \A other \in left : st.slot <= other.slot

\* The check of reserveSlotCapacity, and the count releaseSlotCapacity leaves.
SlotNotFull(booked, n, limit) == booked < limit
HasRoom(booked, n, limit) == booked + n <= limit
UnclampedRemaining(booked, n) == booked - n
Remaining(booked, n) == IF booked >= n THEN booked - n ELSE 0

\* Where a handler of operation op goes when these slot steps are left.
Progress(op, left) == IF left # {} THEN "slots"
                      ELSE IF op \in ItemOps THEN "reload" ELSE "save"

Init ==
  /\ orders = [o \in {} |-> NoOrder]
  /\ slotRows = {}
  /\ dishesBooked = [s \in Slots |-> 0]
  /\ lockedBy = [s \in Slots |-> None]
  /\ pending = [s \in Slots |-> 0]
  /\ maxDishesPerSlot \in Capacities
  /\ peak = maxDishesPerSlot
  /\ pc = [p \in Procs |-> "idle"]
  /\ call = [p \in Procs |-> NoCall]
  /\ steps = [p \in Procs |-> {}]
  /\ capacity = [p \in Procs |-> 0]
  /\ entity = [p \in Procs |-> NoOrder]

-------------------------------------------------------------------------------
(* A handler starts: it reads the order, outside any transaction.          *)

MayHandle(o) == SerialPerOrder => \A q \in Procs : call[q].order # o

NewOrder(o) == /\ o \notin DOMAIN orders
               /\ \A q \in Procs : call[q].order # o

\* gen_random_uuid: ids are never reused while anyone can still name them.
NewItem(i) == /\ \A o \in DOMAIN orders : i \notin DOMAIN orders[o].items
              /\ \A q \in Procs : i # call[q].item /\ i \notin DOMAIN entity[q].items

Begin(p, c, plan, needsConfig, copy) ==
  /\ pc[p] = "idle"
  /\ call' = [call EXCEPT ![p] = c]
  /\ steps' = [steps EXCEPT ![p] = plan]
  /\ entity' = [entity EXCEPT ![p] = copy]
  /\ pc' = [pc EXCEPT ![p] = IF needsConfig THEN "config" ELSE Progress(c.op, plan)]
  /\ UNCHANGED <<orders, slotVars, maxDishesPerSlot, peak, capacity>>

Create(p) == \E o \in Orders, s \in Schedules, new \in SUBSET Items :
  /\ NewOrder(o)
  /\ new # {} /\ \A i \in new : NewItem(i)
  /\ \E items \in [new -> DishCounts] :
       Begin(p, OrderCall("create", o),
             Reserve(s, countDishes(items)), s # ForNow,
             [scheduledFor |-> s, items |-> items])

\* A POS order has no items yet: nothing is reserved until addItem.
CreatePosOrder(p) == \E o \in Orders, s \in Schedules :
  /\ NewOrder(o)
  /\ Begin(p, OrderCall("createPosOrder", o),
           {}, s # ForNow, [scheduledFor |-> s, items |-> NoOrder.items])

\* update: s is the target schedule; cancelling is the target ForNow.
Update(p) == \E o \in DOMAIN orders, s \in Schedules :
  /\ MayHandle(o)
  /\ LET order == orders[o]
         changed == s # order.scheduledFor
         dishes == countDishes(order.items)
     IN Begin(p, OrderCall("update", o),
              IF changed THEN SchedulePlan(order.scheduledFor, s, dishes) ELSE {},
              changed, [order EXCEPT !.scheduledFor = s])

AddItem(p) == \E o \in DOMAIN orders, i \in Items, d \in DishCounts :
  /\ MayHandle(o)
  /\ NewItem(i)
  /\ LET plan == Reserve(orders[o].scheduledFor, d)
     IN Begin(p, [op |-> "addItem", order |-> o, item |-> i, dishes |-> d],
              plan, plan # {}, NoOrder)

RemoveItem(p) == \E o \in DOMAIN orders : \E i \in DOMAIN orders[o].items :
  /\ MayHandle(o)
  /\ Begin(p, [op |-> "removeItem", order |-> o, item |-> i, dishes |-> 0],
           Release(orders[o].scheduledFor, orders[o].items[i]), FALSE, NoOrder)

\* A new quantity; an item that does not count toward capacity stays at 0.
UpdateOrderItem(p) == \E o \in DOMAIN orders : \E i \in DOMAIN orders[o].items :
  \E d \in DishCounts :
    /\ MayHandle(o)
    /\ (d = 0) <=> (orders[o].items[i] = 0)
    /\ LET order == orders[o]
           quantityDelta == d - order.items[i]
           more == Reserve(order.scheduledFor, quantityDelta)
       IN Begin(p, [op |-> "updateOrderItem", order |-> o, item |-> i, dishes |-> d],
                more \cup Release(order.scheduledFor, -quantityDelta),
                more # {}, NoOrder)

UpdatePaymentStatus(p) == \E o \in DOMAIN orders :
  /\ MayHandle(o)
  /\ Begin(p, OrderCall("updatePaymentStatus", o),
           {}, FALSE, orders[o])

MarkItemPrepared(p) == \E o \in DOMAIN orders : \E i \in DOMAIN orders[o].items :
  /\ MayHandle(o)
  /\ Begin(p, [op |-> "markItemPrepared", order |-> o, item |-> i,
               dishes |-> orders[o].items[i]],
           {}, FALSE, NoOrder)
-------------------------------------------------------------------------------
(* The steps of a handler in flight.                                       *)

\* The answer of organization-ms; the schedule is valid under it.
GetOrgSchedulingConfig(p) ==
  /\ pc[p] = "config"
  /\ capacity' = [capacity EXCEPT ![p] = maxDishesPerSlot]
  /\ pc' = [pc EXCEPT ![p] = Progress(call[p].op, steps[p])]
  /\ UNCHANGED <<orders, slotVars, maxDishesPerSlot, peak, call, steps, entity>>

TakeStep(p, st) ==
  /\ steps' = [steps EXCEPT ![p] = @ \ {st}]
  /\ pc' = [pc EXCEPT ![p] = Progress(call[p].op, steps[p] \ {st})]
  /\ UNCHANGED <<orders, slotRows, dishesBooked, maxDishesPerSlot, peak,
                 call, capacity, entity>>

NotLocked(s) == TRUE
LockFree(s) == lockedBy[s] = None

LockSlot(p, st, booked) ==
  /\ LockFree(st.slot)
  /\ lockedBy' = [lockedBy EXCEPT ![st.slot] = p]
  /\ pending' = [pending EXCEPT ![st.slot] = booked]

\* INSERT ... ON CONFLICT DO NOTHING, then SELECT ... FOR UPDATE: both wait
\* for a transaction that inserted or locked the row.
ReserveSlotCapacity(p) == \E st \in steps[p] :
  /\ pc[p] = "slots" /\ st.kind = "reserve" /\ EarliestFirst(steps[p], st)
  /\ HasRoom(dishesBooked[st.slot], st.dishes, capacity[p])
  /\ LockSlot(p, st, dishesBooked[st.slot] + st.dishes)
  /\ TakeStep(p, st)

\* A row that is not committed is invisible to the SELECT: nothing to release.
ReleaseSlotCapacity(p) == \E st \in steps[p] :
  /\ pc[p] = "slots" /\ st.kind = "release" /\ EarliestFirst(steps[p], st)
  /\ \/ /\ st.slot \in slotRows
        /\ LockSlot(p, st, Remaining(dishesBooked[st.slot], st.dishes))
     \/ /\ st.slot \notin slotRows
        /\ UNCHANGED <<lockedBy, pending>>
  /\ TakeStep(p, st)

\* manager.findOne inside the transaction: the committed order with the
\* handler's own change to its item laid over it.
ReloadOrder(p) ==
  /\ pc[p] = "reload"
  /\ LET c == call[p]
         row == orders[c.order]
     IN entity' = [entity EXCEPT ![p] =
          [row EXCEPT !.items = IF c.op = "removeItem" THEN Without(@, c.item)
                                                       ELSE With(@, c.item, c.dishes)]]
  /\ pc' = [pc EXCEPT ![p] = "save"]
  /\ UNCHANGED <<orders, slotVars, maxDishesPerSlot, peak, call, steps, capacity>>

Finish(p) ==
  /\ pc' = [pc EXCEPT ![p] = "idle"]
  /\ call' = [call EXCEPT ![p] = NoCall]
  /\ steps' = [steps EXCEPT ![p] = {}]
  /\ capacity' = [capacity EXCEPT ![p] = 0]
  /\ entity' = [entity EXCEPT ![p] = NoOrder]
  /\ lockedBy' = [s \in Slots |-> IF lockedBy[s] = p THEN None ELSE lockedBy[s]]
  /\ pending' = [s \in Slots |-> IF lockedBy[s] = p THEN 0 ELSE pending[s]]
  /\ UNCHANGED <<maxDishesPerSlot, peak>>

(***************************************************************************)
(* save(order) writes every column and every item that differs from the    *)
(* object in memory, however old that is, and inserts items of the object  *)
(* that the table has lost.  Items the object has never seen are orphans:  *)
(* TypeORM reads orphanedRowAction on the ManyToOne side, where it is not  *)
(* set, and nulls their orderId, which is NOT NULL, so the save fails.     *)
(* markItemPrepared saves one item only.                                   *)
(***************************************************************************)
SavedOrder(p) ==
  LET c == call[p]
  IN IF c.op = "markItemPrepared"
     THEN [orders[c.order] EXCEPT !.items = With(@, c.item, c.dishes)]
     ELSE entity[p]

Orphans(p) ==
  LET c == call[p]
  IN IF c.order \notin DOMAIN orders THEN {}
     ELSE {i \in DOMAIN orders[c.order].items \ DOMAIN SavedOrder(p).items :
             ~ (c.op = "removeItem" /\ i = c.item)}

Commit(p) ==
  /\ pc[p] = "save"
  /\ Orphans(p) = {}
  /\ orders' = [o \in DOMAIN orders \cup {call[p].order} |->
                  IF o = call[p].order THEN SavedOrder(p) ELSE orders[o]]
  /\ slotRows' = slotRows \cup {s \in Slots : lockedBy[s] = p}
  /\ dishesBooked' = [s \in Slots |-> IF lockedBy[s] = p THEN pending[s]
                                                         ELSE dishesBooked[s]]
  /\ Finish(p)

\* A rejected validation, a full slot, an orphan, a failed query or RPC, a
\* deadlock PostgreSQL detected, a crash: nothing of the transaction stays.
Rollback(p) ==
  /\ pc[p] # "idle"
  /\ Finish(p)
  /\ UNCHANGED <<orders, slotRows, dishesBooked>>

SlotCapacityExceeded(p) ==
  /\ pc[p] = "slots"
  /\ \E st \in steps[p] :
       /\ st.kind = "reserve" /\ EarliestFirst(steps[p], st)
       /\ LockFree(st.slot)
       /\ ~ HasRoom(dishesBooked[st.slot], st.dishes, capacity[p])
  /\ Rollback(p)

SaveRejected(p) ==
  /\ pc[p] = "save"
  /\ Orphans(p) # {}
  /\ Rollback(p)

\* A manager changes the limit in organization-ms.
Reconfigure == \E c \in Capacities :
  /\ maxDishesPerSlot' = c
  /\ peak' = IF c > peak THEN c ELSE peak
  /\ UNCHANGED <<orders, slotVars, callVars>>

Start(p) == \/ Create(p) \/ CreatePosOrder(p) \/ Update(p) \/ AddItem(p)
            \/ RemoveItem(p) \/ UpdateOrderItem(p) \/ UpdatePaymentStatus(p)
            \/ MarkItemPrepared(p)
SlotStep(p) == ReserveSlotCapacity(p) \/ ReleaseSlotCapacity(p) \/ SlotCapacityExceeded(p)
Continue(p) == GetOrgSchedulingConfig(p) \/ ReloadOrder(p) \/ Commit(p) \/ SaveRejected(p)

Next == \/ \E p \in Procs : Start(p) \/ SlotStep(p) \/ Continue(p) \/ Rollback(p)
        \/ Reconfigure

Spec == Init /\ [][Next]_vars

(***************************************************************************)
(* A handler that is not waiting for a lock runs on, organization-ms       *)
(* answers, and PostgreSQL grants a row lock in the order it was asked, so *)
(* a lock that keeps becoming free is granted.  Nobody has to call.        *)
(***************************************************************************)
Fairness == \A p \in Procs : WF_vars(Continue(p)) /\ SF_vars(SlotStep(p))
FairSpec == Spec /\ Fairness

-------------------------------------------------------------------------------
(***************************************************************************)
(* The shape of every variable; a slot's count never goes below zero.      *)
(***************************************************************************)
TypeOK ==
  /\ DOMAIN orders \subseteq Orders
  /\ \A o \in DOMAIN orders : orders[o] \in OrderRows
  /\ slotRows \subseteq Slots
  /\ dishesBooked \in [Slots -> Nat]
  /\ lockedBy \in [Slots -> Procs \cup {None}]
  /\ pending \in [Slots -> Nat]
  /\ maxDishesPerSlot \in Capacities
  /\ peak \in Nat
  /\ pc \in [Procs -> {"idle", "config", "slots", "reload", "save"}]
  /\ call \in [Procs -> Calls]
  /\ steps \in [Procs -> SUBSET Steps]
  /\ capacity \in [Procs -> Nat]
  /\ entity \in [Procs -> OrderRows]

(***************************************************************************)
(* reserveSlotCapacity checks the limit under the row lock, so however     *)
(* bookings, releases and changes of the limit interleave, no slot is ever *)
(* booked beyond the largest limit the organization has had.               *)
(***************************************************************************)
CapacityNeverExceeded == \A s \in Slots : dishesBooked[s] <= peak

\* The slot p's next step needs while another transaction has its row.
WaitsFor(p, q) ==
  /\ p # q
  /\ pc[p] = "slots"
  /\ \E st \in steps[p] :
       /\ EarliestFirst(steps[p], st)
       /\ lockedBy[st.slot] = q
       /\ st.kind = "reserve" \/ st.slot \in slotRows

(***************************************************************************)
(* applyScheduleChange "locks the old and new slots in ascending time      *)
(* order so two orders swapping slots concurrently can't deadlock": there  *)
(* is never a set of handlers each of which waits for another of them.     *)
(***************************************************************************)
NoWaitCycle ==
  \A P \in SUBSET Procs : P # {} => \E p \in P : \A q \in P : ~ WaitsFor(p, q)

(***************************************************************************)
(* As long as two handlers of the same order never overlap, a slot's       *)
(* counter is exactly the number of dishes its orders hold: no reservation *)
(* leaks, is lost, or is taken twice.  The counter and the orders live in  *)
(* different tables and every handler updates them in separate steps.      *)
(***************************************************************************)
BookingsMatchOrders ==
  SerialPerOrder => \A s \in Slots : dishesBooked[s] = Load(orders, s)

(***************************************************************************)
(* Then the handlers implement what KitchenCapacity promises.              *)
(***************************************************************************)
Kitchen == INSTANCE KitchenCapacity WITH commitments <- orders, ceiling <- peak
KitchenSpec == Kitchen!Spec

(***************************************************************************)
(* Every handler that has started is answered: no two handlers starve or   *)
(* block each other on slot rows.                                          *)
(***************************************************************************)
CallsFinish == \A p \in Procs : pc[p] # "idle" ~> pc[p] = "idle"

(***************************************************************************)
(* entities/order.entity.ts on scheduledFor: "When set, must fall on a     *)
(* valid slot boundary ... and is backed by a capacity reservation on the  *)
(* matching OrderSlot row."                                                *)
(***************************************************************************)
ScheduledOrdersBacked == \A s \in Slots : Load(orders, s) <= dishesBooked[s]
================================================================================
