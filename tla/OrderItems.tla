------------------------------- MODULE OrderItems -------------------------------
(***************************************************************************)
(* The items of one order, their way through the kitchen and the order's   *)
(* total (orders.service.ts addItem, removeItem, updateOrderItem,          *)
(* sendToKitchen, markItemPrepared, recomputeOrderTotals,                  *)
(* validateItemStatusTransition, and update / updatePaymentStatus, which   *)
(* save the order with the items they read).                               *)
(*                                                                         *)
(* addItem, removeItem and updateOrderItem write their item (whose row     *)
(* stays locked), reload the order inside the transaction, recompute the   *)
(* total and save order and items.  TypeORM's save loads the rows again    *)
(* and writes the columns in which the object in memory differs from what  *)
(* it loaded.  sendToKitchen is one UPDATE over the ids it read as NEW.    *)
(* No handler locks the order before it decides.                           *)
(***************************************************************************)
EXTENDS Integers, FiniteSets

CONSTANTS Procs,  \* handlers that may be in flight at once
          Items,  \* item ids (bound on the items ever added)
          None,   \* no item, no process
          Totals  \* values of item.total

ASSUME OrderItemsAssumption ==
  /\ None \notin Items /\ None \notin Procs
  /\ Totals \subseteq Nat /\ IsFiniteSet(Items)

VARIABLES items,      \* committed order_items: kitchen status and total
          itemLock,   \* the transaction that has written an item's row
          total,      \* Order.total
          added,      \* ids given out so far
          pc, call,   \* the handlers in flight
          entity,     \* the order in memory: its items and its total
          loaded,     \* the rows save() found when it loaded them
          wasSent,    \* history: items that were ever SENT_TO_KITCHEN
          overlapped  \* history: two handlers of the order once overlapped

vars == <<items, itemLock, total, added, pc, call, entity, loaded, wasSent,
          overlapped>>

ItemStatus == {"NEW", "SENT_TO_KITCHEN", "PREPARED"}
ItemRows == [status : ItemStatus, total : Totals]
NoItems == [i \in {} |-> None]
NoOrder == [items |-> NoItems, total |-> 0]
NoCall == [op |-> "none", item |-> None, row |-> None]

\* One element per unit of money, so that a sum is a cardinality.
Units(rows) == UNION {{i} \X (1 .. rows[i].total) : i \in DOMAIN rows}
Sum(rows) == Cardinality(Units(rows))
With(rows, i, row) == [j \in DOMAIN rows \cup {i} |-> IF j = i THEN row ELSE rows[j]]
Without(rows, i) == [j \in DOMAIN rows \ {i} |-> rows[j]]

\* save() of one row: the columns of mine that differ from the loaded row.
Merge(current, base, mine) ==
  [c \in DOMAIN mine |-> IF mine[c] # base[c] THEN mine[c] ELSE current[c]]

Init ==
  /\ items = NoItems
  /\ itemLock = [i \in Items |-> None]
  /\ total = 0
  /\ added = {}
  /\ pc = [p \in Procs |-> "idle"]
  /\ call = [p \in Procs |-> NoCall]
  /\ entity = [p \in Procs |-> NoOrder]
  /\ loaded = [p \in Procs |-> NoOrder]
  /\ wasSent = {}
  /\ overlapped = FALSE

AllowedItemTransitions ==
  [NEW |-> {"SENT_TO_KITCHEN"}, SENT_TO_KITCHEN |-> {"PREPARED"}, PREPARED |-> {}]
AnyUnprepared(from, to) == from # "PREPARED"
validateItemStatusTransition(from, to) == to \in AllowedItemTransitions[from]

-------------------------------------------------------------------------------
(* A handler reads the order with its items. *)

ReadItems == [items |-> items, total |-> total]

Begin(p, at, op, item, row, copy) ==
  /\ pc[p] = "idle"
  /\ overlapped' = (overlapped \/ \E q \in Procs : pc[q] # "idle")
  /\ pc' = [pc EXCEPT ![p] = at]
  /\ call' = [call EXCEPT ![p] = [op |-> op, item |-> item, row |-> row]]
  /\ entity' = [entity EXCEPT ![p] = copy]
  /\ UNCHANGED <<items, itemLock, total, loaded, wasSent>>

AddItem(p) == \E i \in Items \ added, n \in Totals :
  /\ Begin(p, "item", "addItem", i, [status |-> "NEW", total |-> n], NoOrder)
  /\ added' = added \cup {i}

RemoveItem(p) == \E i \in DOMAIN items :
  /\ Begin(p, "item", "removeItem", i, None, NoOrder)
  /\ UNCHANGED added

\* The item is saved as it was read, with the new total.
UpdateOrderItem(p) == \E i \in DOMAIN items, n \in Totals :
  /\ Begin(p, "item", "updateOrderItem", i, [items[i] EXCEPT !.total = n], NoOrder)
  /\ UNCHANGED added

\* update and updatePaymentStatus: the whole order goes back as it was read.
UpdateOrder(p) ==
  /\ Begin(p, "save", "update", None, None, ReadItems)
  /\ UNCHANGED added

MarkItemPrepared(p) == \E i \in DOMAIN items :
  /\ validateItemStatusTransition(items[i].status, "PREPARED")
  /\ Begin(p, "save", "markItemPrepared", i, None,
           [items |-> [j \in {i} |-> [items[i] EXCEPT !.status = "PREPARED"]], total |-> total])
  /\ UNCHANGED added

SendToKitchen(p) ==
  /\ \E i \in DOMAIN items : items[i].status = "NEW"
  /\ Begin(p, "save", "sendToKitchen", None, None, ReadItems)
  /\ UNCHANGED added
-------------------------------------------------------------------------------
\* The INSERT, DELETE or save of the item itself.
ItemOps == {"addItem", "removeItem", "updateOrderItem"}

WriteItem(p) ==
  /\ pc[p] = "item"
  /\ itemLock[call[p].item] = None
  /\ itemLock' = [itemLock EXCEPT ![call[p].item] = p]
  /\ pc' = [pc EXCEPT ![p] = "reload"]
  /\ UNCHANGED <<items, total, added, call, entity, loaded, wasSent, overlapped>>

\* Committed rows as the transaction sees them, its own change included.
Own(p, rows) == LET c == call[p] IN
  IF c.op \notin ItemOps THEN rows
  ELSE IF c.op = "removeItem" THEN Without(rows, c.item) ELSE With(rows, c.item, c.row)

CommittedTotal(rows) == total
recomputeOrderTotals(rows) == Sum(rows)

\* findOne inside the transaction, then the totals.
ReloadOrder(p) ==
  /\ pc[p] = "reload"
  /\ entity' = [entity EXCEPT ![p] = [items |-> Own(p, items),
                                     total |-> recomputeOrderTotals(Own(p, items))]]
  /\ pc' = [pc EXCEPT ![p] = "save"]
  /\ UNCHANGED <<items, itemLock, total, added, call, loaded, wasSent, overlapped>>

\* markItemPrepared saves the item alone.
SavesOrder(p) == call[p].op # "markItemPrepared"

\* save() loads the rows.  An item of the order that the object never saw
\* would lose its NOT NULL orderId: the save of the order fails (Rollback).
LoadRows(p) ==
  /\ pc[p] = "save" /\ call[p].op # "sendToKitchen"
  /\ SavesOrder(p) => DOMAIN Own(p, items) \subseteq DOMAIN entity[p].items
  /\ loaded' = [loaded EXCEPT ![p] = [items |-> Own(p, items), total |-> total]]
  /\ pc' = [pc EXCEPT ![p] = "write"]
  /\ UNCHANGED <<items, itemLock, total, added, call, entity, wasSent, overlapped>>

\* The transaction ends and its query runner is released, or is forgotten.
NotReleased(p) == itemLock
Released(p) == [i \in Items |-> IF itemLock[i] = p THEN None ELSE itemLock[i]]

Finish(p) ==
  /\ pc' = [pc EXCEPT ![p] = "idle"]
  /\ call' = [call EXCEPT ![p] = NoCall]
  /\ entity' = [entity EXCEPT ![p] = NoOrder]
  /\ loaded' = [loaded EXCEPT ![p] = NoOrder]
  /\ itemLock' = Released(p)
  /\ UNCHANGED <<added, overlapped>>

Write(rows, sum) ==
  /\ items' = rows
  /\ total' = sum
  /\ wasSent' = wasSent \cup {i \in DOMAIN rows : rows[i].status = "SENT_TO_KITCHEN"}

\* The rows save() writes, with the transaction's own change underneath.
\* A row that is gone by now is not updated; a row it found gone is inserted.
Written(p) ==
  LET mine == entity[p].items
      base == loaded[p].items
      now == Own(p, items)
  IN [i \in DOMAIN now \cup (DOMAIN mine \ DOMAIN base) |->
        IF i \notin DOMAIN now THEN mine[i]
        ELSE IF i \in DOMAIN mine \cap DOMAIN base THEN Merge(now[i], base[i], mine[i])
        ELSE now[i]]

Touched(p) ==
  LET mine == entity[p].items
      base == loaded[p].items
  IN {i \in DOMAIN mine : i \notin DOMAIN base \/ mine[i] # base[i]}

\* The writes of save(order) or save(item), and the commit.
SaveRows(p) ==
  /\ pc[p] = "write"
  /\ \A i \in Touched(p) : itemLock[i] \in {None, p}
  /\ (DOMAIN entity[p].items \ DOMAIN loaded[p].items) \cap DOMAIN items = {}
  /\ Write(Written(p), IF SavesOrder(p) /\ entity[p].total # loaded[p].total
                         THEN entity[p].total ELSE total)
  /\ Finish(p)

\* UPDATE order_items SET status WHERE id IN (the ids that were NEW).
AllIds(rows) == DOMAIN rows
NewIds(rows) == {i \in DOMAIN rows : rows[i].status = "NEW"}

UpdateStatuses(p) ==
  /\ pc[p] = "save"
  /\ call[p].op = "sendToKitchen"
  /\ \A i \in NewIds(entity[p].items) : itemLock[i] = None
  /\ Write([i \in DOMAIN items |-> IF i \in NewIds(entity[p].items)
              THEN [items[i] EXCEPT !.status = "SENT_TO_KITCHEN"] ELSE items[i]], total)
  /\ Finish(p)

Rollback(p) ==
  /\ pc[p] # "idle"
  /\ Finish(p)
  /\ UNCHANGED <<items, total, wasSent>>

Next == \E p \in Procs :
  \/ AddItem(p) \/ RemoveItem(p) \/ UpdateOrderItem(p) \/ UpdateOrder(p)
  \/ MarkItemPrepared(p) \/ SendToKitchen(p)
  \/ WriteItem(p) \/ ReloadOrder(p) \/ LoadRows(p) \/ SaveRows(p) \/ UpdateStatuses(p)
  \/ Rollback(p)

Spec == Init /\ [][Next]_vars

-------------------------------------------------------------------------------
(***************************************************************************)
(* The shape of every variable; a row is locked only by a transaction that *)
(* is still in flight.                                                     *)
(***************************************************************************)
ItemMap(rows) == DOMAIN rows \subseteq Items /\ \A i \in DOMAIN rows : rows[i] \in ItemRows
Copies == {entity[p] : p \in Procs} \cup {loaded[p] : p \in Procs}

TypeOK ==
  /\ ItemMap(items) /\ DOMAIN items \subseteq added
  /\ total \in Nat /\ added \subseteq Items /\ wasSent \subseteq added
  /\ \A i \in Items : itemLock[i] # None => pc[itemLock[i]] \in {"reload", "save", "write"}
  /\ overlapped \in BOOLEAN
  /\ pc \in [Procs -> {"idle", "item", "reload", "save", "write"}]
  /\ \A p \in Procs : (pc[p] = "idle") <=> (call[p] = NoCall)
  /\ \A copy \in Copies : ItemMap(copy.items) /\ copy.total \in Nat

(***************************************************************************)
(* An item reaches PREPARED only if the kitchen once had it, however the   *)
(* handlers of the order overlap and whatever they write back.             *)
(***************************************************************************)
PreparedWasSent ==
  \A i \in DOMAIN items : items[i].status = "PREPARED" => i \in wasSent

(***************************************************************************)
(* As long as the handlers of an order do not overlap, its total is the    *)
(* sum of its items after every commit, whichever step of a handler fails. *)
(***************************************************************************)
SerialTotal == ~ overlapped => total = Sum(items)

\* What an item may do in one commit.
LegalStep(from, to) == from = to \/ to \in AllowedItemTransitions[from]
KitchenStep ==
  \A i \in DOMAIN items \cap DOMAIN items' : LegalStep(items[i].status, items'[i].status)

(***************************************************************************)
(* Without overlap an item also only moves forward in the kitchen:         *)
(* validateItemStatusTransition, "Legal: NEW -> SENT_TO_KITCHEN,           *)
(* SENT_TO_KITCHEN -> PREPARED".                                           *)
(***************************************************************************)
SerialKitchen == [][~ overlapped => KitchenStep]_vars
================================================================================
