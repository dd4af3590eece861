---------------------------- MODULE OrderItemsProofs ----------------------------
(***************************************************************************)
(* Theorems about OrderItems, for any number of handlers, items and        *)
(* prices: the types, that only what the kitchen had is ever PREPARED,     *)
(* and, while the handlers of the order do not overlap, that its total is  *)
(* the sum of its items and that items only move forward.                  *)
(*                                                                         *)
(* TypeOK needs what a handler in flight names and holds (HandlerOK).      *)
(* PREPARED rows travel in the handlers' memory, so what is true of the    *)
(* table has to be true of every copy (SentInv).  Without overlap there is *)
(* one handler at most, and what it holds is current (Current).            *)
(***************************************************************************)
EXTENDS OrderItems, FiniteSetTheorems, TLAPS

\* The handlers of the order as a whole.
OrderOps == {"update", "sendToKitchen", "markItemPrepared"}

\* A copy of the order, and what a handler names and holds.
CopyOK(copy) == ItemMap(copy.items) /\ DOMAIN copy.items \subseteq added /\ copy.total \in Nat
CallOK(at, c) ==
  /\ at # "idle" => c.op \in ItemOps \cup OrderOps
  /\ at \in {"item", "reload"} => c.op \in ItemOps
  /\ at = "write" => c.op # "sendToKitchen"
  /\ c.op \in ItemOps => c.item \in added
  /\ c.op \in {"addItem", "updateOrderItem"} => c.row \in ItemRows
HandlerOK(p) ==
  /\ pc[p] \in {"idle", "item", "reload", "save", "write"}
  /\ (pc[p] = "idle") <=> (call[p] = NoCall)
  /\ CallOK(pc[p], call[p])
  /\ CopyOK(entity[p]) /\ CopyOK(loaded[p])

TableOK == /\ ItemMap(items) /\ DOMAIN items \subseteq added /\ total \in Nat
           /\ added \subseteq Items /\ wasSent \subseteq added /\ overlapped \in BOOLEAN
LocksOK == \A i \in Items :
  /\ itemLock[i] \in Procs \cup {None}
  /\ itemLock[i] # None => pc[itemLock[i]] \in {"reload", "save", "write"}
Shapes == /\ pc = [p \in Procs |-> pc[p]] /\ call = [p \in Procs |-> call[p]]
          /\ entity = [p \in Procs |-> entity[p]] /\ loaded = [p \in Procs |-> loaded[p]]
          /\ itemLock = [i \in Items |-> itemLock[i]]

TypeInv == Shapes /\ TableOK /\ LocksOK /\ \A p \in Procs : HandlerOK(p)

USE OrderItemsAssumption

-------------------------------------------------------------------------------
(* Rows and sums *)

(***************************************************************************)
(* The money of a set of items can be counted.                             *)
(***************************************************************************)
LEMMA SumType ==
  ASSUME NEW rows, ItemMap(rows)
  PROVE  Sum(rows) \in Nat
<1>1. IsFiniteSet(DOMAIN rows)
  BY FS_Subset DEF ItemMap
<1>2. ASSUME NEW i \in DOMAIN rows PROVE IsFiniteSet({i} \X (1 .. rows[i].total))
  <2>1. PICK n \in Nat : n = rows[i].total
    BY DEF ItemMap, ItemRows
  <2>2. IsFiniteSet(1 .. n)
    BY FS_Interval
  <2>3. IsFiniteSet({i})
    BY FS_Singleton
  <2>4. QED
    BY <2>1, <2>2, <2>3, FS_Product
<1>. DEFINE parts == {{i} \X (1 .. rows[i].total) : i \in DOMAIN rows}
<1>3. IsFiniteSet(parts)
  <2>. DEFINE part == [i \in DOMAIN rows |-> {i} \X (1 .. rows[i].total)]
  <2>1. part \in Surjection(DOMAIN rows, parts)
    BY DEF Surjection
  <2>2. QED
    BY <1>1, <2>1, FS_Surjection
<1>4. \A part \in parts : IsFiniteSet(part)
  BY <1>2
<1>5. IsFiniteSet(UNION parts)
  BY <1>3, <1>4, FS_UNION
<1>6. QED
  BY <1>5, FS_CardinalityType DEF Sum, Units

(***************************************************************************)
(* A sum depends on nothing but which items there are and what they cost.  *)
(***************************************************************************)
LEMMA SameSum ==
  ASSUME NEW rows, NEW other, DOMAIN rows = DOMAIN other,
         \A i \in DOMAIN rows : rows[i].total = other[i].total
  PROVE  Sum(rows) = Sum(other)
<1>1. Units(rows) = Units(other)
  BY DEF Units
<1>2. QED
  BY <1>1 DEF Sum

(***************************************************************************)
(* No items, no money.                                                     *)
(***************************************************************************)
LEMMA NothingToPay == Sum(NoItems) = 0
<1>1. Units(NoItems) = {}
  BY DEF Units, NoItems
<1>2. QED
  BY <1>1, FS_EmptySet DEF Sum

(***************************************************************************)
(* save() of a row takes each column from one of two rows, and of a row    *)
(* that did not change it takes none.                                      *)
(***************************************************************************)
LEMMA MergeType ==
  ASSUME NEW current \in ItemRows, NEW base \in ItemRows, NEW mine \in ItemRows
  PROVE  LET row == Merge(current, base, mine)
         IN /\ row \in ItemRows
            /\ row.status = IF mine.status # base.status THEN mine.status ELSE current.status
            /\ row.total = IF mine.total # base.total THEN mine.total ELSE current.total
BY DEF Merge, ItemRows

-------------------------------------------------------------------------------
(* Types *)

(***************************************************************************)
(* Handlers, copies and tables of these shapes have their types.           *)
(***************************************************************************)
LEMMA TypesFollow == TypeInv => TypeOK
<1>. SUFFICES ASSUME TypeInv PROVE TypeOK
  OBVIOUS
<1>1. pc \in [Procs -> {"idle", "item", "reload", "save", "write"}]
  BY DEF TypeInv, Shapes, HandlerOK
<1>2. \A copy \in Copies : ItemMap(copy.items) /\ copy.total \in Nat
  BY DEF Copies, TypeInv, HandlerOK, CopyOK
<1>3. \A i \in Items : itemLock[i] # None => pc[itemLock[i]] \in {"reload", "save", "write"}
  BY DEF TypeInv, LocksOK
<1>4. \A p \in Procs : (pc[p] = "idle") <=> (call[p] = NoCall)
  BY DEF TypeInv, HandlerOK
<1>5. TableOK
  BY DEF TypeInv
<1>6. QED
  BY <1>1, <1>2, <1>3, <1>4, <1>5 DEF TypeOK, TableOK

(***************************************************************************)
(* The empty order is an order.                                            *)
(***************************************************************************)
LEMMA NoOrderOK == CopyOK(NoOrder)
BY DEF CopyOK, NoOrder, NoItems, ItemMap

(***************************************************************************)
(* The service starts with every variable of its type.                     *)
(***************************************************************************)
LEMMA TypeInit == Init => TypeInv
<1>. SUFFICES ASSUME Init PROVE TypeInv
  OBVIOUS
<1>1. Shapes /\ LocksOK
  BY DEF Init, Shapes, LocksOK
<1>2. TableOK
  BY DEF Init, TableOK, ItemMap, NoItems
<1>3. ASSUME NEW p \in Procs PROVE HandlerOK(p)
  BY NoOrderOK DEF Init, HandlerOK, CallOK, NoCall, ItemOps
<1>4. QED
  BY <1>1, <1>2, <1>3 DEF TypeInv

(***************************************************************************)
(* A handler that does nothing stays as it is while ids are given out.     *)
(***************************************************************************)
LEMMA HandlerStays ==
  ASSUME NEW q, HandlerOK(q), pc'[q] = pc[q], call'[q] = call[q],
         entity'[q] = entity[q], loaded'[q] = loaded[q], added \subseteq added'
  PROVE  HandlerOK(q)'
BY DEF HandlerOK, CallOK, CopyOK

(***************************************************************************)
(* Beginning, whatever the operation.                                      *)
(***************************************************************************)
LEMMA BeginType ==
  ASSUME TypeInv, NEW p \in Procs, NEW at \in {"item", "save"}, NEW op, NEW item, NEW row,
         NEW copy, Begin(p, at, op, item, row, copy),
         added \subseteq added', added' \subseteq Items,
         CallOK(at, [op |-> op, item |-> item, row |-> row])', CopyOK(copy)'
  PROVE  TypeInv'
<1>1. /\ pc[p] = "idle" /\ pc' = [pc EXCEPT ![p] = at]
      /\ call' = [call EXCEPT ![p] = [op |-> op, item |-> item, row |-> row]]
      /\ entity' = [entity EXCEPT ![p] = copy]
      /\ overlapped' \in BOOLEAN
      /\ UNCHANGED <<items, itemLock, total, loaded, wasSent>>
  BY DEF Begin, TypeInv, TableOK
<1>2. Shapes'
  BY <1>1 DEF TypeInv, Shapes
<1>3. TableOK'
  BY <1>1 DEF TypeInv, TableOK, ItemMap
<1>4. /\ pc'[p] = at /\ call'[p] = [op |-> op, item |-> item, row |-> row]
      /\ entity'[p] = copy /\ loaded'[p] = loaded[p]
      /\ \A q \in Procs : q # p => pc'[q] = pc[q] /\ call'[q] = call[q]
                                     /\ entity'[q] = entity[q] /\ loaded'[q] = loaded[q]
  BY <1>1 DEF TypeInv, Shapes
<1>5. LocksOK'
  BY <1>1, <1>4 DEF TypeInv, LocksOK
<1>6. HandlerOK(p)'
  <2>1. call'[p] # NoCall
    BY <1>4 DEF CallOK, NoCall, ItemOps, OrderOps
  <2>2. CopyOK(loaded[p])'
    BY <1>1 DEF TypeInv, HandlerOK, CopyOK
  <2>3. QED
    BY <1>4, <2>1, <2>2 DEF HandlerOK, CallOK, CopyOK
<1>7. ASSUME NEW q \in Procs, q # p PROVE HandlerOK(q)'
  BY <1>4, <1>7, HandlerStays DEF TypeInv
<1>8. QED
  BY <1>2, <1>3, <1>5, <1>6, <1>7 DEF TypeInv

(***************************************************************************)
(* Every operation starts with a call and a copy of the right form.        *)
(***************************************************************************)
LEMMA StartType ==
  ASSUME TypeInv, NEW p \in Procs,
         \/ AddItem(p) \/ RemoveItem(p) \/ UpdateOrderItem(p) \/ UpdateOrder(p)
         \/ MarkItemPrepared(p) \/ SendToKitchen(p)
  PROVE  TypeInv'
<1>rows. /\ DOMAIN items \subseteq added /\ added \subseteq Items
         /\ \A i \in DOMAIN items : items[i] \in ItemRows
  BY DEF TypeInv, TableOK, ItemMap
<1>none. added \subseteq added' => CopyOK(NoOrder)'
  BY DEF CopyOK, NoOrder, NoItems, ItemMap
<1>1. CASE AddItem(p)
  <2>1. PICK i \in Items \ added, n \in Totals :
          /\ Begin(p, "item", "addItem", i, [status |-> "NEW", total |-> n], NoOrder)
          /\ added' = added \cup {i}
    BY <1>1 DEF AddItem
  <2>2. PICK row \in ItemRows : row = [status |-> "NEW", total |-> n]
    BY DEF ItemRows, ItemStatus
  <2>3. CallOK("item", [op |-> "addItem", item |-> i, row |-> row])'
    BY <2>1 DEF CallOK, ItemOps
  <2>4. QED
    BY <1>rows, <1>none, <2>1, <2>2, <2>3, BeginType
<1>2. CASE RemoveItem(p)
  <2>1. PICK i \in DOMAIN items :
          Begin(p, "item", "removeItem", i, None, NoOrder) /\ UNCHANGED added
    BY <1>2 DEF RemoveItem
  <2>2. CallOK("item", [op |-> "removeItem", item |-> i, row |-> None])'
    BY <1>rows, <2>1 DEF CallOK, ItemOps
  <2>3. QED
    BY <1>rows, <1>none, <2>1, <2>2, BeginType
<1>3. CASE UpdateOrderItem(p)
  <2>1. PICK i \in DOMAIN items, n \in Totals :
          /\ Begin(p, "item", "updateOrderItem", i, [items[i] EXCEPT !.total = n], NoOrder)
          /\ UNCHANGED added
    BY <1>3 DEF UpdateOrderItem
  <2>2. PICK row \in ItemRows : row = [items[i] EXCEPT !.total = n]
    BY <1>rows DEF ItemRows
  <2>3. CallOK("item", [op |-> "updateOrderItem", item |-> i, row |-> row])'
    BY <1>rows, <2>1 DEF CallOK, ItemOps
  <2>4. QED
    BY <1>rows, <1>none, <2>1, <2>2, <2>3, BeginType
<1>4. CASE UpdateOrder(p) \/ SendToKitchen(p)
  <2>1. PICK op \in {"update", "sendToKitchen"} :
          Begin(p, "save", op, None, None, ReadItems) /\ UNCHANGED added
    BY <1>4 DEF UpdateOrder, SendToKitchen
  <2>2. PICK copy : copy = ReadItems
    OBVIOUS
  <2>3. CallOK("save", [op |-> op, item |-> None, row |-> None])'
    BY DEF CallOK, ItemOps, OrderOps
  <2>4. CopyOK(copy)'
    BY <2>1, <2>2 DEF CopyOK, ReadItems, TypeInv, TableOK, ItemMap
  <2>5. QED
    BY <1>rows, <2>1, <2>2, <2>3, <2>4, BeginType
<1>5. CASE MarkItemPrepared(p)
  <2>1. PICK i \in DOMAIN items :
          /\ Begin(p, "save", "markItemPrepared", i, None,
               [items |-> [j \in {i} |-> [items[i] EXCEPT !.status = "PREPARED"]], total |-> total])
          /\ UNCHANGED added
    BY <1>5 DEF MarkItemPrepared
  <2>2. PICK row \in ItemRows : row = [items[i] EXCEPT !.status = "PREPARED"]
    BY <1>rows DEF ItemRows, ItemStatus
  <2>3. PICK copy : copy = [items |-> [j \in {i} |-> row], total |-> total]
    OBVIOUS
  <2>4. CallOK("save", [op |-> "markItemPrepared", item |-> i, row |-> None])'
    BY DEF CallOK, ItemOps, OrderOps
  <2>5. CopyOK(copy)'
    BY <1>rows, <2>1, <2>3 DEF CopyOK, TypeInv, TableOK, ItemMap
  <2>6. QED
    BY <1>rows, <2>1, <2>2, <2>3, <2>4, <2>5, BeginType
<1>6. QED
  BY <1>1, <1>2, <1>3, <1>4, <1>5

(***************************************************************************)
(* What a transaction sees of the order are rows of items that were added. *)
(***************************************************************************)
LEMMA OwnType ==
  ASSUME TypeInv, NEW p \in Procs
  PROVE  ItemMap(Own(p, items)) /\ DOMAIN Own(p, items) \subseteq added
<1>1. ItemMap(items) /\ DOMAIN items \subseteq added /\ added \subseteq Items
  BY DEF TypeInv, TableOK
<1>2. CallOK(pc[p], call[p])
  BY DEF TypeInv, HandlerOK
<1>3. CASE call[p].op \notin ItemOps
  BY <1>1, <1>3 DEF Own
<1>4. CASE call[p].op = "removeItem"
  BY <1>1, <1>4 DEF Own, ItemOps, Without, ItemMap
<1>5. CASE call[p].op \in {"addItem", "updateOrderItem"}
  <2>1. call[p].item \in added /\ call[p].row \in ItemRows
    BY <1>2, <1>5 DEF CallOK, ItemOps
  <2>2. Own(p, items) = With(items, call[p].item, call[p].row)
    BY <1>5 DEF Own, ItemOps
  <2>3. QED
    BY <1>1, <2>1, <2>2 DEF With, ItemMap
<1>6. QED
  BY <1>3, <1>4, <1>5 DEF ItemOps

(***************************************************************************)
(* A handler ends, with or without a change of the order.                  *)
(***************************************************************************)
LEMMA FinishType ==
  ASSUME TypeInv, NEW p \in Procs, Finish(p), ItemMap(items)', DOMAIN items' \subseteq added,
         total' \in Nat, wasSent' \subseteq added
  PROVE  TypeInv'
<1>1. /\ pc' = [pc EXCEPT ![p] = "idle"] /\ call' = [call EXCEPT ![p] = NoCall]
      /\ entity' = [entity EXCEPT ![p] = NoOrder] /\ loaded' = [loaded EXCEPT ![p] = NoOrder]
      /\ itemLock' = [i \in Items |-> IF itemLock[i] = p THEN None ELSE itemLock[i]]
      /\ UNCHANGED <<added, overlapped>>
  BY DEF Finish, Released
<1>2. Shapes'
  BY <1>1 DEF TypeInv, Shapes
<1>3. TableOK'
  BY <1>1 DEF TypeInv, TableOK
<1>4. /\ pc'[p] = "idle" /\ call'[p] = NoCall /\ entity'[p] = NoOrder /\ loaded'[p] = NoOrder
      /\ \A q \in Procs : q # p => pc'[q] = pc[q] /\ call'[q] = call[q]
                                     /\ entity'[q] = entity[q] /\ loaded'[q] = loaded[q]
  BY <1>1 DEF TypeInv, Shapes
<1>5. LocksOK'
  BY <1>1, <1>4 DEF TypeInv, LocksOK
<1>6. HandlerOK(p)'
  BY <1>1, <1>4 DEF HandlerOK, CallOK, CopyOK, NoCall, ItemOps, NoOrder, NoItems, ItemMap
<1>7. ASSUME NEW q \in Procs, q # p PROVE HandlerOK(q)'
  BY <1>1, <1>4, <1>7, HandlerStays DEF TypeInv
<1>8. QED
  BY <1>2, <1>3, <1>5, <1>6, <1>7 DEF TypeInv

(***************************************************************************)
(* The steps inside a transaction: the item is written, the order is       *)
(* reloaded, save() loads its rows.                                        *)
(***************************************************************************)
LEMMA InsideType ==
  ASSUME TypeInv, NEW p \in Procs, WriteItem(p) \/ ReloadOrder(p) \/ LoadRows(p)
  PROVE  TypeInv'
<1>own. ItemMap(Own(p, items)) /\ DOMAIN Own(p, items) \subseteq added
  BY OwnType
<1>1. CASE WriteItem(p)
  <2>1. /\ pc[p] = "item" /\ itemLock' = [itemLock EXCEPT ![call[p].item] = p]
        /\ pc' = [pc EXCEPT ![p] = "reload"]
        /\ UNCHANGED <<items, total, added, call, entity, loaded, wasSent, overlapped>>
    BY <1>1 DEF WriteItem
  <2>2. /\ pc'[p] = "reload" /\ \A q \in Procs : q # p => pc'[q] = pc[q]
    BY <2>1 DEF TypeInv, Shapes
  <2>3. Shapes' /\ TableOK'
    BY <2>1 DEF TypeInv, Shapes, TableOK, ItemMap
  <2>4. LocksOK'
    BY <2>1, <2>2 DEF TypeInv, Shapes, LocksOK
  <2>5. HandlerOK(p)'
    BY <2>1, <2>2 DEF TypeInv, HandlerOK, CallOK, CopyOK, ItemMap
  <2>6. ASSUME NEW q \in Procs, q # p PROVE HandlerOK(q)'
    BY <2>1, <2>2, <2>6, HandlerStays DEF TypeInv
  <2>7. QED
    BY <2>3, <2>4, <2>5, <2>6 DEF TypeInv
<1>2. CASE ReloadOrder(p)
  <2>1. PICK copy : copy = [items |-> Own(p, items), total |-> recomputeOrderTotals(Own(p, items))]
    OBVIOUS
  <2>2. /\ pc[p] = "reload" /\ entity' = [entity EXCEPT ![p] = copy]
        /\ pc' = [pc EXCEPT ![p] = "save"]
        /\ UNCHANGED <<items, itemLock, total, added, call, loaded, wasSent, overlapped>>
    BY <1>2, <2>1 DEF ReloadOrder
  <2>3. /\ pc'[p] = "save" /\ entity'[p] = copy
        /\ \A q \in Procs : q # p => pc'[q] = pc[q] /\ entity'[q] = entity[q]
    BY <2>2 DEF TypeInv, Shapes
  <2>4. Shapes' /\ TableOK'
    BY <2>2 DEF TypeInv, Shapes, TableOK, ItemMap
  <2>5. LocksOK'
    BY <2>2, <2>3 DEF TypeInv, LocksOK
  <2>6. CopyOK(copy)
    BY <1>own, <2>1, SumType DEF CopyOK, recomputeOrderTotals
  <2>7. HandlerOK(p)'
    BY <2>2, <2>3, <2>6 DEF TypeInv, HandlerOK, CallOK, CopyOK, ItemMap
  <2>8. ASSUME NEW q \in Procs, q # p PROVE HandlerOK(q)'
    BY <2>2, <2>3, <2>8, HandlerStays DEF TypeInv
  <2>9. QED
    BY <2>4, <2>5, <2>7, <2>8 DEF TypeInv
<1>3. CASE LoadRows(p)
  <2>1. PICK copy : copy = [items |-> Own(p, items), total |-> total]
    OBVIOUS
  <2>2. /\ pc[p] = "save" /\ call[p].op # "sendToKitchen"
        /\ loaded' = [loaded EXCEPT ![p] = copy]
        /\ pc' = [pc EXCEPT ![p] = "write"]
        /\ UNCHANGED <<items, itemLock, total, added, call, entity, wasSent, overlapped>>
    BY <1>3, <2>1 DEF LoadRows
  <2>3. /\ pc'[p] = "write" /\ loaded'[p] = copy
        /\ \A q \in Procs : q # p => pc'[q] = pc[q] /\ loaded'[q] = loaded[q]
    BY <2>2 DEF TypeInv, Shapes
  <2>4. Shapes' /\ TableOK'
    BY <2>2 DEF TypeInv, Shapes, TableOK, ItemMap
  <2>5. LocksOK'
    BY <2>2, <2>3 DEF TypeInv, LocksOK
  <2>6. CopyOK(copy)
    BY <1>own, <2>1 DEF CopyOK, TypeInv, TableOK
  <2>7. HandlerOK(p)'
    BY <2>2, <2>3, <2>6 DEF TypeInv, HandlerOK, CallOK, CopyOK, ItemMap
  <2>8. ASSUME NEW q \in Procs, q # p PROVE HandlerOK(q)'
    BY <2>2, <2>3, <2>8, HandlerStays DEF TypeInv
  <2>9. QED
    BY <2>4, <2>5, <2>7, <2>8 DEF TypeInv
<1>4. QED
  BY <1>1, <1>2, <1>3

(***************************************************************************)
(* save() writes rows of items that were added, and takes each status from *)
(* the object in memory or from what the transaction sees.                 *)
(***************************************************************************)
LEMMA WrittenRows ==
  ASSUME TypeInv, NEW p \in Procs
  PROVE  /\ ItemMap(Written(p)) /\ DOMAIN Written(p) \subseteq added
         /\ \A i \in DOMAIN Written(p) :
              \/ /\ i \in DOMAIN entity[p].items
                 /\ Written(p)[i].status = entity[p].items[i].status
              \/ /\ i \in DOMAIN Own(p, items)
                 /\ Written(p)[i].status = Own(p, items)[i].status
<1>1. PICK mine : mine = entity[p].items
  OBVIOUS
<1>2. PICK base : base = loaded[p].items
  OBVIOUS
<1>3. PICK now : now = Own(p, items)
  OBVIOUS
<1>4. PICK rows : rows = Written(p)
  OBVIOUS
<1>5. rows = [i \in DOMAIN now \cup (DOMAIN mine \ DOMAIN base) |->
                IF i \notin DOMAIN now THEN mine[i]
                ELSE IF i \in DOMAIN mine \cap DOMAIN base THEN Merge(now[i], base[i], mine[i])
                ELSE now[i]]
  BY <1>1, <1>2, <1>3, <1>4 DEF Written
<1>6. /\ ItemMap(now) /\ DOMAIN now \subseteq added
      /\ ItemMap(mine) /\ DOMAIN mine \subseteq added
      /\ ItemMap(base) /\ added \subseteq Items
  BY <1>1, <1>2, <1>3, OwnType DEF TypeInv, TableOK, HandlerOK, CopyOK
<1>7. ASSUME NEW i \in DOMAIN rows
      PROVE  /\ rows[i] \in ItemRows /\ i \in added
             /\ \/ i \in DOMAIN mine /\ rows[i].status = mine[i].status
                \/ i \in DOMAIN now /\ rows[i].status = now[i].status
  <2>1. i \in DOMAIN now \cup (DOMAIN mine \ DOMAIN base)
    BY <1>5
  <2>2. CASE i \notin DOMAIN now
    BY <1>5, <1>6, <2>1, <2>2 DEF ItemMap
  <2>3. CASE i \in DOMAIN now /\ i \in DOMAIN mine \cap DOMAIN base
    <3>1. rows[i] = Merge(now[i], base[i], mine[i])
      BY <1>5, <2>3
    <3>2. now[i] \in ItemRows /\ base[i] \in ItemRows /\ mine[i] \in ItemRows
      BY <1>6, <2>3 DEF ItemMap
    <3>3. QED
      BY <1>6, <2>3, <3>1, <3>2, MergeType
  <2>4. CASE i \in DOMAIN now /\ i \notin DOMAIN mine \cap DOMAIN base
    BY <1>5, <1>6, <2>4 DEF ItemMap
  <2>5. QED
    BY <2>2, <2>3, <2>4
<1>8. ItemMap(rows) /\ DOMAIN rows \subseteq added
  BY <1>6, <1>7 DEF ItemMap
<1>9. QED
  BY <1>1, <1>3, <1>4, <1>7, <1>8

(***************************************************************************)
(* What a commit writes has its type.                                      *)
(***************************************************************************)
LEMMA CommitType ==
  ASSUME TypeInv, NEW p \in Procs, SaveRows(p) \/ UpdateStatuses(p) \/ Rollback(p)
  PROVE  TypeInv'
<1>table. /\ ItemMap(items) /\ DOMAIN items \subseteq added /\ added \subseteq Items
          /\ total \in Nat /\ wasSent \subseteq added
  BY DEF TypeInv, TableOK
<1>1. CASE SaveRows(p)
  <2>1. PICK rows : rows = Written(p)
    OBVIOUS
  <2>2. ItemMap(rows) /\ DOMAIN rows \subseteq added
    BY <2>1, WrittenRows
  <2>3. PICK sum : sum = IF SavesOrder(p) /\ entity[p].total # loaded[p].total
                         THEN entity[p].total ELSE total
    OBVIOUS
  <2>4. sum \in Nat
    BY <1>table, <2>3 DEF TypeInv, HandlerOK, CopyOK
  <2>5. Write(rows, sum) /\ Finish(p)
    BY <1>1, <2>1, <2>3 DEF SaveRows
  <2>6. /\ items' = rows /\ total' = sum
        /\ wasSent' = wasSent \cup {i \in DOMAIN rows : rows[i].status = "SENT_TO_KITCHEN"}
    BY <2>5 DEF Write
  <2>7. ItemMap(items)' /\ DOMAIN items' \subseteq added /\ total' \in Nat /\ wasSent' \subseteq added
    BY <1>table, <2>2, <2>4, <2>6 DEF ItemMap
  <2>8. QED
    BY <2>5, <2>7, FinishType
<1>2. CASE UpdateStatuses(p)
  <2>1. PICK rows : rows = [i \in DOMAIN items |-> IF i \in NewIds(entity[p].items)
                      THEN [items[i] EXCEPT !.status = "SENT_TO_KITCHEN"] ELSE items[i]]
    OBVIOUS
  <2>2. ItemMap(rows) /\ DOMAIN rows = DOMAIN items
    <3>1. \A i \in DOMAIN items : [items[i] EXCEPT !.status = "SENT_TO_KITCHEN"] \in ItemRows
      BY <1>table DEF ItemMap, ItemRows, ItemStatus
    <3>2. QED
      BY <1>table, <2>1, <3>1 DEF ItemMap
  <2>3. Write(rows, total) /\ Finish(p)
    BY <1>2, <2>1 DEF UpdateStatuses
  <2>4. /\ items' = rows /\ total' = total
        /\ wasSent' = wasSent \cup {i \in DOMAIN rows : rows[i].status = "SENT_TO_KITCHEN"}
    BY <2>3 DEF Write
  <2>5. ItemMap(items)' /\ DOMAIN items' \subseteq added /\ total' \in Nat /\ wasSent' \subseteq added
    BY <1>table, <2>2, <2>4 DEF ItemMap
  <2>6. QED
    BY <2>3, <2>5, FinishType
<1>3. CASE Rollback(p)
  <2>1. Finish(p) /\ UNCHANGED <<items, total, wasSent>>
    BY <1>3 DEF Rollback
  <2>2. QED
    BY <1>table, <2>1, FinishType DEF ItemMap
<1>4. QED
  BY <1>1, <1>2, <1>3

(***************************************************************************)
(* Every step keeps the shape of every variable.                           *)
(***************************************************************************)
LEMMA TypeNext == TypeInv /\ [Next]_vars => TypeInv'
<1>. SUFFICES ASSUME TypeInv, [Next]_vars PROVE TypeInv'
  OBVIOUS
<1>1. CASE UNCHANGED vars
  <2>1. Shapes' /\ TableOK' /\ LocksOK'
    BY <1>1 DEF vars, TypeInv, Shapes, TableOK, LocksOK, ItemMap
  <2>2. \A p \in Procs : HandlerOK(p)'
    BY <1>1, HandlerStays DEF vars, TypeInv
  <2>3. QED
    BY <2>1, <2>2 DEF TypeInv
<1>2. CASE Next
  <2>1. PICK p \in Procs :
          \/ AddItem(p) \/ RemoveItem(p) \/ UpdateOrderItem(p) \/ UpdateOrder(p)
          \/ MarkItemPrepared(p) \/ SendToKitchen(p)
          \/ WriteItem(p) \/ ReloadOrder(p) \/ LoadRows(p)
          \/ SaveRows(p) \/ UpdateStatuses(p) \/ Rollback(p)
    BY <1>2 DEF Next
  <2>2. QED
    BY <2>1, StartType, InsideType, CommitType
<1>3. QED
  BY <1>1, <1>2

(***************************************************************************)
(* For any numbers of handlers, items and prices, every variable keeps its *)
(* shape, and only a transaction in flight has a row locked.               *)
(***************************************************************************)
THEOREM Inductive == Spec => []TypeInv
<1>1. QED
  BY TypeInit, TypeNext, PTL DEF Spec

(***************************************************************************)
(* So the type invariant holds.                                            *)
(***************************************************************************)
THEOREM TypeCorrect == Spec => []TypeOK
BY Inductive, TypesFollow, PTL

-------------------------------------------------------------------------------
(* What the kitchen had *)

\* In a copy of the items, only what was sent is more than NEW.
Sent(rows) == \A i \in DOMAIN rows : rows[i].status # "NEW" => i \in wasSent
SentCall(c) == c.op \in {"addItem", "updateOrderItem"} /\ c.row.status # "NEW"
                 => c.item \in wasSent
SentInv == /\ Sent(items)
           /\ \A p \in Procs : Sent(entity[p].items) /\ SentCall(call[p])

(***************************************************************************)
(* At the start there are no items.                                        *)
(***************************************************************************)
LEMMA SentInit == Init => SentInv
BY DEF Init, SentInv, Sent, SentCall, NoItems, NoOrder, NoCall

(***************************************************************************)
(* validateItemStatusTransition lets only what is in the kitchen become    *)
(* PREPARED.                                                               *)
(***************************************************************************)
LEMMA PreparedFromKitchen ==
  ASSUME NEW from \in ItemStatus, validateItemStatusTransition(from, "PREPARED")
  PROVE  from = "SENT_TO_KITCHEN"
BY DEF validateItemStatusTransition, AllowedItemTransitions, ItemStatus

(***************************************************************************)
(* A handler starts from what the table says.                              *)
(***************************************************************************)
LEMMA StartSent ==
  ASSUME TypeInv, SentInv, NEW p \in Procs,
         \/ AddItem(p) \/ RemoveItem(p) \/ UpdateOrderItem(p) \/ UpdateOrder(p)
         \/ MarkItemPrepared(p) \/ SendToKitchen(p)
  PROVE  SentInv'
<1>rows. \A i \in DOMAIN items : items[i] \in ItemRows
  BY DEF TypeInv, TableOK, ItemMap
<1>none. Sent(NoOrder.items)
  BY DEF Sent, NoOrder, NoItems
<1>1. PICK at, op, item, row, copy :
        /\ Begin(p, at, op, item, row, copy)
        /\ Sent(copy.items) /\ SentCall([op |-> op, item |-> item, row |-> row])
  <2>1. CASE AddItem(p)
    <3>1. PICK i \in Items \ added, n \in Totals :
            Begin(p, "item", "addItem", i, [status |-> "NEW", total |-> n], NoOrder)
      BY <2>1 DEF AddItem
    <3>2. SentCall([op |-> "addItem", item |-> i, row |-> [status |-> "NEW", total |-> n]])
      BY DEF SentCall
    <3>3. QED
      BY <1>none, <3>1, <3>2
  <2>2. CASE RemoveItem(p)
    <3>1. PICK i \in DOMAIN items : Begin(p, "item", "removeItem", i, None, NoOrder)
      BY <2>2 DEF RemoveItem
    <3>2. SentCall([op |-> "removeItem", item |-> i, row |-> None])
      BY DEF SentCall
    <3>3. QED
      BY <1>none, <3>1, <3>2
  <2>3. CASE UpdateOrderItem(p)
    <3>1. PICK i \in DOMAIN items, n \in Totals :
            Begin(p, "item", "updateOrderItem", i, [items[i] EXCEPT !.total = n], NoOrder)
      BY <2>3 DEF UpdateOrderItem
    <3>2. PICK row : row = [items[i] EXCEPT !.total = n]
      OBVIOUS
    <3>3. row.status = items[i].status
      BY <1>rows, <3>2 DEF ItemRows
    <3>4. SentCall([op |-> "updateOrderItem", item |-> i, row |-> row])
      BY <3>3 DEF SentCall, SentInv, Sent
    <3>5. QED
      BY <1>none, <3>1, <3>2, <3>4
  <2>4. CASE UpdateOrder(p) \/ SendToKitchen(p)
    <3>1. PICK op \in {"update", "sendToKitchen"} : Begin(p, "save", op, None, None, ReadItems)
      BY <2>4 DEF UpdateOrder, SendToKitchen
    <3>2. PICK copy : copy = ReadItems
      OBVIOUS
    <3>3. Sent(copy.items) /\ SentCall([op |-> op, item |-> None, row |-> None])
      BY <3>2 DEF SentCall, SentInv, Sent, ReadItems
    <3>4. QED
      BY <3>1, <3>2, <3>3
  <2>5. CASE MarkItemPrepared(p)
    <3>1. PICK i \in DOMAIN items :
            /\ validateItemStatusTransition(items[i].status, "PREPARED")
            /\ Begin(p, "save", "markItemPrepared", i, None,
                 [items |-> [j \in {i} |-> [items[i] EXCEPT !.status = "PREPARED"]], total |-> total])
      BY <2>5 DEF MarkItemPrepared
    <3>2. items[i].status = "SENT_TO_KITCHEN"
      BY <1>rows, <3>1, PreparedFromKitchen DEF ItemRows
    <3>3. i \in wasSent
      BY <3>2 DEF SentInv, Sent
    <3>4. PICK copy : copy = [items |-> [j \in {i} |-> [items[i] EXCEPT !.status = "PREPARED"]],
                              total |-> total]
      OBVIOUS
    <3>5. Sent(copy.items) /\ SentCall([op |-> "markItemPrepared", item |-> i, row |-> None])
      BY <3>3, <3>4 DEF Sent, SentCall
    <3>6. QED
      BY <3>1, <3>4, <3>5
  <2>6. QED
    BY <2>1, <2>2, <2>3, <2>4, <2>5
<1>2. /\ call' = [call EXCEPT ![p] = [op |-> op, item |-> item, row |-> row]]
      /\ entity' = [entity EXCEPT ![p] = copy]
      /\ UNCHANGED <<items, wasSent>>
  BY <1>1 DEF Begin
<1>3. ASSUME NEW q \in Procs PROVE Sent(entity[q].items)' /\ SentCall(call[q])'
  <2>1. CASE q = p
    <3>1. entity'[q] = copy /\ call'[q] = [op |-> op, item |-> item, row |-> row]
      BY <1>2, <2>1 DEF TypeInv, Shapes
    <3>2. QED
      BY <1>1, <1>2, <3>1 DEF Sent, SentCall
  <2>2. CASE q # p
    <3>1. entity'[q] = entity[q] /\ call'[q] = call[q]
      BY <1>2, <2>2 DEF TypeInv, Shapes
    <3>2. QED
      BY <1>2, <3>1 DEF SentInv, Sent, SentCall
  <2>3. QED
    BY <2>1, <2>2
<1>4. QED
  BY <1>2, <1>3 DEF SentInv, Sent

(***************************************************************************)
(* What a transaction sees of the items was sent if it is more than NEW.   *)
(***************************************************************************)
LEMMA OwnSent ==
  ASSUME TypeInv, SentInv, NEW p \in Procs
  PROVE  Sent(Own(p, items))
<1>1. Sent(items) /\ SentCall(call[p])
  BY DEF SentInv
<1>2. CASE call[p].op \notin ItemOps
  BY <1>1, <1>2 DEF Own
<1>3. CASE call[p].op = "removeItem"
  BY <1>1, <1>3 DEF Own, ItemOps, Without, Sent
<1>4. CASE call[p].op \in {"addItem", "updateOrderItem"}
  <2>1. Own(p, items) = With(items, call[p].item, call[p].row)
    BY <1>4 DEF Own, ItemOps
  <2>2. QED
    BY <1>1, <1>4, <2>1 DEF With, Sent, SentCall
<1>5. QED
  BY <1>2, <1>3, <1>4 DEF ItemOps

(***************************************************************************)
(* A handler that ends, after rows that were sent.                         *)
(***************************************************************************)
LEMMA FinishSent ==
  ASSUME TypeInv, SentInv, NEW p \in Procs, Finish(p), Sent(items)', wasSent \subseteq wasSent'
  PROVE  SentInv'
<1>1. /\ call' = [call EXCEPT ![p] = NoCall]
      /\ entity' = [entity EXCEPT ![p] = NoOrder]
  BY DEF Finish
<1>2. ASSUME NEW q \in Procs PROVE Sent(entity[q].items)' /\ SentCall(call[q])'
  <2>1. CASE q = p
    <3>1. entity'[q] = NoOrder /\ call'[q] = NoCall
      BY <1>1, <2>1 DEF TypeInv, Shapes
    <3>2. QED
      BY <3>1 DEF Sent, SentCall, NoOrder, NoItems, NoCall
  <2>2. CASE q # p
    <3>1. entity'[q] = entity[q] /\ call'[q] = call[q]
      BY <1>1, <2>2 DEF TypeInv, Shapes
    <3>2. QED
      BY <3>1 DEF SentInv, Sent, SentCall
  <2>3. QED
    BY <2>1, <2>2
<1>3. QED
  BY <1>2 DEF SentInv

(***************************************************************************)
(* Inside a transaction items are only read.                               *)
(***************************************************************************)
LEMMA InsideSent ==
  ASSUME TypeInv, SentInv, NEW p \in Procs, WriteItem(p) \/ ReloadOrder(p) \/ LoadRows(p)
  PROVE  SentInv'
<1>1. UNCHANGED <<items, call, wasSent>>
  BY DEF WriteItem, ReloadOrder, LoadRows
<1>2. ASSUME NEW q \in Procs PROVE Sent(entity[q].items)'
  <2>1. CASE entity'[q] = entity[q]
    BY <1>1, <2>1 DEF SentInv, Sent
  <2>2. CASE entity'[q] # entity[q]
    <3>1. q = p /\ entity'[q].items = Own(p, items)
      BY <2>2 DEF WriteItem, ReloadOrder, LoadRows, TypeInv, Shapes
    <3>2. QED
      BY <1>1, <3>1, OwnSent DEF Sent
  <2>3. QED
    BY <2>1, <2>2
<1>3. QED
  BY <1>1, <1>2 DEF SentInv, Sent, SentCall

(***************************************************************************)
(* A commit writes nothing as PREPARED that was not sent.                  *)
(***************************************************************************)
LEMMA CommitSent ==
  ASSUME TypeInv, SentInv, NEW p \in Procs, SaveRows(p) \/ UpdateStatuses(p) \/ Rollback(p)
  PROVE  SentInv'
<1>1. CASE SaveRows(p)
  <2>1. PICK rows : rows = Written(p)
    OBVIOUS
  <2>2. /\ items' = rows /\ Finish(p)
        /\ wasSent' = wasSent \cup {i \in DOMAIN rows : rows[i].status = "SENT_TO_KITCHEN"}
    BY <1>1, <2>1 DEF SaveRows, Write
  <2>3. Sent(rows)
    <3>1. Sent(entity[p].items) /\ Sent(Own(p, items))
      BY OwnSent DEF SentInv
    <3>2. \A i \in DOMAIN rows :
            \/ i \in DOMAIN entity[p].items /\ rows[i].status = entity[p].items[i].status
            \/ i \in DOMAIN Own(p, items) /\ rows[i].status = Own(p, items)[i].status
      BY <2>1, WrittenRows
    <3>3. QED
      BY <3>1, <3>2 DEF Sent
  <2>4. Sent(items)' /\ wasSent \subseteq wasSent'
    BY <2>2, <2>3 DEF Sent
  <2>5. QED
    BY <2>2, <2>4, FinishSent
<1>2. CASE UpdateStatuses(p)
  <2>1. PICK rows : rows = [i \in DOMAIN items |-> IF i \in NewIds(entity[p].items)
                      THEN [items[i] EXCEPT !.status = "SENT_TO_KITCHEN"] ELSE items[i]]
    OBVIOUS
  <2>2. /\ items' = rows /\ Finish(p)
        /\ wasSent' = wasSent \cup {i \in DOMAIN rows : rows[i].status = "SENT_TO_KITCHEN"}
    BY <1>2, <2>1 DEF UpdateStatuses, Write
  <2>3. \A i \in DOMAIN rows : \/ rows[i].status = "SENT_TO_KITCHEN"
                               \/ i \in DOMAIN items /\ rows[i] = items[i]
    BY <2>1 DEF TypeInv, TableOK, ItemMap, ItemRows
  <2>4. Sent(items)' /\ wasSent \subseteq wasSent'
    BY <2>2, <2>3 DEF Sent, SentInv
  <2>5. QED
    BY <2>2, <2>4, FinishSent
<1>3. CASE Rollback(p)
  <2>1. Finish(p) /\ UNCHANGED <<items, wasSent>>
    BY <1>3 DEF Rollback
  <2>2. QED
    BY <2>1, FinishSent DEF SentInv, Sent
<1>4. QED
  BY <1>1, <1>2, <1>3

(***************************************************************************)
(* Every step, of handlers that overlap in any way, keeps it.              *)
(***************************************************************************)
LEMMA SentNext == TypeInv /\ SentInv /\ [Next]_vars => SentInv'
<1>. SUFFICES ASSUME TypeInv, SentInv, [Next]_vars PROVE SentInv'
  OBVIOUS
<1>1. CASE UNCHANGED vars
  BY <1>1 DEF vars, SentInv, Sent, SentCall
<1>2. CASE Next
  <2>1. PICK p \in Procs :
          \/ AddItem(p) \/ RemoveItem(p) \/ UpdateOrderItem(p) \/ UpdateOrder(p)
          \/ MarkItemPrepared(p) \/ SendToKitchen(p)
          \/ WriteItem(p) \/ ReloadOrder(p) \/ LoadRows(p)
          \/ SaveRows(p) \/ UpdateStatuses(p) \/ Rollback(p)
    BY <1>2 DEF Next
  <2>2. QED
    BY <2>1, StartSent, InsideSent, CommitSent
<1>3. QED
  BY <1>1, <1>2

(***************************************************************************)
(* For any numbers of handlers, items and prices: an item is PREPARED only *)
(* if it was in the kitchen, however the handlers overlap and whatever     *)
(* they write back.                                                        *)
(***************************************************************************)
THEOREM KitchenHadIt == Spec => []PreparedWasSent
<1>1. SentInv => PreparedWasSent
  BY DEF SentInv, Sent, PreparedWasSent
<1>2. QED
  BY <1>1, Inductive, SentInit, SentNext, PTL DEF Spec

-------------------------------------------------------------------------------
(* Without overlap *)

\* What a handler alone with the order holds is current.
Current(p) == LET c == call[p] IN
  /\ c.op = "addItem" => c.item \notin DOMAIN items
  /\ c.op = "updateOrderItem" => c.item \in DOMAIN items /\ items[c.item].status = c.row.status
  /\ c.op = "update" => entity[p] = ReadItems
  /\ c.op = "sendToKitchen" => entity[p].items = items
  /\ c.op = "markItemPrepared" =>
       /\ c.item \in DOMAIN items
       /\ items[c.item].status = "SENT_TO_KITCHEN"
       /\ entity[p] = [items |-> [j \in {c.item} |-> [items[c.item] EXCEPT !.status = "PREPARED"]],
                       total |-> total]
  /\ c.op \in ItemOps /\ pc[p] \in {"save", "write"} =>
       entity[p] = [items |-> Own(p, items), total |-> recomputeOrderTotals(Own(p, items))]
  /\ pc[p] = "write" => loaded[p] = [items |-> Own(p, items), total |-> total]

AloneInv == ~ overlapped =>
  /\ total = Sum(items)
  /\ \A p, q \in Procs : pc[p] # "idle" /\ pc[q] # "idle" => p = q
  /\ \A p \in Procs : pc[p] # "idle" => Current(p)

(***************************************************************************)
(* At the start no handler is in flight and nothing is owed.               *)
(***************************************************************************)
LEMMA AloneInit == Init => AloneInv
BY NothingToPay DEF Init, AloneInv

\* What a handler is asked to do and reads when it begins is current.
CurrentStart(at, c, copy) ==
  /\ c = [op |-> c.op, item |-> c.item, row |-> c.row]
  /\ c.op \in ItemOps => at = "item"
  /\ c.op = "addItem" => c.item \notin DOMAIN items
  /\ c.op = "updateOrderItem" => c.item \in DOMAIN items /\ items[c.item].status = c.row.status
  /\ c.op = "update" => copy = ReadItems
  /\ c.op = "sendToKitchen" => copy.items = items
  /\ c.op = "markItemPrepared" =>
       /\ c.item \in DOMAIN items
       /\ items[c.item].status = "SENT_TO_KITCHEN"
       /\ copy = [items |-> [j \in {c.item} |-> [items[c.item] EXCEPT !.status = "PREPARED"]],
                  total |-> total]

(***************************************************************************)
(* A handler that starts alone reads what is current.                      *)
(***************************************************************************)
LEMMA StartAlone ==
  ASSUME TypeInv, AloneInv, NEW p \in Procs,
         \/ AddItem(p) \/ RemoveItem(p) \/ UpdateOrderItem(p) \/ UpdateOrder(p)
         \/ MarkItemPrepared(p) \/ SendToKitchen(p)
  PROVE  AloneInv'
<1>. SUFFICES ASSUME ~ overlapped'
              PROVE  /\ total' = Sum(items')
                     /\ \A q, r \in Procs : pc'[q] # "idle" /\ pc'[r] # "idle" => q = r
                     /\ \A q \in Procs : pc'[q] # "idle" => Current(q)'
  BY DEF AloneInv
<1>rows. /\ DOMAIN items \subseteq added
         /\ \A i \in DOMAIN items : items[i] \in ItemRows
  BY DEF TypeInv, TableOK, ItemMap
<1>1. PICK at, c, copy :
        /\ at \in {"item", "save"} /\ CurrentStart(at, c, copy)
        /\ Begin(p, at, c.op, c.item, c.row, copy)
  <2>1. CASE AddItem(p)
    <3>1. PICK i \in Items \ added, n \in Totals :
            Begin(p, "item", "addItem", i, [status |-> "NEW", total |-> n], NoOrder)
      BY <2>1 DEF AddItem
    <3>2. PICK c : c = [op |-> "addItem", item |-> i, row |-> [status |-> "NEW", total |-> n]]
      OBVIOUS
    <3>3. CurrentStart("item", c, NoOrder)
      BY <1>rows, <3>2 DEF CurrentStart
    <3>4. Begin(p, "item", c.op, c.item, c.row, NoOrder)
      BY <3>1, <3>2
    <3>5. QED
      BY <3>3, <3>4
  <2>2. CASE RemoveItem(p)
    <3>1. PICK i \in DOMAIN items : Begin(p, "item", "removeItem", i, None, NoOrder)
      BY <2>2 DEF RemoveItem
    <3>2. PICK c : c = [op |-> "removeItem", item |-> i, row |-> None]
      OBVIOUS
    <3>3. CurrentStart("item", c, NoOrder)
      BY <3>2 DEF CurrentStart
    <3>4. Begin(p, "item", c.op, c.item, c.row, NoOrder)
      BY <3>1, <3>2
    <3>5. QED
      BY <3>3, <3>4
  <2>3. CASE UpdateOrderItem(p)
    <3>1. PICK i \in DOMAIN items, n \in Totals :
            Begin(p, "item", "updateOrderItem", i, [items[i] EXCEPT !.total = n], NoOrder)
      BY <2>3 DEF UpdateOrderItem
    <3>2. PICK row : row = [items[i] EXCEPT !.total = n]
      OBVIOUS
    <3>3. row.status = items[i].status
      BY <1>rows, <3>2 DEF ItemRows
    <3>4. PICK c : c = [op |-> "updateOrderItem", item |-> i, row |-> row]
      OBVIOUS
    <3>5. CurrentStart("item", c, NoOrder)
      BY <3>3, <3>4 DEF CurrentStart
    <3>6. Begin(p, "item", c.op, c.item, c.row, NoOrder)
      BY <3>1, <3>2, <3>4
    <3>7. QED
      BY <3>5, <3>6
  <2>4. CASE UpdateOrder(p) \/ SendToKitchen(p)
    <3>1. PICK op \in {"update", "sendToKitchen"} : Begin(p, "save", op, None, None, ReadItems)
      BY <2>4 DEF UpdateOrder, SendToKitchen
    <3>2. PICK c : c = [op |-> op, item |-> None, row |-> None]
      OBVIOUS
    <3>3. PICK copy : copy = ReadItems
      OBVIOUS
    <3>4. CurrentStart("save", c, copy)
      BY <3>2, <3>3 DEF CurrentStart, ReadItems, ItemOps
    <3>5. Begin(p, "save", c.op, c.item, c.row, copy)
      BY <3>1, <3>2, <3>3
    <3>6. QED
      BY <3>4, <3>5
  <2>5. CASE MarkItemPrepared(p)
    <3>1. PICK i \in DOMAIN items :
            /\ validateItemStatusTransition(items[i].status, "PREPARED")
            /\ Begin(p, "save", "markItemPrepared", i, None,
                 [items |-> [j \in {i} |-> [items[i] EXCEPT !.status = "PREPARED"]], total |-> total])
      BY <2>5 DEF MarkItemPrepared
    <3>2. items[i].status = "SENT_TO_KITCHEN"
      BY <1>rows, <3>1, PreparedFromKitchen DEF ItemRows
    <3>3. PICK copy : copy = [items |-> [j \in {i} |-> [items[i] EXCEPT !.status = "PREPARED"]],
                              total |-> total]
      OBVIOUS
    <3>4. PICK c : c = [op |-> "markItemPrepared", item |-> i, row |-> None]
      OBVIOUS
    <3>5. CurrentStart("save", c, copy)
      BY <3>2, <3>3, <3>4 DEF CurrentStart, ItemOps
    <3>6. Begin(p, "save", c.op, c.item, c.row, copy)
      BY <3>1, <3>3, <3>4
    <3>7. QED
      BY <3>5, <3>6
  <2>6. QED
    BY <2>1, <2>2, <2>3, <2>4, <2>5
<1>2. /\ pc[p] = "idle" /\ pc' = [pc EXCEPT ![p] = at]
      /\ overlapped' = (overlapped \/ \E q \in Procs : pc[q] # "idle")
      /\ call' = [call EXCEPT ![p] = c] /\ entity' = [entity EXCEPT ![p] = copy]
      /\ UNCHANGED <<items, total>>
  BY <1>1 DEF Begin, CurrentStart
<1>3. ~ overlapped /\ \A q \in Procs : pc[q] = "idle"
  BY <1>2
<1>4. /\ pc'[p] = at /\ call'[p] = c /\ entity'[p] = copy
      /\ \A q \in Procs : q # p => pc'[q] = "idle"
  BY <1>2, <1>3 DEF TypeInv, Shapes
<1>5. total' = Sum(items')
  BY <1>2, <1>3 DEF AloneInv
<1>6. Current(p)'
  BY <1>1, <1>2, <1>4 DEF CurrentStart, Current, ReadItems
<1>7. QED
  BY <1>4, <1>5, <1>6

(***************************************************************************)
(* Inside its transaction it stays alone, and so does what it read.        *)
(***************************************************************************)
LEMMA InsideAlone ==
  ASSUME TypeInv, AloneInv, NEW p \in Procs, WriteItem(p) \/ ReloadOrder(p) \/ LoadRows(p)
  PROVE  AloneInv'
<1>1. /\ UNCHANGED <<items, total, call, overlapped>>
      /\ pc[p] # "idle" /\ \A q \in Procs : q # p => pc'[q] = pc[q]
  BY DEF WriteItem, ReloadOrder, LoadRows, TypeInv, Shapes
<1>. SUFFICES ASSUME ~ overlapped
              PROVE  /\ total' = Sum(items')
                     /\ \A q, r \in Procs : pc'[q] # "idle" /\ pc'[r] # "idle" => q = r
                     /\ \A q \in Procs : pc'[q] # "idle" => Current(q)'
  BY <1>1 DEF AloneInv
<1>2. \A q \in Procs : q # p => pc'[q] = "idle"
  BY <1>1 DEF AloneInv
<1>3. Current(p) /\ total = Sum(items)
  BY <1>1 DEF AloneInv
<1>4. Own(p, items)' = Own(p, items)
  BY <1>1 DEF Own
<1>5. Current(p)'
  <2>1. CASE WriteItem(p)
    <3>1. pc[p] = "item" /\ pc'[p] = "reload" /\ UNCHANGED <<entity, loaded>>
      BY <2>1 DEF WriteItem, TypeInv, Shapes
    <3>2. QED
      BY <1>1, <1>3, <3>1 DEF Current, ReadItems
  <2>2. CASE ReloadOrder(p)
    <3>1. /\ pc'[p] = "save"
          /\ entity'[p] = [items |-> Own(p, items), total |-> recomputeOrderTotals(Own(p, items))]
          /\ call[p].op \in ItemOps
      BY <2>2 DEF ReloadOrder, TypeInv, Shapes, HandlerOK, CallOK
    <3>2. QED
      BY <1>1, <1>3, <1>4, <3>1 DEF Current, ItemOps
  <2>3. CASE LoadRows(p)
    <3>1. /\ pc[p] = "save" /\ pc'[p] = "write" /\ UNCHANGED entity
          /\ loaded'[p] = [items |-> Own(p, items), total |-> total]
      BY <2>3 DEF LoadRows, TypeInv, Shapes
    <3>2. QED
      BY <1>1, <1>3, <1>4, <3>1 DEF Current, ReadItems
  <2>4. QED
    BY <2>1, <2>2, <2>3
<1>6. QED
  BY <1>1, <1>2, <1>3, <1>5

(***************************************************************************)
(* Rows that are the same in memory, as loaded and in the transaction's    *)
(* view are written as they are.                                           *)
(***************************************************************************)
LEMMA WrittenAsSeen ==
  ASSUME TypeInv, NEW p \in Procs,
         entity[p].items = Own(p, items), loaded[p].items = Own(p, items)
  PROVE  /\ DOMAIN Written(p) = DOMAIN Own(p, items)
         /\ \A i \in DOMAIN Written(p) : /\ Written(p)[i].status = Own(p, items)[i].status
                                         /\ Written(p)[i].total = Own(p, items)[i].total
<1>1. PICK now : now = Own(p, items)
  OBVIOUS
<1>2. PICK rows : rows = Written(p)
  OBVIOUS
<1>3. /\ DOMAIN rows = DOMAIN now
      /\ \A i \in DOMAIN rows : rows[i] = Merge(now[i], now[i], now[i])
  BY <1>1, <1>2 DEF Written
<1>4. \A i \in DOMAIN now : now[i] \in ItemRows
  BY <1>1, OwnType DEF ItemMap
<1>5. \A i \in DOMAIN rows : rows[i].status = now[i].status /\ rows[i].total = now[i].total
  BY <1>3, <1>4, MergeType
<1>6. QED
  BY <1>1, <1>2, <1>3, <1>5

(***************************************************************************)
(* A handler alone with the order saves items that add up to the total it  *)
(* saves, and moves none of them backward.                                 *)
(***************************************************************************)
LEMMA SaveAlone ==
  ASSUME TypeInv, NEW p \in Procs, SaveRows(p), Current(p), total = Sum(items)
  PROVE  total' = Sum(items') /\ KitchenStep
<1>1. PICK rows : rows = Written(p)
  OBVIOUS
<1>2. /\ pc[p] = "write" /\ items' = rows
      /\ total' = IF SavesOrder(p) /\ entity[p].total # loaded[p].total
                  THEN entity[p].total ELSE total
  BY <1>1 DEF SaveRows, Write
<1>3. loaded[p].items = Own(p, items) /\ loaded[p].total = total
  BY <1>2 DEF Current
<1>rows. \A i \in DOMAIN items : items[i] \in ItemRows
  BY DEF TypeInv, TableOK, ItemMap
<1>4. CASE call[p].op \in ItemOps
  <2>1. entity[p].items = Own(p, items) /\ entity[p].total = Sum(Own(p, items))
    BY <1>2, <1>4 DEF Current, recomputeOrderTotals
  <2>2. /\ DOMAIN rows = DOMAIN Own(p, items)
        /\ \A i \in DOMAIN rows : /\ rows[i].status = Own(p, items)[i].status
                                 /\ rows[i].total = Own(p, items)[i].total
    BY <1>1, <1>3, <2>1, WrittenAsSeen
  <2>3. Sum(rows) = Sum(Own(p, items))
    BY <2>2, SameSum
  <2>4. total' = Sum(items')
    <3>1. SavesOrder(p)
      BY <1>4 DEF SavesOrder, ItemOps
    <3>2. QED
      BY <1>2, <1>3, <2>1, <2>3, <3>1
  <2>5. ASSUME NEW i \in DOMAIN items, i \in DOMAIN Own(p, items)
        PROVE  Own(p, items)[i].status = items[i].status
    <3>1. CASE call[p].op = "removeItem"
      BY <2>5, <3>1 DEF Own, ItemOps, Without
    <3>2. CASE call[p].op \in {"addItem", "updateOrderItem"}
      <4>1. Own(p, items) = With(items, call[p].item, call[p].row)
        BY <3>2 DEF Own, ItemOps
      <4>2. i = call[p].item => items[i].status = call[p].row.status
        BY <3>2 DEF Current
      <4>3. QED
        BY <2>5, <4>1, <4>2 DEF With
    <3>3. QED
      BY <1>4, <3>1, <3>2 DEF ItemOps
  <2>6. KitchenStep
    BY <1>2, <2>2, <2>5 DEF KitchenStep, LegalStep
  <2>7. QED
    BY <2>4, <2>6
<1>5. CASE call[p].op = "update"
  <2>1. entity[p].items = items /\ entity[p].total = total /\ Own(p, items) = items
    BY <1>5 DEF Current, ReadItems, Own, ItemOps
  <2>2. /\ DOMAIN rows = DOMAIN items
        /\ \A i \in DOMAIN rows : rows[i].status = items[i].status /\ rows[i].total = items[i].total
    BY <1>1, <1>3, <2>1, WrittenAsSeen
  <2>3. Sum(rows) = Sum(items)
    BY <2>2, SameSum
  <2>4. total' = Sum(items')
    BY <1>2, <1>3, <2>1, <2>3
  <2>5. KitchenStep
    BY <1>2, <2>2 DEF KitchenStep, LegalStep
  <2>6. QED
    BY <2>4, <2>5
<1>6. CASE call[p].op = "markItemPrepared"
  <2>1. PICK i \in DOMAIN items : i = call[p].item /\ items[i].status = "SENT_TO_KITCHEN"
    BY <1>6 DEF Current
  <2>2. PICK row : row = [items[i] EXCEPT !.status = "PREPARED"]
    OBVIOUS
  <2>3. /\ entity[p].items = [j \in {i} |-> row] /\ entity[p].total = total
        /\ Own(p, items) = items
    BY <1>6, <2>1, <2>2 DEF Current, Own, ItemOps
  <2>4. row \in ItemRows /\ row.status = "PREPARED" /\ row.total = items[i].total
    BY <1>rows, <2>2 DEF ItemRows, ItemStatus
  <2>5. /\ DOMAIN rows = DOMAIN items
        /\ \A j \in DOMAIN items : j # i => rows[j] = items[j]
        /\ rows[i] = Merge(items[i], items[i], row)
    BY <1>1, <1>3, <2>3 DEF Written
  <2>6. rows[i].status = "PREPARED" /\ rows[i].total = items[i].total
    BY <1>rows, <2>1, <2>4, <2>5, MergeType
  <2>7. Sum(rows) = Sum(items)
    BY <2>5, <2>6, SameSum
  <2>8. total' = Sum(items')
    BY <1>2, <1>3, <2>3, <2>7
  <2>9. KitchenStep
    BY <1>2, <2>1, <2>5, <2>6 DEF KitchenStep, LegalStep, AllowedItemTransitions
  <2>10. QED
    BY <2>8, <2>9
<1>7. QED
  <2>1. call[p].op \in ItemOps \cup OrderOps /\ call[p].op # "sendToKitchen"
    BY <1>2 DEF TypeInv, HandlerOK, CallOK
  <2>2. QED
    BY <1>4, <1>5, <1>6, <2>1 DEF OrderOps

(***************************************************************************)
(* Sending NEW items to the kitchen changes no price and is a legal step.  *)
(***************************************************************************)
LEMMA SendAlone ==
  ASSUME TypeInv, NEW p \in Procs, UpdateStatuses(p), Current(p), total = Sum(items)
  PROVE  total' = Sum(items') /\ KitchenStep
<1>1. PICK rows : rows = [i \in DOMAIN items |-> IF i \in NewIds(entity[p].items)
                    THEN [items[i] EXCEPT !.status = "SENT_TO_KITCHEN"] ELSE items[i]]
  OBVIOUS
<1>2. items' = rows /\ total' = total
  BY <1>1 DEF UpdateStatuses, Write
<1>3. entity[p].items = items
  BY DEF UpdateStatuses, Current
<1>4. \A i \in DOMAIN items : items[i] \in ItemRows
  BY DEF TypeInv, TableOK, ItemMap
<1>5. ASSUME NEW i \in DOMAIN items
      PROVE  /\ rows[i].total = items[i].total
             /\ \/ rows[i].status = items[i].status
                \/ items[i].status = "NEW" /\ rows[i].status = "SENT_TO_KITCHEN"
  <2>1. CASE i \in NewIds(items)
    <3>1. rows[i] = [items[i] EXCEPT !.status = "SENT_TO_KITCHEN"] /\ items[i].status = "NEW"
      BY <1>1, <1>3, <2>1 DEF NewIds
    <3>2. QED
      BY <1>4, <3>1 DEF ItemRows
  <2>2. CASE i \notin NewIds(items)
    BY <1>1, <1>3, <2>2
  <2>3. QED
    BY <2>1, <2>2
<1>6. DOMAIN rows = DOMAIN items
  BY <1>1
<1>7. Sum(rows) = Sum(items)
  BY <1>5, <1>6, SameSum
<1>8. KitchenStep
  BY <1>2, <1>5 DEF KitchenStep, LegalStep, AllowedItemTransitions
<1>9. QED
  BY <1>2, <1>7, <1>8

(***************************************************************************)
(* Every step keeps the total and, without overlap, is a legal one for     *)
(* every item.                                                             *)
(***************************************************************************)
LEMMA AloneNext ==
  ASSUME TypeInv, AloneInv, [Next]_vars
  PROVE  AloneInv' /\ (~ overlapped => KitchenStep)
<1>same. UNCHANGED items => KitchenStep
  BY DEF KitchenStep, LegalStep
<1>1. CASE UNCHANGED vars
  <2>1. AloneInv'
    BY <1>1 DEF vars, AloneInv, Current, ReadItems, Own
  <2>2. QED
    BY <1>1, <1>same, <2>1 DEF vars
<1>2. ASSUME NEW p \in Procs,
             \/ AddItem(p) \/ RemoveItem(p) \/ UpdateOrderItem(p) \/ UpdateOrder(p)
             \/ MarkItemPrepared(p) \/ SendToKitchen(p)
      PROVE  AloneInv' /\ KitchenStep
  <2>1. UNCHANGED items
    BY <1>2 DEF AddItem, RemoveItem, UpdateOrderItem, UpdateOrder, MarkItemPrepared,
               SendToKitchen, Begin
  <2>2. QED
    BY <1>2, <1>same, <2>1, StartAlone
<1>3. ASSUME NEW p \in Procs, WriteItem(p) \/ ReloadOrder(p) \/ LoadRows(p)
      PROVE  AloneInv' /\ KitchenStep
  BY <1>3, <1>same, InsideAlone DEF WriteItem, ReloadOrder, LoadRows
<1>4. ASSUME NEW p \in Procs, SaveRows(p) \/ UpdateStatuses(p) \/ Rollback(p)
      PROVE  AloneInv' /\ (~ overlapped => KitchenStep)
  <2>1. Finish(p) /\ pc[p] # "idle"
    BY <1>4 DEF SaveRows, UpdateStatuses, Rollback
  <2>2. overlapped' = overlapped /\ pc'[p] = "idle" /\ \A q \in Procs : q # p => pc'[q] = pc[q]
    BY <2>1 DEF Finish, TypeInv, Shapes
  <2>3. CASE overlapped
    BY <2>2, <2>3 DEF AloneInv
  <2>4. CASE ~ overlapped
    <3>1. Current(p) /\ total = Sum(items) /\ \A q \in Procs : q # p => pc[q] = "idle"
      BY <2>1, <2>4 DEF AloneInv
    <3>2. total' = Sum(items') /\ KitchenStep
      BY <1>4, <1>same, <3>1, SaveAlone, SendAlone DEF Rollback
    <3>3. QED
      BY <2>2, <3>1, <3>2 DEF AloneInv
  <2>5. QED
    BY <2>3, <2>4
<1>5. QED
  BY <1>1, <1>2, <1>3, <1>4 DEF Next

(***************************************************************************)
(* For any numbers of handlers, items and prices: as long as the handlers  *)
(* of the order do not overlap, its total is the sum of its items,         *)
(* whichever step of a handler fails.                                      *)
(***************************************************************************)
THEOREM TotalIsSum == Spec => []SerialTotal
<1>1. TypeInv /\ AloneInv /\ [Next]_vars => AloneInv'
  BY AloneNext
<1>2. AloneInv => SerialTotal
  BY DEF AloneInv, SerialTotal
<1>3. QED
  BY <1>1, <1>2, Inductive, AloneInit, PTL DEF Spec

(***************************************************************************)
(* And no commit moves an item other than forward in the kitchen.          *)
(***************************************************************************)
THEOREM ForwardInKitchen == Spec => SerialKitchen
<1>1. TypeInv /\ AloneInv /\ [Next]_vars => AloneInv' /\ [~ overlapped => KitchenStep]_vars
  BY AloneNext
<1>2. QED
  BY <1>1, Inductive, AloneInit, PTL DEF Spec, SerialKitchen
================================================================================
