--------------------------- MODULE TableSeatingProofs ---------------------------
(***************************************************************************)
(* Theorems about TableSeating, for any number of handlers, tables and     *)
(* orders: guests are seated at a table that nobody changes meanwhile,     *)
(* they keep it, and the opposite lock orders of createPosOrder and update *)
(* never close a cycle, as long as only orders change tables.              *)
(*                                                                         *)
(* The argument rests on the locks: the handler between the check of a     *)
(* table and its commit holds the table's row (TableLocks), a table that   *)
(* is checked FREE names no order, so no update frees it, and an order's   *)
(* id is known to nobody else before it is committed (SeatCalls).          *)
(***************************************************************************)
EXTENDS TableSeating, TLAPS

PCs == {"idle", "seat", "number", "commit", "save", "release", "edit", "write"}
Calls == [table : Tables \cup {None}, order : Orders \cup {None},
          status : {None, "live", "terminal"}]

Seating(p) == pc[p] \in {"number", "commit"}
Saving(p) == pc[p] \in {"save", "release"}
Editing(p) == pc[p] \in {"edit", "write"}

\* A handler of createPosOrder knows its table and has an id nobody else has.
SeatCall(p) == pc[p] = "seat" \/ Seating(p) =>
  /\ call[p].table \in Tables
  /\ call[p].order \in Orders \ DOMAIN orders
  /\ \A q \in Procs : q # p => call[q].order # call[p].order

\* A handler that saves an order frees the table the order was seated at, and
\* saves it as terminal only if it frees a table or the order already was terminal.
SaveCall(p) == Saving(p) =>
  /\ call[p].order \in DOMAIN orders
  /\ call[p].status \in {"live", "terminal"}
  /\ call[p].table \in {None, orders[call[p].order].tableId}
  /\ call[p].table # None => call[p].status = "terminal"
  /\ call[p].status = "terminal" => call[p].table # None \/ call[p].order \in everClosed

EditCall(p) == Editing(p) => call[p].table \in Tables /\ byHand

HandlersOK == \A p \in Procs : SeatCall(p) /\ SaveCall(p) /\ EditCall(p)

\* Who holds a row's lock, and that whoever seats guests holds its table's.
TableLocks ==
  /\ \A t \in Tables : tableLock[t] # None =>
       Seating(tableLock[t]) /\ call[tableLock[t]].table = t
  /\ \A p \in Procs : Seating(p) => tableLock[call[p].table] = p
OrderLocks == \A o \in Orders : orderLock[o] # None => pc[orderLock[o]] \in {"commit", "release"}

ClosedOrders == \A o \in DOMAIN orders : orders[o].status = "terminal" => o \in everClosed

IInv ==
  /\ TypeOK /\ HandlersOK /\ TableLocks /\ OrderLocks
  /\ SeatingIsAtomic /\ ClosedOrders /\ GuestsKeepTheirTable /\ OccupiedByItsOrder

USE TableSeatingAssumption

-------------------------------------------------------------------------------
(* Before anything happened *)

(***************************************************************************)
(* A restaurant without dine-in orders satisfies the invariant, whatever   *)
(* status its tables were created with.                                    *)
(***************************************************************************)
LEMMA InitInv == Init => IInv
<1> SUFFICES ASSUME Init PROVE IInv
  OBVIOUS
<1>1. tables \in [Tables -> TableRows] /\ \A t \in Tables : tables[t].currentOrderId = None
  <2>1. \A t \in Tables : \E st \in CreatedAs : tables[t] = [NewTable EXCEPT !.status = st]
    BY DEF Init
  <2>2. ASSUME NEW t \in Tables
        PROVE  tables[t] \in TableRows /\ tables[t].currentOrderId = None
    <3>1. PICK st \in CreatedAs : tables[t] = [NewTable EXCEPT !.status = st]
      BY <2>1
    <3>2. tables[t] = [status |-> st, currentOrderId |-> None, isDeleted |-> FALSE]
      BY <3>1 DEF NewTable
    <3>3. st \in TableStatus
      BY DEF TableStatus
    <3>4. QED
      BY <3>2, <3>3 DEF TableRows
  <2>3. tables = [t \in Tables |-> tables[t]]
    BY DEF Init
  <2>4. QED
    BY <2>2, <2>3
<1>2. DOMAIN orders = {}
  BY DEF Init
<1>3. TypeOK
  BY <1>1, <1>2 DEF Init, TypeOK, NoCall, NewTable, TableRows, TableStatus
<1>4. HandlersOK /\ SeatingIsAtomic
  BY DEF Init, HandlersOK, SeatCall, SaveCall, EditCall, Seating, Saving, Editing, SeatingIsAtomic
<1>5. TableLocks /\ OrderLocks
  BY DEF Init, TableLocks, OrderLocks, Seating
<1>6. ClosedOrders /\ GuestsKeepTheirTable
  BY <1>2 DEF ClosedOrders, GuestsKeepTheirTable
<1>7. OccupiedByItsOrder
  <2>1. SUFFICES ASSUME ~ byHand, NEW t \in Tables PROVE tables[t].status # "OCCUPIED"
    BY <1>1 DEF OccupiedByItsOrder
  <2>2. QED
    BY <2>1 DEF Init
<1>8. QED
  BY <1>3, <1>4, <1>5, <1>6, <1>7 DEF IInv

-------------------------------------------------------------------------------
(* Frames *)

\* A step of p leaves the other handlers where they are.
OthersStay(p) ==
  /\ pc' \in [Procs -> PCs] /\ call' \in [Procs -> Calls]
  /\ entity' \in [Procs -> TableRows] /\ loaded' \in [Procs -> TableRows]
  /\ \A q \in Procs : q # p =>
       /\ pc'[q] = pc[q] /\ call'[q] = call[q]
       /\ entity'[q] = entity[q] /\ loaded'[q] = loaded[q]

\* Nothing that is committed changes, except that staff may begin an edit.
RowsStay ==
  /\ UNCHANGED <<tables, orders, everClosed>>
  /\ byHand' \in BOOLEAN /\ (byHand => byHand')

(***************************************************************************)
(* While the rows stay, what IInv says of them stays.                      *)
(***************************************************************************)
LEMMA RowsStayInv ==
  ASSUME IInv, RowsStay
  PROVE  ClosedOrders' /\ GuestsKeepTheirTable' /\ OccupiedByItsOrder'
BY DEF IInv, RowsStay, ClosedOrders, GuestsKeepTheirTable, OccupiedByItsOrder

(***************************************************************************)
(* A step that changes no row keeps the invariant if it leaves its own     *)
(* handler in order and takes no lock, or order locks to finish with.      *)
(***************************************************************************)
LEMMA MoveInv ==
  ASSUME IInv, NEW p \in Procs, OthersStay(p), RowsStay,
         UNCHANGED tableLock, orderLock' \in [Orders -> Procs \cup {None}],
         Seating(p)' <=> Seating(p),
         Seating(p) => call'[p] = call[p] /\ entity'[p] = entity[p],
         \A o \in Orders : orderLock'[o] # orderLock[o] => orderLock'[o] = p,
         pc'[p] \in {"commit", "release"} \/ (pc[p] \notin {"commit", "release"} /\ UNCHANGED orderLock),
         SeatCall(p)', SaveCall(p)', EditCall(p)',
         \A q \in Procs : q # p /\ (pc[q] = "seat" \/ Seating(q)) => call'[p].order # call[q].order
  PROVE  IInv'
<1>1. TypeOK'
  BY DEF IInv, TypeOK, OthersStay, RowsStay, PCs, Calls
<1>2. HandlersOK'
  <2> SUFFICES ASSUME NEW q \in Procs PROVE (SeatCall(q) /\ SaveCall(q) /\ EditCall(q))'
    BY DEF HandlersOK
  <2>1. CASE q = p
    BY <2>1
  <2>2. CASE q # p
    <3>1. pc'[q] = pc[q] /\ call'[q] = call[q]
      BY <2>2 DEF OthersStay
    <3>2. SeatCall(q) /\ SaveCall(q) /\ EditCall(q)
      BY DEF IInv, HandlersOK
    <3>3. SeatCall(q)'
      BY <2>2, <3>1, <3>2 DEF SeatCall, Seating, RowsStay, OthersStay
    <3>4. SaveCall(q)'
      BY <3>1, <3>2 DEF SaveCall, Saving, RowsStay
    <3>5. EditCall(q)'
      BY <3>1, <3>2 DEF EditCall, Editing, RowsStay
    <3>6. QED
      BY <3>3, <3>4, <3>5
  <2>3. QED
    BY <2>1, <2>2
<1>3. \A q \in Procs : Seating(q)' => Seating(q) /\ call'[q] = call[q] /\ entity'[q] = entity[q]
  BY DEF OthersStay, Seating
<1>4. \A q \in Procs : Seating(q) => Seating(q)' /\ call'[q] = call[q]
  BY DEF OthersStay, Seating
<1>5. TableLocks'
  BY <1>3, <1>4 DEF IInv, TypeOK, TableLocks
<1>6. OrderLocks'
  <2> SUFFICES ASSUME NEW o \in Orders, orderLock'[o] # None
               PROVE  pc'[orderLock'[o]] \in {"commit", "release"}
    BY DEF OrderLocks
  <2>1. orderLock'[o] \in Procs
    OBVIOUS
  <2>2. CASE orderLock'[o] = orderLock[o]
    BY <2>1, <2>2 DEF IInv, OrderLocks, OthersStay
  <2>3. CASE orderLock'[o] # orderLock[o]
    BY <2>3
  <2>4. QED
    BY <2>2, <2>3
<1>7. SeatingIsAtomic'
  BY <1>3 DEF IInv, SeatingIsAtomic, Seating, RowsStay, Seatable
<1>8. QED
  BY <1>1, <1>2, <1>5, <1>6, <1>7, RowsStayInv DEF IInv
-------------------------------------------------------------------------------
(* Steps that change no row *)

(***************************************************************************)
(* createPosOrder begins with a table and an id of its own.                *)
(***************************************************************************)
LEMMA CreatePosOrderInv ==
  ASSUME IInv, NEW p \in Procs, CreatePosOrder(p)
  PROVE  IInv'
<1>1. PICK t \in Tables, o \in Orders \ DOMAIN orders :
        /\ pc[p] = "idle"
        /\ \A q \in Procs : call[q].order # o
        /\ pc' = [pc EXCEPT ![p] = "seat"]
        /\ call' = [call EXCEPT ![p] = [table |-> t, order |-> o, status |-> None]]
        /\ UNCHANGED <<tables, orders, tableLock, orderLock, entity, loaded, everClosed, byHand>>
  BY DEF CreatePosOrder
<1>2. OthersStay(p)
  BY <1>1 DEF IInv, TypeOK, OthersStay, PCs, Calls
<1>3. pc'[p] = "seat" /\ call'[p].table = t /\ call'[p].order = o
  BY <1>1 DEF IInv, TypeOK
<1>4. SeatCall(p)' /\ SaveCall(p)' /\ EditCall(p)'
  BY <1>1, <1>2, <1>3 DEF SeatCall, SaveCall, EditCall, Seating, Saving, Editing, OthersStay
<1>5. RowsStay /\ ~ Seating(p) /\ ~ Seating(p)'
  BY <1>1, <1>3 DEF IInv, TypeOK, RowsStay, Seating
<1>6. orderLock' \in [Orders -> Procs \cup {None}]
  BY <1>1 DEF IInv, TypeOK
<1>7. QED
  BY <1>1, <1>2, <1>3, <1>4, <1>5, <1>6, MoveInv

(***************************************************************************)
(* generateOrderNumber locks the orders.                                   *)
(***************************************************************************)
LEMMA LockOrdersInv ==
  ASSUME IInv, NEW p \in Procs, LockOrders(p)
  PROVE  IInv'
<1>1. /\ pc[p] = "number" /\ pc' = [pc EXCEPT ![p] = "commit"]
      /\ \A o \in DOMAIN orders : orderLock[o] = None
      /\ orderLock' = [o \in Orders |-> IF o \in DOMAIN orders THEN p ELSE orderLock[o]]
      /\ UNCHANGED <<tables, orders, tableLock, call, entity, loaded, everClosed, byHand>>
  BY DEF LockOrders
<1>2. OthersStay(p)
  BY <1>1 DEF IInv, TypeOK, OthersStay, PCs, Calls
<1>3. pc'[p] = "commit"
  BY <1>1 DEF IInv, TypeOK
<1>4. SeatCall(p)
  BY DEF IInv, HandlersOK
<1>5. SeatCall(p)' /\ SaveCall(p)' /\ EditCall(p)'
  BY <1>1, <1>3, <1>4 DEF SeatCall, SaveCall, EditCall, Seating, Saving, Editing
<1>6. RowsStay /\ Seating(p) /\ Seating(p)'
  BY <1>1, <1>3 DEF IInv, TypeOK, RowsStay, Seating
<1>7. orderLock' \in [Orders -> Procs \cup {None}]
  BY <1>1 DEF IInv, TypeOK
<1>8. \A q \in Procs : q # p /\ (pc[q] = "seat" \/ Seating(q)) => call'[p].order # call[q].order
  BY <1>1, <1>4, <1>6 DEF SeatCall
<1>9. QED
  BY <1>1, <1>2, <1>3, <1>5, <1>6, <1>7, <1>8, MoveInv

(***************************************************************************)
(* update reads its order, and what it will save is fixed.                 *)
(***************************************************************************)
LEMMA ReadOrderInv ==
  ASSUME IInv, NEW p \in Procs, ReadOrder(p)
  PROVE  IInv'
<1>1. PICK o \in DOMAIN orders, to \in {None, "live", "terminal"} :
        /\ pc[p] = "idle"
        /\ orders[o].status = "terminal" => to # "terminal"
        /\ pc' = [pc EXCEPT ![p] = "save"]
        /\ call' = [call EXCEPT ![p] =
             [order |-> o, status |-> StatusToSave(orders[o].status, to),
              table |-> IF to = "terminal" THEN orders[o].tableId ELSE None]]
        /\ UNCHANGED <<tables, orders, tableLock, orderLock, entity, loaded, everClosed, byHand>>
  BY DEF ReadOrder
<1>2. o \in Orders /\ orders[o].status \in {"live", "terminal"} /\ orders[o].tableId \in Tables
  BY DEF IInv, TypeOK, OrderRows
<1>3. PICK c \in Calls :
        /\ call' = [call EXCEPT ![p] = c] /\ c.order = o
        /\ c.status = StatusToSave(orders[o].status, to)
        /\ c.table = IF to = "terminal" THEN orders[o].tableId ELSE None
  <2>1. PICK c : c = [order |-> o, status |-> StatusToSave(orders[o].status, to),
                      table |-> IF to = "terminal" THEN orders[o].tableId ELSE None]
    OBVIOUS
  <2>2. StatusToSave(orders[o].status, to) \in {"live", "terminal"}
    BY <1>2 DEF StatusToSave
  <2>3. c \in Calls
    BY <1>2, <2>1, <2>2 DEF Calls
  <2>4. QED
    BY <1>1, <2>1, <2>3
<1>4. OthersStay(p)
  BY <1>1, <1>3 DEF IInv, TypeOK, OthersStay, PCs, Calls
<1>5. pc'[p] = "save" /\ call'[p] = c
  BY <1>1, <1>3 DEF IInv, TypeOK
<1>6. c.status = "terminal" => to = "terminal" \/ o \in everClosed
  BY <1>2, <1>3 DEF StatusToSave, IInv, ClosedOrders
<1>7. c.status \in {"live", "terminal"} /\ (to = "terminal" => c.status = "terminal")
  BY <1>2, <1>3 DEF StatusToSave
<1>8. SaveCall(p)'
  BY <1>1, <1>2, <1>3, <1>5, <1>6, <1>7 DEF SaveCall
<1>9. SeatCall(p)' /\ EditCall(p)' /\ ~ Seating(p) /\ ~ Seating(p)'
  BY <1>1, <1>5 DEF SeatCall, EditCall, Seating, Editing
<1>10. RowsStay /\ orderLock' \in [Orders -> Procs \cup {None}]
  BY <1>1 DEF IInv, TypeOK, RowsStay
<1>11. \A q \in Procs : pc[q] = "seat" \/ Seating(q) => call'[p].order # call[q].order
  BY <1>3, <1>5 DEF IInv, HandlersOK, SeatCall
<1>12. QED
  BY <1>1, <1>4, <1>5, <1>8, <1>9, <1>10, <1>11, MoveInv

(***************************************************************************)
(* save(order) locks its row.                                              *)
(***************************************************************************)
LEMMA SaveOrderInv ==
  ASSUME IInv, NEW p \in Procs, SaveOrder(p)
  PROVE  IInv'
<1>1. /\ pc[p] = "save" /\ pc' = [pc EXCEPT ![p] = "release"]
      /\ orderLock' = [orderLock EXCEPT ![call[p].order] = p]
      /\ UNCHANGED <<tables, orders, tableLock, call, entity, loaded, everClosed, byHand>>
  BY DEF SaveOrder
<1>2. OthersStay(p)
  BY <1>1 DEF IInv, TypeOK, OthersStay, PCs, Calls
<1>3. pc'[p] = "release"
  BY <1>1 DEF IInv, TypeOK
<1>4. SaveCall(p)
  BY DEF IInv, HandlersOK
<1>5. SeatCall(p)' /\ SaveCall(p)' /\ EditCall(p)'
  BY <1>1, <1>3, <1>4 DEF SeatCall, SaveCall, EditCall, Seating, Saving, Editing
<1>6. RowsStay /\ ~ Seating(p) /\ ~ Seating(p)'
  BY <1>1, <1>3 DEF IInv, TypeOK, RowsStay, Seating
<1>7. /\ orderLock' \in [Orders -> Procs \cup {None}]
      /\ \A o \in Orders : orderLock'[o] # orderLock[o] => orderLock'[o] = p
  BY <1>1 DEF IInv, TypeOK
<1>8. \A q \in Procs : pc[q] = "seat" \/ Seating(q) => call'[p].order # call[q].order
  BY <1>1, <1>4 DEF IInv, HandlersOK, SeatCall, SaveCall, Saving
<1>9. QED
  BY <1>1, <1>2, <1>3, <1>5, <1>6, <1>7, <1>8, MoveInv

(***************************************************************************)
(* The row lock of a table that can be seated.                             *)
(***************************************************************************)
LEMMA LockTableInv ==
  ASSUME IInv, NEW p \in Procs, LockTable(p)
  PROVE  IInv'
<1>1. PICK t \in Tables :
        /\ pc[p] = "seat" /\ t = call[p].table
        /\ tableLock[t] = None /\ Seatable(tables[t])
        /\ tableLock' = [tableLock EXCEPT ![t] = p]
        /\ entity' = [entity EXCEPT ![p] = tables[t]]
        /\ pc' = [pc EXCEPT ![p] = "number"]
        /\ UNCHANGED <<tables, orders, orderLock, call, loaded, everClosed, byHand>>
  BY DEF LockTable, LockedSelect, IInv, HandlersOK, SeatCall
<1>2. OthersStay(p)
  BY <1>1 DEF IInv, TypeOK, OthersStay, PCs, Calls
<1>3. pc'[p] = "number" /\ entity'[p] = tables[t]
  BY <1>1 DEF IInv, TypeOK
<1>4. RowsStay
  BY <1>1 DEF IInv, TypeOK, RowsStay
<1>5. TypeOK'
  <2>1. tableLock' \in [Tables -> Procs \cup {None}] /\ UNCHANGED orderLock
    BY <1>1 DEF IInv, TypeOK
  <2>2. QED
    BY <1>2, <1>4, <2>1 DEF IInv, TypeOK, OthersStay, RowsStay, PCs, Calls
<1>6. HandlersOK'
  <2> SUFFICES ASSUME NEW q \in Procs PROVE (SeatCall(q) /\ SaveCall(q) /\ EditCall(q))'
    BY DEF HandlersOK
  <2>1. SeatCall(q) /\ SaveCall(q) /\ EditCall(q) /\ UNCHANGED <<call, orders, everClosed, byHand>>
    BY <1>1 DEF IInv, HandlersOK
  <2>2. pc'[q] = pc[q] \/ (pc[q] = "seat" /\ pc'[q] = "number")
    BY <1>1, <1>2, <1>3 DEF OthersStay
  <2>3. QED
    BY <2>1, <2>2 DEF SeatCall, SaveCall, EditCall, Seating, Saving, Editing
<1>7. \A q \in Procs : q # p => (Seating(q)' <=> Seating(q)) /\ entity'[q] = entity[q]
  BY <1>2 DEF OthersStay, Seating
<1>8. ~ Seating(p) /\ Seating(p)' /\ UNCHANGED call
  BY <1>1, <1>3 DEF Seating
<1>9. \A q \in Procs : Seating(q) => call[q].table # t /\ call[q].table \in Tables
  BY <1>1 DEF IInv, TableLocks, HandlersOK, SeatCall
<1>10. TableLocks'
  <2>1. ASSUME NEW u \in Tables, tableLock'[u] # None
        PROVE  pc'[tableLock'[u]] \in {"number", "commit"} /\ call'[tableLock'[u]].table = u
    <3>1. CASE u = t
      <4>1. tableLock'[u] = p
        BY <1>1, <3>1 DEF IInv, TypeOK
      <4>2. QED
        BY <1>1, <1>8, <3>1, <4>1 DEF Seating
    <3>2. CASE u # t
      <4>1. tableLock'[u] = tableLock[u] /\ tableLock[u] \in Procs
        BY <1>1, <2>1, <3>2 DEF IInv, TypeOK
      <4>2. Seating(tableLock[u]) /\ call[tableLock[u]].table = u
        BY <2>1, <4>1 DEF IInv, TableLocks
      <4>3. QED
        BY <1>7, <1>8, <4>1, <4>2 DEF Seating
    <3>3. QED
      BY <3>1, <3>2
  <2>2. ASSUME NEW q \in Procs, Seating(q)'
        PROVE  tableLock'[call'[q].table] = q
    <3>1. CASE q = p
      BY <1>1, <3>1 DEF IInv, TypeOK
    <3>2. CASE q # p
      <4>1. Seating(q) /\ tableLock[call[q].table] = q
        BY <1>7, <2>2, <3>2 DEF IInv, TableLocks
      <4>2. QED
        BY <1>1, <1>9, <4>1 DEF IInv, TypeOK
    <3>3. QED
      BY <3>1, <3>2
  <2>3. QED
    BY <2>1, <2>2 DEF TableLocks, Seating
<1>11. OrderLocks'
  <2>1. \A q \in Procs : pc[q] \in {"commit", "release"} => pc'[q] = pc[q]
    BY <1>1, <1>2 DEF OthersStay
  <2>2. QED
    BY <1>1, <2>1 DEF IInv, TypeOK, OrderLocks
<1>12. SeatingIsAtomic'
  <2> SUFFICES ASSUME NEW q \in Procs, Seating(q)'
               PROVE  tables'[call'[q].table] = entity'[q] /\ Seatable(tables'[call'[q].table])
    BY DEF SeatingIsAtomic, Seating
  <2>1. CASE q = p
    BY <1>1, <1>3, <2>1
  <2>2. CASE q # p
    BY <1>1, <1>7, <2>2 DEF IInv, SeatingIsAtomic, Seating
  <2>3. QED
    BY <2>1, <2>2
<1>13. QED
  BY <1>4, <1>5, <1>6, <1>10, <1>11, <1>12, RowsStayInv DEF IInv

(***************************************************************************)
(* tables.service reads a row and edits a column in memory.                *)
(***************************************************************************)
LEMMA ReadTableInv ==
  ASSUME IInv, NEW p \in Procs, NEW t \in Tables, NEW row \in TableRows,
         ReadTable(p, t, row)
  PROVE  IInv'
<1>1. /\ pc[p] = "idle" /\ pc' = [pc EXCEPT ![p] = "edit"]
      /\ call' = [call EXCEPT ![p].table = t]
      /\ entity' = [entity EXCEPT ![p] = row]
      /\ byHand' = TRUE
      /\ UNCHANGED <<tables, orders, tableLock, orderLock, loaded, everClosed>>
  BY DEF ReadTable
<1>2. /\ pc'[p] = "edit" /\ call'[p].table = t
      /\ \A q \in Procs : call'[q].order = call[q].order
  BY <1>1 DEF IInv, TypeOK
<1>3. OthersStay(p)
  <2>1. call' \in [Procs -> Calls]
    BY <1>1 DEF IInv, TypeOK, Calls
  <2>2. QED
    BY <1>1, <2>1 DEF IInv, TypeOK, OthersStay, PCs
<1>4. SeatCall(p)' /\ SaveCall(p)' /\ EditCall(p)' /\ ~ Seating(p) /\ ~ Seating(p)'
  BY <1>1, <1>2 DEF SeatCall, SaveCall, EditCall, Seating, Saving
<1>5. RowsStay /\ orderLock' \in [Orders -> Procs \cup {None}]
  BY <1>1 DEF IInv, TypeOK, RowsStay
<1>6. \A q \in Procs : q # p /\ (pc[q] = "seat" \/ Seating(q)) => call'[p].order # call[q].order
  BY <1>2 DEF IInv, HandlersOK, SeatCall
<1>7. QED
  BY <1>1, <1>2, <1>3, <1>4, <1>5, <1>6, MoveInv

(***************************************************************************)
(* tables.service update, updatePositions, softDelete and restore begin.   *)
(***************************************************************************)
LEMMA EditInv ==
  ASSUME IInv, NEW p \in Procs, UpdateTable(p) \/ SoftDelete(p) \/ Restore(p)
  PROVE  IInv'
<1>1. \A t \in Tables : tables[t] \in TableRows
  BY DEF IInv, TypeOK
<1>2. CASE UpdateTable(p)
  <2>1. PICK t \in Tables, status \in {None, "FREE", "RESERVED"} :
          ReadTable(p, t, [tables[t] EXCEPT !.status = StatusToSave(tables[t].status, status)])
    BY <1>2 DEF UpdateTable
  <2>2. StatusToSave(tables[t].status, status) \in TableStatus
    BY <1>1 DEF StatusToSave, TableRows, TableStatus
  <2>3. [tables[t] EXCEPT !.status = StatusToSave(tables[t].status, status)] \in TableRows
    BY <1>1, <2>2 DEF TableRows
  <2>4. QED
    BY <2>1, <2>3, ReadTableInv
<1>3. CASE SoftDelete(p)
  <2>1. PICK t \in Tables : ReadTable(p, t, [tables[t] EXCEPT !.isDeleted = TRUE])
    BY <1>3 DEF SoftDelete
  <2>2. [tables[t] EXCEPT !.isDeleted = TRUE] \in TableRows
    BY <1>1 DEF TableRows
  <2>3. QED
    BY <2>1, <2>2, ReadTableInv
<1>4. CASE Restore(p)
  <2>1. PICK t \in Tables : ReadTable(p, t, [tables[t] EXCEPT !.isDeleted = FALSE])
    BY <1>4 DEF Restore
  <2>2. [tables[t] EXCEPT !.isDeleted = FALSE] \in TableRows
    BY <1>1 DEF TableRows
  <2>3. QED
    BY <2>1, <2>2, ReadTableInv
<1>5. QED
  BY <1>2, <1>3, <1>4

(***************************************************************************)
(* save() reads the row again.                                             *)
(***************************************************************************)
LEMMA LoadTableInv ==
  ASSUME IInv, NEW p \in Procs, LoadTable(p)
  PROVE  IInv'
<1>1. /\ pc[p] = "edit" /\ pc' = [pc EXCEPT ![p] = "write"]
      /\ loaded' = [loaded EXCEPT ![p] = tables[call[p].table]]
      /\ UNCHANGED <<tables, orders, tableLock, orderLock, call, entity, everClosed, byHand>>
  BY DEF LoadTable
<1>2. call[p].table \in Tables /\ byHand
  BY <1>1 DEF IInv, HandlersOK, EditCall, Editing
<1>3. OthersStay(p)
  BY <1>1, <1>2 DEF IInv, TypeOK, OthersStay, PCs, Calls
<1>4. pc'[p] = "write"
  BY <1>1 DEF IInv, TypeOK
<1>5. SeatCall(p)' /\ SaveCall(p)' /\ EditCall(p)' /\ ~ Seating(p) /\ ~ Seating(p)'
  BY <1>1, <1>2, <1>4 DEF SeatCall, SaveCall, EditCall, Seating, Saving
<1>6. RowsStay /\ orderLock' \in [Orders -> Procs \cup {None}]
  BY <1>1 DEF IInv, TypeOK, RowsStay
<1>7. \A q \in Procs : q # p /\ (pc[q] = "seat" \/ Seating(q)) => call'[p].order # call[q].order
  BY <1>1 DEF IInv, HandlersOK, SeatCall
<1>8. QED
  BY <1>1, <1>3, <1>4, <1>5, <1>6, <1>7, MoveInv
-------------------------------------------------------------------------------
(* Steps that end a handler *)

(***************************************************************************)
(* What Finish does.                                                       *)
(***************************************************************************)
LEMMA FinishFrame ==
  ASSUME IInv, NEW p \in Procs, Finish(p)
  PROVE  /\ OthersStay(p) /\ pc'[p] = "idle" /\ call'[p] = NoCall
         /\ tableLock' \in [Tables -> Procs \cup {None}]
         /\ orderLock' \in [Orders -> Procs \cup {None}]
         /\ \A t \in Tables : tableLock'[t] = IF tableLock[t] = p THEN None ELSE tableLock[t]
         /\ \A o \in Orders : orderLock'[o] = IF orderLock[o] = p THEN None ELSE orderLock[o]
<1>1. NoCall \in Calls /\ NewTable \in TableRows
  BY DEF NoCall, Calls, NewTable, TableRows, TableStatus
<1>2. QED
  BY <1>1 DEF Finish, IInv, TypeOK, OthersStay, PCs, Calls

\* What the end of p's transaction may commit.
Committed(p) ==
  /\ tables' \in [Tables -> TableRows] /\ UNCHANGED byHand
  /\ DOMAIN orders \subseteq DOMAIN orders' /\ DOMAIN orders' \subseteq Orders
  /\ \A o \in DOMAIN orders' : orders'[o] \in OrderRows
  /\ \A o \in DOMAIN orders : orders'[o].tableId = orders[o].tableId
  /\ \A o \in DOMAIN orders' \ DOMAIN orders : pc[p] = "commit" /\ o = call[p].order
  /\ everClosed \subseteq everClosed' /\ everClosed' \subseteq DOMAIN orders'

(***************************************************************************)
(* A handler that ends keeps the invariant if what it commits does and     *)
(* leaves the tables alone at which others are seating guests.             *)
(***************************************************************************)
LEMMA FinishInv ==
  ASSUME IInv, NEW p \in Procs, Finish(p), Committed(p),
         \A q \in Procs : q # p /\ Seating(q) => tables'[call[q].table] = tables[call[q].table],
         ClosedOrders', GuestsKeepTheirTable', OccupiedByItsOrder'
  PROVE  IInv'
<1>1. /\ OthersStay(p) /\ pc'[p] = "idle" /\ call'[p] = NoCall
      /\ tableLock' \in [Tables -> Procs \cup {None}]
      /\ orderLock' \in [Orders -> Procs \cup {None}]
      /\ \A t \in Tables : tableLock'[t] = IF tableLock[t] = p THEN None ELSE tableLock[t]
      /\ \A o \in Orders : orderLock'[o] = IF orderLock[o] = p THEN None ELSE orderLock[o]
  BY FinishFrame
<1>2. TypeOK'
  BY <1>1 DEF IInv, TypeOK, OthersStay, Committed, PCs, Calls
<1>3. ~ Seating(p)' /\ \A q \in Procs : q # p => (Seating(q)' <=> Seating(q)) /\ call'[q] = call[q]
  BY <1>1 DEF Seating, OthersStay
<1>4. HandlersOK'
  <2> SUFFICES ASSUME NEW q \in Procs PROVE (SeatCall(q) /\ SaveCall(q) /\ EditCall(q))'
    BY DEF HandlersOK
  <2>1. CASE q = p
    BY <1>1, <2>1 DEF SeatCall, SaveCall, EditCall, Seating, Saving, Editing
  <2>2. CASE q # p
    <3>1. pc'[q] = pc[q] /\ call'[q] = call[q]
      BY <1>1, <2>2 DEF OthersStay
    <3>2. SeatCall(q) /\ SaveCall(q) /\ EditCall(q) /\ SeatCall(p)
      BY DEF IInv, HandlersOK
    <3>3. SeatCall(q)'
      <4> SUFFICES ASSUME pc[q] = "seat" \/ Seating(q) PROVE SeatCall(q)'
        BY <3>1 DEF SeatCall, Seating
      <4>1. call[q].order \notin DOMAIN orders'
        BY <2>2, <3>2 DEF Committed, SeatCall, Seating
      <4>2. \A r \in Procs : r # q => call'[r].order # call[q].order
        BY <1>1, <3>2 DEF SeatCall, OthersStay, NoCall
      <4>3. QED
        BY <3>1, <3>2, <4>1, <4>2 DEF SeatCall
    <3>4. SaveCall(q)'
      BY <3>1, <3>2 DEF SaveCall, Saving, Committed
    <3>5. EditCall(q)'
      BY <3>1, <3>2 DEF EditCall, Editing, Committed
    <3>6. QED
      BY <3>3, <3>4, <3>5
  <2>3. QED
    BY <2>1, <2>2
<1>5. TableLocks'
  <2>1. ASSUME NEW t \in Tables, tableLock'[t] # None
        PROVE  pc'[tableLock'[t]] \in {"number", "commit"} /\ call'[tableLock'[t]].table = t
    <3>1. tableLock'[t] = tableLock[t] /\ tableLock[t] \in Procs /\ tableLock[t] # p
      BY <1>1, <2>1 DEF IInv, TypeOK
    <3>2. Seating(tableLock[t]) /\ call[tableLock[t]].table = t
      BY <2>1, <3>1 DEF IInv, TableLocks
    <3>3. QED
      BY <1>1, <3>1, <3>2 DEF OthersStay, Seating
  <2>2. ASSUME NEW q \in Procs, Seating(q)'
        PROVE  tableLock'[call'[q].table] = q
    <3>1. q # p /\ Seating(q) /\ call'[q] = call[q]
      BY <1>3, <2>2
    <3>2. tableLock[call[q].table] = q /\ call[q].table \in Tables
      BY <3>1 DEF IInv, TableLocks, HandlersOK, SeatCall
    <3>3. QED
      BY <1>1, <3>1, <3>2
  <2>3. QED
    BY <2>1, <2>2 DEF TableLocks, Seating
<1>6. OrderLocks'
  <2>1. ASSUME NEW o \in Orders, orderLock'[o] # None
        PROVE  pc'[orderLock'[o]] \in {"commit", "release"}
    <3>1. orderLock'[o] = orderLock[o] /\ orderLock[o] \in Procs /\ orderLock[o] # p
      BY <1>1, <2>1 DEF IInv, TypeOK
    <3>2. QED
      BY <1>1, <2>1, <3>1 DEF IInv, OrderLocks, OthersStay
  <2>2. QED
    BY <2>1 DEF OrderLocks
<1>7. SeatingIsAtomic'
  <2> SUFFICES ASSUME NEW q \in Procs, Seating(q)'
               PROVE  tables'[call'[q].table] = entity'[q] /\ Seatable(tables'[call'[q].table])
    BY DEF SeatingIsAtomic, Seating
  <2>1. q # p /\ Seating(q) /\ call'[q] = call[q] /\ entity'[q] = entity[q]
    BY <1>1, <1>3 DEF OthersStay
  <2>2. QED
    BY <2>1 DEF IInv, SeatingIsAtomic, Seating
<1>8. QED
  BY <1>2, <1>4, <1>5, <1>6, <1>7 DEF IInv

(***************************************************************************)
(* A handler that is rolled back.                                          *)
(***************************************************************************)
LEMMA RollbackInv ==
  ASSUME IInv, NEW p \in Procs, Rollback(p)
  PROVE  IInv'
<1>1. Finish(p) /\ UNCHANGED <<tables, orders, everClosed, byHand>>
  BY DEF Rollback
<1>2. Committed(p)
  BY <1>1 DEF IInv, TypeOK, Committed
<1>3. RowsStay
  BY <1>1 DEF IInv, TypeOK, RowsStay
<1>4. QED
  BY <1>1, <1>2, <1>3, FinishInv, RowsStayInv

(***************************************************************************)
(* tables.service saves the row it edited.                                 *)
(***************************************************************************)
LEMMA SaveTableInv ==
  ASSUME IInv, NEW p \in Procs, SaveTable(p)
  PROVE  IInv'
<1>1. PICK t \in Tables :
        /\ pc[p] = "write" /\ t = call[p].table
        /\ entity[p] # loaded[p] => tableLock[t] = None
        /\ tables' = [tables EXCEPT ![t] = Merge(tables[t], loaded[p], entity[p])]
        /\ Finish(p) /\ UNCHANGED <<orders, everClosed, byHand>>
  BY DEF SaveTable, IInv, HandlersOK, EditCall, Editing
<1>2. /\ tables \in [Tables -> TableRows] /\ tables[t] \in TableRows
      /\ entity[p] \in TableRows /\ loaded[p] \in TableRows
  BY DEF IInv, TypeOK
<1>3. PICK row \in TableRows :
        /\ tables' = [tables EXCEPT ![t] = row]
        /\ entity[p] = loaded[p] => row = tables[t]
  <2>1. Merge(tables[t], loaded[p], entity[p]) =
          [status |-> IF entity[p].status # loaded[p].status
                        THEN entity[p].status ELSE tables[t].status,
           currentOrderId |-> IF entity[p].currentOrderId # loaded[p].currentOrderId
                        THEN entity[p].currentOrderId ELSE tables[t].currentOrderId,
           isDeleted |-> IF entity[p].isDeleted # loaded[p].isDeleted
                        THEN entity[p].isDeleted ELSE tables[t].isDeleted]
    BY <1>2 DEF Merge, TableRows
  <2>2. Merge(tables[t], loaded[p], entity[p]) \in TableRows
    BY <1>2, <2>1 DEF TableRows
  <2>3. entity[p] = loaded[p] => Merge(tables[t], loaded[p], entity[p]) = tables[t]
    BY <1>2, <2>1 DEF TableRows
  <2>4. QED
    BY <1>1, <2>2, <2>3
<1>4. Committed(p)
  <2>1. tables' \in [Tables -> TableRows]
    BY <1>2, <1>3
  <2>2. QED
    BY <1>1, <2>1 DEF IInv, TypeOK, Committed
<1>5. ASSUME NEW q \in Procs, q # p, Seating(q)
      PROVE  tables'[call[q].table] = tables[call[q].table]
  <2>1. call[q].table \in Tables /\ tableLock[call[q].table] = q
    BY <1>5 DEF IInv, TableLocks, HandlersOK, SeatCall
  <2>2. call[q].table = t => entity[p] = loaded[p]
    BY <1>1, <2>1
  <2>3. QED
    BY <1>2, <1>3, <2>1, <2>2
<1>6. byHand'
  BY <1>1 DEF IInv, HandlersOK, EditCall, Editing
<1>7. ClosedOrders' /\ GuestsKeepTheirTable' /\ OccupiedByItsOrder'
  BY <1>1, <1>6 DEF IInv, ClosedOrders, GuestsKeepTheirTable, OccupiedByItsOrder
<1>8. QED
  BY <1>1, <1>4, <1>5, <1>7, FinishInv

(***************************************************************************)
(* createPosOrder commits its order and the occupied table.                *)
(***************************************************************************)
LEMMA SeatInv ==
  ASSUME IInv, NEW p \in Procs, Seat(p)
  PROVE  IInv'
<1>1. PICK t \in Tables, o \in Orders \ DOMAIN orders :
        /\ pc[p] = "commit" /\ t = call[p].table /\ o = call[p].order
        /\ orders' = [x \in DOMAIN orders \cup {o} |->
                        IF x = o THEN [status |-> "live", tableId |-> t] ELSE orders[x]]
        /\ tables' = [tables EXCEPT ![t] =
                        [entity[p] EXCEPT !.status = "OCCUPIED", !.currentOrderId = o]]
        /\ Finish(p) /\ UNCHANGED <<everClosed, byHand>>
  BY DEF Seat, IInv, HandlersOK, SeatCall, Seating
<1>2. /\ entity[p] = tables[t] /\ tables[t].status = "FREE" /\ tableLock[t] = p
      /\ tables \in [Tables -> TableRows] /\ tables[t] \in TableRows
  BY <1>1 DEF IInv, TypeOK, SeatingIsAtomic, Seatable, TableLocks, Seating
<1>3. PICK row \in TableRows :
        /\ tables' = [tables EXCEPT ![t] = row]
        /\ row.status = "OCCUPIED" /\ row.currentOrderId = o
  <2>1. PICK row : row = [tables[t] EXCEPT !.status = "OCCUPIED", !.currentOrderId = o]
    OBVIOUS
  <2>2. row \in TableRows /\ row.status = "OCCUPIED" /\ row.currentOrderId = o
    BY <1>2, <2>1 DEF TableRows, TableStatus
  <2>3. QED
    BY <1>1, <1>2, <2>1, <2>2
<1>4. /\ tables' \in [Tables -> TableRows]
      /\ tables'[t].status = "OCCUPIED" /\ tables'[t].currentOrderId = o
      /\ \A u \in Tables : u # t => tables'[u] = tables[u]
  BY <1>2, <1>3
<1>5. /\ DOMAIN orders' = DOMAIN orders \cup {o}
      /\ orders'[o].status = "live" /\ orders'[o].tableId = t /\ orders'[o] \in OrderRows
      /\ \A x \in DOMAIN orders : orders'[x] = orders[x]
  BY <1>1 DEF OrderRows
<1>6. Committed(p)
  BY <1>1, <1>4, <1>5 DEF IInv, TypeOK, Committed
<1>7. ASSUME NEW q \in Procs, q # p, Seating(q)
      PROVE  tables'[call[q].table] = tables[call[q].table]
  BY <1>2, <1>4, <1>7 DEF IInv, TableLocks, HandlersOK, SeatCall
<1>8. ClosedOrders'
  BY <1>1, <1>5 DEF IInv, ClosedOrders
<1>9. GuestsKeepTheirTable'
  <2> SUFFICES ASSUME ~ byHand, NEW x \in DOMAIN orders' \ everClosed
               PROVE  /\ tables'[orders'[x].tableId].status = "OCCUPIED"
                      /\ tables'[orders'[x].tableId].currentOrderId = x
    BY <1>1 DEF GuestsKeepTheirTable
  <2>1. CASE x = o
    BY <1>4, <1>5, <2>1
  <2>2. CASE x # o
    <3>1. x \in DOMAIN orders /\ orders'[x].tableId = orders[x].tableId /\ orders[x].tableId \in Tables
      BY <1>5, <2>2 DEF IInv, TypeOK, OrderRows
    <3>2. /\ tables[orders[x].tableId].status = "OCCUPIED"
          /\ tables[orders[x].tableId].currentOrderId = x
      BY <3>1 DEF IInv, GuestsKeepTheirTable
    <3>3. QED
      BY <1>2, <1>4, <3>1, <3>2
  <2>3. QED
    BY <2>1, <2>2
<1>10. OccupiedByItsOrder'
  <2> SUFFICES ASSUME ~ byHand, NEW u \in Tables
               PROVE  /\ (tables'[u].status = "OCCUPIED") <=> (tables'[u].currentOrderId # None)
                      /\ tables'[u].currentOrderId # None =>
                           /\ tables'[u].currentOrderId \in DOMAIN orders'
                           /\ orders'[tables'[u].currentOrderId].tableId = u
    BY <1>1 DEF OccupiedByItsOrder
  <2>1. CASE u = t
    BY <1>4, <1>5, <2>1
  <2>2. CASE u # t
    BY <1>4, <1>5, <2>2 DEF IInv, OccupiedByItsOrder
  <2>3. QED
    BY <2>1, <2>2
<1>11. QED
  BY <1>1, <1>6, <1>7, <1>8, <1>9, <1>10, FinishInv

(***************************************************************************)
(* update commits the order and frees the table that names it.             *)
(***************************************************************************)
LEMMA ReleaseTableInv ==
  ASSUME IInv, NEW p \in Procs, ReleaseTable(p)
  PROVE  IInv'
<1>1. PICK c : c = call[p]
  OBVIOUS
<1>2. PICK F : F = TablesToFree(c)
  OBVIOUS
<1>3. /\ pc[p] = "release" /\ \A t \in F : tableLock[t] = None
      /\ tables' = [t \in Tables |-> IF t \in F THEN Freed(tables[t]) ELSE tables[t]]
      /\ orders' = [orders EXCEPT ![c.order].status = c.status]
      /\ everClosed' = IF c.status = "terminal" THEN everClosed \cup {c.order} ELSE everClosed
      /\ Finish(p) /\ UNCHANGED byHand
  BY <1>1, <1>2 DEF ReleaseTable
<1>4. /\ c.order \in DOMAIN orders /\ c.status \in {"live", "terminal"}
      /\ c.table # None => c.status = "terminal"
  BY <1>1, <1>3 DEF IInv, HandlersOK, SaveCall, Saving
<1>5. \A t \in F : t \in Tables /\ tables[t].currentOrderId = c.order /\ c.table # None
  BY <1>2 DEF TablesToFree
<1>6. \A t \in Tables :
        /\ Freed(tables[t]) \in TableRows
        /\ Freed(tables[t]).status = "FREE"
        /\ Freed(tables[t]).currentOrderId = None
  <2> SUFFICES ASSUME NEW row \in TableRows
               PROVE  /\ Freed(row) \in TableRows
                      /\ Freed(row).status = "FREE" /\ Freed(row).currentOrderId = None
    BY DEF IInv, TypeOK
  <2>1. PICK freed : freed = [row EXCEPT !.status = "FREE", !.currentOrderId = None]
    OBVIOUS
  <2>2. QED
    BY <2>1 DEF Freed, TableRows, TableStatus
<1>7. /\ tables' \in [Tables -> TableRows]
      /\ \A t \in Tables \ F : tables'[t] = tables[t]
      /\ \A t \in F : tables'[t].status = "FREE" /\ tables'[t].currentOrderId = None
  BY <1>3, <1>5, <1>6 DEF IInv, TypeOK
<1>8. /\ DOMAIN orders' = DOMAIN orders
      /\ orders'[c.order].status = c.status /\ orders'[c.order].tableId = orders[c.order].tableId
      /\ orders'[c.order] \in OrderRows
      /\ \A x \in DOMAIN orders : x # c.order => orders'[x] = orders[x]
  <2>1. orders[c.order] \in OrderRows
    BY <1>4 DEF IInv, TypeOK
  <2>2. orders'[c.order] = [orders[c.order] EXCEPT !.status = c.status]
    BY <1>3, <1>4
  <2>3. QED
    BY <1>3, <1>4, <2>1, <2>2 DEF OrderRows
<1>9. Committed(p)
  BY <1>3, <1>4, <1>7, <1>8 DEF IInv, TypeOK, Committed
<1>10. ASSUME NEW q \in Procs, q # p, Seating(q)
       PROVE  tables'[call[q].table] = tables[call[q].table]
  BY <1>3, <1>7, <1>10 DEF IInv, TableLocks, HandlersOK, SeatCall
<1>11. ClosedOrders'
  BY <1>3, <1>4, <1>8 DEF IInv, ClosedOrders
<1>12. GuestsKeepTheirTable'
  <2> SUFFICES ASSUME ~ byHand, NEW x \in DOMAIN orders \ everClosed'
               PROVE  /\ tables'[orders'[x].tableId].status = "OCCUPIED"
                      /\ tables'[orders'[x].tableId].currentOrderId = x
    BY <1>3, <1>8 DEF GuestsKeepTheirTable
  <2>1. x \notin everClosed /\ orders[x].tableId \in Tables /\ orders'[x].tableId = orders[x].tableId
    BY <1>3, <1>8 DEF IInv, TypeOK, OrderRows
  <2>2. /\ tables[orders[x].tableId].status = "OCCUPIED"
        /\ tables[orders[x].tableId].currentOrderId = x
    BY <2>1 DEF IInv, GuestsKeepTheirTable
  <2>3. orders[x].tableId \notin F
    BY <1>3, <1>4, <1>5, <2>2
  <2>4. QED
    BY <1>7, <2>1, <2>2, <2>3
<1>13. OccupiedByItsOrder'
  <2> SUFFICES ASSUME ~ byHand, NEW u \in Tables
               PROVE  /\ (tables'[u].status = "OCCUPIED") <=> (tables'[u].currentOrderId # None)
                      /\ tables'[u].currentOrderId # None =>
                           /\ tables'[u].currentOrderId \in DOMAIN orders'
                           /\ orders'[tables'[u].currentOrderId].tableId = u
    BY <1>3 DEF OccupiedByItsOrder
  <2>1. CASE u \in F
    BY <1>7, <2>1
  <2>2. CASE u \notin F
    BY <1>7, <1>8, <2>2 DEF IInv, OccupiedByItsOrder
  <2>3. QED
    BY <2>1, <2>2
<1>14. QED
  BY <1>3, <1>9, <1>10, <1>11, <1>12, <1>13, FinishInv

-------------------------------------------------------------------------------
(* Theorems *)

(***************************************************************************)
(* Every step keeps the invariant.                                         *)
(***************************************************************************)
LEMMA StepInv == IInv /\ [Next]_vars => IInv'
<1> SUFFICES ASSUME IInv, [Next]_vars PROVE IInv'
  OBVIOUS
<1>1. CASE Next
  <2> SUFFICES ASSUME NEW p \in Procs,
                      \/ CreatePosOrder(p) \/ LockTable(p) \/ LockOrders(p) \/ Seat(p)
                      \/ ReadOrder(p) \/ SaveOrder(p) \/ ReleaseTable(p)
                      \/ UpdateTable(p) \/ SoftDelete(p) \/ Restore(p)
                      \/ LoadTable(p) \/ SaveTable(p) \/ Rollback(p)
               PROVE  IInv'
    BY <1>1 DEF Next
  <2>1. QED
    BY CreatePosOrderInv, LockTableInv, LockOrdersInv, SeatInv, ReadOrderInv, SaveOrderInv,
       ReleaseTableInv, EditInv, LoadTableInv, SaveTableInv, RollbackInv
<1>2. CASE UNCHANGED vars
  BY <1>2 DEF vars, IInv, TypeOK, HandlersOK, SeatCall, SaveCall, EditCall, Seating, Saving,
     Editing, TableLocks, OrderLocks, SeatingIsAtomic, Seatable, ClosedOrders,
     GuestsKeepTheirTable, OccupiedByItsOrder
<1>3. QED
  BY <1>1, <1>2

(***************************************************************************)
(* The inductive invariant holds in every reachable state.                 *)
(***************************************************************************)
THEOREM Inductive == Spec => []IInv
  BY InitInv, StepInv, PTL DEF Spec

(***************************************************************************)
(* A holder never waits, and everyone who waits waits for a holder: then   *)
(* no set of handlers waits on itself, however many handlers there are.    *)
(***************************************************************************)
LEMMA HoldersDoNotWait == IInv => NoWaitCycle
<1> SUFFICES ASSUME IInv, ~ byHand, NEW P \in SUBSET Procs, P # {},
                    \A p \in P : \E q \in P : WaitsFor(p, q)
             PROVE  FALSE
  BY DEF NoWaitCycle
<1>1. ASSUME NEW p \in P PROVE pc[p] \in {"seat", "number", "save"}
  <2>1. PICK q \in P : WaitsFor(p, q)
    OBVIOUS
  <2>2. pc[p] # "write"
    BY DEF IInv, HandlersOK, EditCall, Editing
  <2>3. ASSUME pc[p] = "release", NEW t \in TablesToFree(call[p]), tableLock[t] = q
        PROVE  FALSE
    <3>1. t \in Tables /\ tables[t].currentOrderId = call[p].order /\ call[p].order \in Orders
      BY <2>3 DEF TablesToFree, IInv, TypeOK, HandlersOK, SaveCall, Saving
    <3>2. tableLock[t] \in Procs /\ Seating(tableLock[t]) /\ call[tableLock[t]].table = t
      BY <2>3, <3>1 DEF IInv, TypeOK, TableLocks
    <3>3. tables[t].status = "FREE"
      BY <3>2 DEF IInv, SeatingIsAtomic, Seatable, Seating
    <3>4. QED
      BY <3>1, <3>3 DEF IInv, OccupiedByItsOrder
  <2>4. QED
    BY <2>1, <2>2, <2>3 DEF WaitsFor
<1>2. ASSUME NEW p \in P PROVE pc[p] = "seat"
  <2>1. PICK q \in P : WaitsFor(p, q)
    OBVIOUS
  <2>2. pc[q] \notin {"commit", "release"}
    BY <1>1
  <2>3. ASSUME pc[p] = "number" \/ pc[p] = "save" PROVE \E o \in Orders : orderLock[o] = q
    BY <2>1, <2>3 DEF WaitsFor, IInv, TypeOK, HandlersOK, SaveCall, Saving
  <2>4. \A o \in Orders : orderLock[o] # q
    BY <2>2 DEF IInv, OrderLocks
  <2>5. QED
    BY <1>1, <2>3, <2>4
<1>3. PICK p \in P, q \in P : WaitsFor(p, q)
  OBVIOUS
<1>4. call[p].table \in Tables /\ tableLock[call[p].table] = q
  BY <1>2, <1>3 DEF WaitsFor, IInv, HandlersOK, SeatCall
<1>5. QED
  BY <1>2, <1>4 DEF IInv, TableLocks, Seating

(***************************************************************************)
(* The shape of every variable, whatever createPosOrder, update and the    *)
(* handlers of tables.service do.                                          *)
(***************************************************************************)
THEOREM TypeCorrect == Spec => []TypeOK
<1>1. IInv => TypeOK
  BY DEF IInv
<1>2. QED
  BY Inductive, <1>1, PTL

(***************************************************************************)
(* Nobody changes a table between its check in createPosOrder and the      *)
(* commit, although tables.service takes no lock.                          *)
(***************************************************************************)
THEOREM AtomicSeating == Spec => []SeatingIsAtomic
<1>1. IInv => SeatingIsAtomic
  BY DEF IInv
<1>2. QED
  BY Inductive, <1>1, PTL

(***************************************************************************)
(* An order that was never completed or cancelled keeps its table, as long *)
(* as only createPosOrder and update change tables.                        *)
(***************************************************************************)
THEOREM TablesAreKept == Spec => []GuestsKeepTheirTable
<1>1. IInv => GuestsKeepTheirTable
  BY DEF IInv
<1>2. QED
  BY Inductive, <1>1, PTL

(***************************************************************************)
(* Then a table is occupied exactly while it names an order, and only an   *)
(* order that createPosOrder seated there.                                 *)
(***************************************************************************)
THEOREM OccupiedTablesNameTheirOrder == Spec => []OccupiedByItsOrder
<1>1. IInv => OccupiedByItsOrder
  BY DEF IInv
<1>2. QED
  BY Inductive, <1>1, PTL

(***************************************************************************)
(* createPosOrder locks the table before the orders and update an order    *)
(* before its table, and yet no handlers wait for each other in a circle.  *)
(***************************************************************************)
THEOREM NoDeadlock == Spec => []NoWaitCycle
  BY Inductive, HoldersDoNotWait, PTL
=================================================================================
