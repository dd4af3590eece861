------------------------------ MODULE TableSeating ------------------------------
(***************************************************************************)
(* Dine-in orders and the tables they sit at.  orders.service.ts           *)
(* createPosOrder (DINE_IN) takes a free table under its row lock, and     *)
(* update frees it when the order is completed or cancelled;               *)
(* tables.service.ts create, update, softDelete, restore and               *)
(* updatePositions read a table, change a column and save the whole row    *)
(* later without a lock.                                                   *)
(*                                                                         *)
(* An order is "live" or "terminal" (COMPLETED, CANCELLED); terminal       *)
(* orders can only be reopened.  A row's writer keeps it locked until its  *)
(* transaction ends, and whoever writes or locks it next waits.            *)
(***************************************************************************)
EXTENDS Integers, FiniteSets

CONSTANTS Procs,     \* handlers that may be in flight at once
          Tables,    \* tables of the organization
          Orders,    \* dine-in order ids (bound on the orders ever created)
          None,      \* no process, table, order or given status
          CreatedAs  \* statuses tables were created with

ASSUME TableSeatingAssumption ==
  /\ None \notin Procs /\ None \notin Tables /\ None \notin Orders
  /\ None \notin {"live", "terminal", "FREE", "OCCUPIED", "RESERVED"}
  /\ CreatedAs \subseteq {"FREE", "OCCUPIED", "RESERVED"}

VARIABLES tables,      \* rows of tables: status, currentOrderId, isDeleted
          orders,      \* committed dine-in orders: status and tableId
          tableLock,   \* the transaction holding a table's row
          orderLock,   \* the transaction holding an order's row
          pc, call,    \* the handlers in flight
          entity,      \* the table row a handler has in memory
          loaded,      \* the row its save() found in the database
          everClosed,  \* history: orders that have been terminal
          byHand       \* history: staff have edited or occupied a table

vars == <<tables, orders, tableLock, orderLock, pc, call, entity, loaded, everClosed,
          byHand>>

TableStatus == {"FREE", "OCCUPIED", "RESERVED"}
TableRows == [status : TableStatus, currentOrderId : Orders \cup {None}, isDeleted : BOOLEAN]
OrderRows == [status : {"live", "terminal"}, tableId : Tables]
NewTable == [status |-> "FREE", currentOrderId |-> None, isDeleted |-> FALSE]
NoCall == [table |-> None, order |-> None, status |-> None]

Init ==
  \* tables.service create: FREE by default, but the caller may give any status.
  /\ tables \in [Tables -> {[NewTable EXCEPT !.status = st] : st \in CreatedAs}]
  /\ orders = [o \in {} |-> NoCall]
  /\ tableLock = [t \in Tables |-> None]
  /\ orderLock = [o \in Orders |-> None]
  /\ pc = [p \in Procs |-> "idle"]
  /\ call = [p \in Procs |-> NoCall]
  /\ entity = [p \in Procs |-> NewTable]
  /\ loaded = [p \in Procs |-> NewTable]
  /\ everClosed = {}
  /\ byHand = (\E t \in Tables : tables[t].status = "OCCUPIED")

Finish(p) ==
  /\ pc' = [pc EXCEPT ![p] = "idle"]
  /\ call' = [call EXCEPT ![p] = NoCall]
  /\ entity' = [entity EXCEPT ![p] = NewTable]
  /\ loaded' = [loaded EXCEPT ![p] = NewTable]
  /\ tableLock' = [t \in Tables |-> IF tableLock[t] = p THEN None ELSE tableLock[t]]
  /\ orderLock' = [o \in Orders |-> IF orderLock[o] = p THEN None ELSE orderLock[o]]

-------------------------------------------------------------------------------
(* createPosOrder for DINE_IN *)

CreatePosOrder(p) == \E t \in Tables, o \in Orders \ DOMAIN orders :
  /\ pc[p] = "idle"
  /\ \A q \in Procs : call[q].order # o
  /\ pc' = [pc EXCEPT ![p] = "seat"]
  /\ call' = [call EXCEPT ![p] = [table |-> t, order |-> o, status |-> None]]
  /\ UNCHANGED <<tables, orders, tableLock, orderLock, entity, loaded, everClosed, byHand>>

\* The checks behind the row lock; a table that fails them ends in Rollback.
Seatable(row) == ~ row.isDeleted /\ row.status = "FREE"

\* setLock('pessimistic_write') on the table, and the same SELECT without it.
PlainSelect(t, p) == tableLock
LockedSelect(t, p) == [tableLock EXCEPT ![t] = p]

LockTable(p) ==
  /\ pc[p] = "seat"
  /\ LET t == call[p].table
     IN /\ tableLock[t] = None
        /\ Seatable(tables[t])
        /\ tableLock' = LockedSelect(t, p)
        /\ entity' = [entity EXCEPT ![p] = tables[t]]
  /\ pc' = [pc EXCEPT ![p] = "number"]
  /\ UNCHANGED <<tables, orders, orderLock, call, loaded, everClosed, byHand>>

\* generateOrderNumber locks every order of the organization.
LockOrders(p) ==
  /\ pc[p] = "number"
  /\ \A o \in DOMAIN orders : orderLock[o] = None
  /\ orderLock' = [o \in Orders |-> IF o \in DOMAIN orders THEN p ELSE orderLock[o]]
  /\ pc' = [pc EXCEPT ![p] = "commit"]
  /\ UNCHANGED <<tables, orders, tableLock, call, entity, loaded, everClosed, byHand>>

Seat(p) ==
  /\ pc[p] = "commit"
  /\ LET c == call[p]
     IN /\ orders' = [o \in DOMAIN orders \cup {c.order} |->
                        IF o = c.order THEN [status |-> "live", tableId |-> c.table]
                                       ELSE orders[o]]
        /\ tables' = [tables EXCEPT ![c.table] =
             [entity[p] EXCEPT !.status = "OCCUPIED", !.currentOrderId = c.order]]
  /\ Finish(p)
  /\ UNCHANGED <<everClosed, byHand>>
-------------------------------------------------------------------------------
(* update, and every other handler that saves an order it has read *)

\* if (status !== undefined) order.status = status
AssignedStatus(current, given) == given
StatusToSave(current, given) == IF given = None THEN current ELSE given

ReadOrder(p) == \E o \in DOMAIN orders, to \in {None, "live", "terminal"} :
  /\ pc[p] = "idle"
  /\ orders[o].status = "terminal" => to # "terminal"
  /\ pc' = [pc EXCEPT ![p] = "save"]
  /\ call' = [call EXCEPT ![p] =
       [order |-> o,
        status |-> StatusToSave(orders[o].status, to),
        table |-> IF to = "terminal" THEN orders[o].tableId ELSE None]]
  /\ UNCHANGED <<tables, orders, tableLock, orderLock, entity, loaded, everClosed, byHand>>

\* save(order): its row is locked from here to the end of the transaction.
SaveOrder(p) ==
  /\ pc[p] = "save"
  /\ orderLock[call[p].order] = None
  /\ orderLock' = [orderLock EXCEPT ![call[p].order] = p]
  /\ pc' = [pc EXCEPT ![p] = "release"]
  /\ UNCHANGED <<tables, orders, tableLock, call, entity, loaded, everClosed, byHand>>

\* shouldReleaseTable: the rows update(Table, {currentOrderId}, ...) matches.
TableOfOrder(c) == IF c.table = None THEN {} ELSE {c.table}
TablesToFree(c) == IF c.table = None THEN {}
                   ELSE {t \in Tables : tables[t].currentOrderId = c.order}

FreedStatusOnly(row) == [row EXCEPT !.status = "FREE"]
Freed(row) == [row EXCEPT !.status = "FREE", !.currentOrderId = None]

ReleaseTable(p) ==
  /\ pc[p] = "release"
  /\ LET c == call[p]
     IN /\ \A t \in TablesToFree(c) : tableLock[t] = None
        /\ tables' = [t \in Tables |->
             IF t \in TablesToFree(c) THEN Freed(tables[t]) ELSE tables[t]]
        /\ orders' = [orders EXCEPT ![c.order].status = c.status]
        /\ everClosed' = IF c.status = "terminal" THEN everClosed \cup {c.order}
                                                  ELSE everClosed
  /\ Finish(p)
  /\ UNCHANGED byHand
-------------------------------------------------------------------------------
(* tables.service: read, edit a column, save the row as it was read *)

ReadTable(p, t, edited) ==
  /\ pc[p] = "idle"
  /\ pc' = [pc EXCEPT ![p] = "edit"]
  /\ call' = [call EXCEPT ![p].table = t]
  /\ entity' = [entity EXCEPT ![p] = edited]
  /\ byHand' = TRUE
  /\ UNCHANGED <<tables, orders, tableLock, orderLock, loaded, everClosed>>

\* Also updatePositions: no status is given.  OCCUPIED is refused.
UpdateTable(p) == \E t \in Tables, status \in {None, "FREE", "RESERVED"} :
  /\ ~ tables[t].isDeleted
  /\ ReadTable(p, t, [tables[t] EXCEPT !.status = StatusToSave(@, status)])
SoftDelete(p) == \E t \in Tables :
  /\ ~ tables[t].isDeleted
  /\ tables[t].status # "OCCUPIED"
  /\ ReadTable(p, t, [tables[t] EXCEPT !.isDeleted = TRUE])
Restore(p) == \E t \in Tables :
  /\ tables[t].isDeleted
  /\ ReadTable(p, t, [tables[t] EXCEPT !.isDeleted = FALSE])

\* save() reads the row again and writes the columns that differ.
LoadTable(p) ==
  /\ pc[p] = "edit"
  /\ loaded' = [loaded EXCEPT ![p] = tables[call[p].table]]
  /\ pc' = [pc EXCEPT ![p] = "write"]
  /\ UNCHANGED <<tables, orders, tableLock, orderLock, call, entity, everClosed, byHand>>

Merge(current, base, mine) ==
  [c \in DOMAIN mine |-> IF mine[c] # base[c] THEN mine[c] ELSE current[c]]

SaveTable(p) ==
  /\ pc[p] = "write"
  /\ entity[p] # loaded[p] => tableLock[call[p].table] = None
  /\ tables' = [tables EXCEPT ![call[p].table] = Merge(@, loaded[p], entity[p])]
  /\ Finish(p)
  /\ UNCHANGED <<orders, everClosed, byHand>>
-------------------------------------------------------------------------------
\* A refused table, a failed statement, a detected deadlock, a crash.
Rollback(p) ==
  /\ pc[p] # "idle"
  /\ Finish(p)
  /\ UNCHANGED <<tables, orders, everClosed, byHand>>

Next == \E p \in Procs :
  \/ CreatePosOrder(p) \/ LockTable(p) \/ LockOrders(p) \/ Seat(p)
  \/ ReadOrder(p) \/ SaveOrder(p) \/ ReleaseTable(p)
  \/ UpdateTable(p) \/ SoftDelete(p) \/ Restore(p) \/ LoadTable(p) \/ SaveTable(p)
  \/ Rollback(p)

Spec == Init /\ [][Next]_vars

-------------------------------------------------------------------------------
(***************************************************************************)
(* The shape of every variable.                                            *)
(***************************************************************************)
TypeOK ==
  /\ tables \in [Tables -> TableRows]
  /\ DOMAIN orders \subseteq Orders
  /\ \A o \in DOMAIN orders : orders[o] \in OrderRows
  /\ tableLock \in [Tables -> Procs \cup {None}]
  /\ orderLock \in [Orders -> Procs \cup {None}]
  /\ pc \in [Procs -> {"idle", "seat", "number", "commit", "save", "release",
                       "edit", "write"}]
  /\ call \in [Procs -> [table : Tables \cup {None}, order : Orders \cup {None},
                         status : {None, "live", "terminal"}]]
  /\ entity \in [Procs -> TableRows]
  /\ loaded \in [Procs -> TableRows]
  /\ everClosed \subseteq DOMAIN orders
  /\ byHand \in BOOLEAN

(***************************************************************************)
(* Guests keep their table: while only the order flow has touched the      *)
(* tables, a dine-in order that was never completed or cancelled occupies  *)
(* its table, whatever is done to the orders seated there before and       *)
(* however late their handlers come.                                       *)
(***************************************************************************)
GuestsKeepTheirTable ==
  ~ byHand => \A o \in DOMAIN orders \ everClosed :
    /\ tables[orders[o].tableId].status = "OCCUPIED"
    /\ tables[orders[o].tableId].currentOrderId = o

(***************************************************************************)
(* Then a table is also occupied exactly while it names an order, and that *)
(* order was seated at this table.                                         *)
(***************************************************************************)
OccupiedByItsOrder ==
  ~ byHand => \A t \in Tables :
    /\ (tables[t].status = "OCCUPIED") <=> (tables[t].currentOrderId # None)
    /\ tables[t].currentOrderId # None =>
         /\ tables[t].currentOrderId \in DOMAIN orders
         /\ orders[tables[t].currentOrderId].tableId = t

\* p cannot go on before q ends.
WaitsFor(p, q) ==
  /\ p # q
  /\ \/ pc[p] = "seat" /\ tableLock[call[p].table] = q
     \/ pc[p] = "number" /\ \E o \in DOMAIN orders : orderLock[o] = q
     \/ pc[p] = "save" /\ orderLock[call[p].order] = q
     \/ pc[p] = "release" /\ \E t \in TablesToFree(call[p]) : tableLock[t] = q
     \/ pc[p] = "write" /\ entity[p] # loaded[p] /\ tableLock[call[p].table] = q

(***************************************************************************)
(* createPosOrder locks the table and then all orders, update an order and *)
(* then its table.  As long as only orders change tables this opposite     *)
(* order is harmless: the table an update frees is never one that is being *)
(* seated, so no set of handlers waits on itself.                          *)
(***************************************************************************)
NoWaitCycle ==
  ~ byHand => \A P \in SUBSET Procs :
    P # {} => \E p \in P : \A q \in P : ~ WaitsFor(p, q)

(***************************************************************************)
(* From the check of a table to the commit of its order nobody changes the *)
(* table, not even the handlers of tables.service, which take no lock but  *)
(* have to write the row: guests are never seated at a table that was      *)
(* deleted, reserved or taken meanwhile.                                   *)
(***************************************************************************)
SeatingIsAtomic == \A p \in Procs :
  pc[p] \in {"number", "commit"} =>
    /\ tables[call[p].table] = entity[p]
    /\ Seatable(tables[call[p].table])
================================================================================
