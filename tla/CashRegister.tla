------------------------------ MODULE CashRegister ------------------------------
(***************************************************************************)
(* Cash sessions of one organization and the orders stamped with them      *)
(* (cash-sessions.service.ts open and close; orders.service.ts             *)
(* resolveOpenCashSessionId, create, update, validateStateTransition and   *)
(* every other handler that saves a whole Order).                          *)
(*                                                                         *)
(* Opening is find-then-insert; closing locks the session's row, counts    *)
(* its active orders, flips it to CLOSED and inserts its replacement.      *)
(* Both write in a transaction: until its commit a write is seen by        *)
(* nobody, except by the unique index, which makes other inserts wait.     *)
(* Order handlers lock nothing: they read, decide and save what they read, *)
(* possibly much later.                                                    *)
(***************************************************************************)
EXTENDS Integers, FiniteSets

CONSTANTS Procs,     \* handlers that may be in flight at once
          Sessions,  \* cash session ids (bound on the sessions ever opened)
          Orders,    \* order ids (bound on the orders ever created)
          None       \* no session, no order, no process, no status given;
                     \* as openingCash: the amount the opener entered

ASSUME CashRegisterAssumption ==
  None \notin Procs /\ None \notin Sessions /\ None \notin Orders

VARIABLES sessions,      \* committed CashSession.status, "absent" if there is none
          openingCash,   \* the session whose countedCash the column repeats
          lockedBy,      \* the close that holds a session's row FOR UPDATE
          orders,        \* committed orders: their status and cashSessionId
          pc, call,      \* the handlers in flight
          changedSince   \* history: orders saved since a close counted them

vars == <<sessions, openingCash, lockedBy, orders, pc, call, changedSince>>

OrderStatus == {"PENDING", "IN_PROGRESS", "READY", "COMPLETED", "CANCELLED", "REOPENED"}
OrderRows == [status : OrderStatus, session : Sessions \cup {None}]

\* The statuses that block closing; forgetting the last one is the old list.
UnfinishedStatuses == {"PENDING", "IN_PROGRESS", "READY"}
ActiveOrderStatuses == {"PENDING", "IN_PROGRESS", "READY", "REOPENED"}

AllowedTransitions ==
  [from \in OrderStatus |->
    CASE from = "PENDING"     -> {"IN_PROGRESS", "COMPLETED", "CANCELLED"}
      [] from = "IN_PROGRESS" -> {"READY", "COMPLETED", "CANCELLED", "PENDING"}
      [] from = "READY"       -> {"COMPLETED", "CANCELLED"}
      [] from = "COMPLETED"   -> {"REOPENED"}
      [] from = "REOPENED"    -> {"IN_PROGRESS", "CANCELLED", "COMPLETED"}
      [] from = "CANCELLED"   -> {"REOPENED"}]

\* update: validateStateTransition when a status is given.
validateStateTransition(from, to) == to = None \/ to \in AllowedTransitions[from]

\* if (status !== undefined) order.status = status
AssignedStatus(current, given) == given
StatusToSave(current, given) == IF given = None THEN current ELSE given

OpenSessions == {s \in Sessions : sessions[s] = "OPEN"}
ActiveIn(s) == {o \in DOMAIN orders : orders[o].session = s
                                      /\ orders[o].status \in ActiveOrderStatuses}

NoCall == [order |-> None, status |-> None, session |-> None, new |-> None]

Init ==
  /\ sessions = [s \in Sessions |-> "absent"]
  /\ openingCash = [s \in Sessions |-> None]
  /\ lockedBy = [s \in Sessions |-> None]
  /\ orders = [o \in {} |-> NoCall]
  /\ pc = [p \in Procs |-> "idle"]
  /\ call = [p \in Procs |-> NoCall]
  /\ changedSince = [p \in Procs |-> {}]

Goto(p, from, to) == pc[p] = from /\ pc' = [pc EXCEPT ![p] = to]

\* The handler's transaction ends and its locks go.
Finish(p) ==
  /\ pc' = [pc EXCEPT ![p] = "idle"]
  /\ call' = [call EXCEPT ![p] = NoCall]
  /\ lockedBy' = [s \in Sessions |-> IF lockedBy[s] = p THEN None ELSE lockedBy[s]]

-------------------------------------------------------------------------------
(* What transactions have written and not committed *)

\* The session p has inserted.
Inserting(p) == pc[p] \in {"opened", "swapped"}

\* The session p is closing: locked, counted, flipped, replaced.
Closing(p) == pc[p] \in {"count", "flip", "replace", "swapped"}
PastCount(p) == pc[p] \in {"flip", "replace", "swapped"}

\* p's UPDATE of the row it closes is done.
Flipped(p, s) == pc[p] \in {"replace", "swapped"} /\ call[p].session = s

\* ux_cash_sessions_org_open, unique (organizationId) WHERE status = 'OPEN',
\* lets p insert an OPEN row: p itself has flipped every row committed as OPEN
\* and no other transaction has inserted one.  An insert that is not let in is
\* refused (23505) or waits for the other transaction to end.
UniqueIndexAllows(p) ==
  /\ \A s \in OpenSessions : Flipped(p, s)
  /\ \A q \in Procs \ {p} : ~Inserting(q)

\* The generated id of p's row is nobody else's.
Insert(p, new) ==
  /\ sessions[new] = "absent" /\ \A q \in Procs : call[q].new # new
  /\ UniqueIndexAllows(p)
  /\ call' = [call EXCEPT ![p].new = new]
  /\ UNCHANGED <<sessions, openingCash, lockedBy, orders, changedSince>>
-------------------------------------------------------------------------------
(* open *)

FindExisting(p) ==
  /\ OpenSessions = {}
  /\ Goto(p, "idle", "insert")
  /\ UNCHANGED <<sessions, openingCash, lockedBy, orders, call, changedSince>>

\* A loser of the race gets 23505 and stops (Rollback).
InsertSession(p) == \E new \in Sessions :
  /\ Goto(p, "insert", "opened")
  /\ Insert(p, new)

CommitOpen(p) ==
  /\ pc[p] = "opened"
  /\ sessions' = [sessions EXCEPT ![call[p].new] = "OPEN"]
  /\ openingCash' = [openingCash EXCEPT ![call[p].new] = None]
  /\ Finish(p)
  /\ UNCHANGED <<orders, changedSince>>
-------------------------------------------------------------------------------
(* close *)

\* SELECT ... WHERE status = OPEN FOR UPDATE; it waits while another close
\* holds the row, and then finds it CLOSED or not.
RowShared(s) == TRUE
RowFree(s) == lockedBy[s] = None

LockSession(p) == \E s \in OpenSessions :
  /\ RowFree(s)
  /\ Goto(p, "idle", "count")
  /\ lockedBy' = [lockedBy EXCEPT ![s] = p]
  /\ call' = [call EXCEPT ![p].session = s]
  /\ UNCHANGED <<sessions, openingCash, orders, changedSince>>

\* With active orders the close is refused (Rollback).
CountActiveOrders(p) ==
  /\ ActiveIn(call[p].session) = {}
  /\ Goto(p, "count", "flip")
  /\ UNCHANGED <<sessions, openingCash, lockedBy, orders, call, changedSince>>

\* The row is saved as CLOSED in the transaction; saved by the repository of
\* the service it would be committed at once.
FlipOutside(p) ==
  /\ Goto(p, "flip", "replace")
  /\ sessions' = [sessions EXCEPT ![call[p].session] = "CLOSED"]
  /\ UNCHANGED <<openingCash, lockedBy, orders, call, changedSince>>
FlipToClosed(p) ==
  /\ Goto(p, "flip", "replace")
  /\ UNCHANGED <<sessions, openingCash, lockedBy, orders, call, changedSince>>

InsertReplacement(p) == \E new \in Sessions :
  /\ Goto(p, "replace", "swapped")
  /\ Insert(p, new)

OnlyClosed(table, old, new) == [table EXCEPT ![old] = "CLOSED"]
Swapped(table, old, new) == [table EXCEPT ![old] = "CLOSED", ![new] = "OPEN"]

\* The new shift starts with the cash counted at the end of the old one.
CommitClose(p) ==
  /\ pc[p] = "swapped"
  /\ sessions' = Swapped(sessions, call[p].session, call[p].new)
  /\ openingCash' = [openingCash EXCEPT ![call[p].new] = call[p].session]
  /\ Finish(p)
  /\ changedSince' = [changedSince EXCEPT ![p] = {}]
  /\ UNCHANGED orders
-------------------------------------------------------------------------------
(* Orders *)

\* create and createPosOrder: the session is looked up long before the commit.
ResolveOpenCashSessionId(p) == \E o \in Orders, status \in OrderStatus :
  /\ o \notin DOMAIN orders /\ \A q \in Procs : call[q].order # o
  /\ Goto(p, "idle", "save")
  /\ \E s \in IF OpenSessions = {} THEN {None} ELSE OpenSessions :
       call' = [call EXCEPT ![p] = [NoCall EXCEPT !.order = o, !.status = status, !.session = s]]
  /\ UNCHANGED <<sessions, openingCash, lockedBy, orders, changedSince>>

\* update reads the order and validates the transition against what it read.
\* Without a status, and in every other handler that saves the order it read
\* (updatePaymentStatus, addItem, removeItem, updateOrderItem), the status
\* that will be saved is the one that was read.
ReadOrder(p) == \E o \in DOMAIN orders, to \in OrderStatus \cup {None} :
  /\ validateStateTransition(orders[o].status, to)
  /\ Goto(p, "idle", "save")
  /\ call' = [call EXCEPT ![p] = [NoCall EXCEPT
                 !.order = o, !.status = StatusToSave(orders[o].status, to),
                 !.session = orders[o].session]]
  /\ UNCHANGED <<sessions, openingCash, lockedBy, orders, changedSince>>

SaveOrder(p) ==
  /\ pc[p] = "save"
  /\ LET c == call[p]
         row == [status |-> c.status, session |-> c.session]
     IN /\ orders' = [o \in DOMAIN orders \cup {c.order} |->
                        IF o = c.order THEN row ELSE orders[o]]
        /\ changedSince' = [q \in Procs |-> IF PastCount(q)
                              THEN changedSince[q] \cup {c.order} ELSE changedSince[q]]
  /\ Finish(p)
  /\ UNCHANGED <<sessions, openingCash>>
-------------------------------------------------------------------------------
\* A conflict, a refused close, a failed statement, a crash.
Rollback(p) ==
  /\ pc[p] # "idle"
  /\ Finish(p)
  /\ changedSince' = [changedSince EXCEPT ![p] = {}]
  /\ UNCHANGED <<sessions, openingCash, orders>>

Next == \E p \in Procs :
  \/ FindExisting(p) \/ InsertSession(p) \/ CommitOpen(p)
  \/ LockSession(p) \/ CountActiveOrders(p) \/ FlipToClosed(p)
  \/ InsertReplacement(p) \/ CommitClose(p)
  \/ ResolveOpenCashSessionId(p) \/ ReadOrder(p) \/ SaveOrder(p)
  \/ Rollback(p)

Spec == Init /\ [][Next]_vars

-------------------------------------------------------------------------------
(***************************************************************************)
(* The shape of every variable; in particular a saved order always has a   *)
(* status, although updates may leave it out.                              *)
(***************************************************************************)
TypeOK ==
  /\ sessions \in [Sessions -> {"absent", "OPEN", "CLOSED"}]
  /\ openingCash \in [Sessions -> Sessions \cup {None}]
  /\ lockedBy \in [Sessions -> Procs \cup {None}]
  /\ DOMAIN orders \subseteq Orders
  /\ \A o \in DOMAIN orders : orders[o] \in OrderRows
  /\ pc \in [Procs -> {"idle", "insert", "opened", "count", "flip", "replace", "swapped", "save"}]
  /\ call \in [Procs -> [order : Orders \cup {None}, status : OrderStatus \cup {None},
                         session : Sessions \cup {None}, new : Sessions \cup {None}]]
  /\ changedSince \in [Procs -> SUBSET Orders]

(***************************************************************************)
(* close: "The physical cash in the drawer doesn't disappear on close -    *)
(* the new shift starts with what was just counted."  Whatever opens and   *)
(* closes run at once and wherever they fail: every session but the first  *)
(* was opened with the counted cash of another one, no two with the same,  *)
(* and the sessions whose cash was passed on are exactly the closed ones.  *)
(***************************************************************************)
Recorded == {s \in Sessions : sessions[s] # "absent"}

CashHandedOver ==
  /\ \A s, t \in Recorded : openingCash[s] = openingCash[t] => s = t
  /\ {openingCash[s] : s \in Recorded} \ {None} = {s \in Sessions : sessions[s] = "CLOSED"}

(***************************************************************************)
(* close: "the register is never left without an active session".  Once a  *)
(* session is open, every later state has one, also between the UPDATE and *)
(* the INSERT of a close, and when a close fails between them.             *)
(***************************************************************************)
NeverWithoutSession == [][OpenSessions # {} => OpenSessions' # {}]_vars

(***************************************************************************)
(* close counts the active orders without locking them.  What it can be    *)
(* sure of when it closes: an order of the session that is active then was *)
(* saved by another handler after the count.                               *)
(***************************************************************************)
Settled(order) == order.status \in {"COMPLETED", "CANCELLED"}

SettledAtCount == \A p \in Procs : PastCount(p) =>
  \A o \in DOMAIN orders : orders[o].session = call[p].session =>
    Settled(orders[o]) \/ o \in changedSince[p]

(***************************************************************************)
(* A session that is being closed stays open until that close commits or   *)
(* fails: its row lock keeps any other close out.                          *)
(***************************************************************************)
ClosingIsExclusive == \A p \in Procs : Closing(p) =>
  /\ sessions[call[p].session] = "OPEN"
  /\ \A q \in Procs \ {p} : Closing(q) => call[q].session # call[p].session
================================================================================
