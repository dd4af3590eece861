--------------------------- MODULE CashRegisterProofs ---------------------------
(***************************************************************************)
(* Theorems about CashRegister, for any number of handlers, sessions and   *)
(* orders: the cash of every closed session is handed over to one other,   *)
(* once there is an open session there always is, closes of a session      *)
(* exclude each other, and what a close has counted; and about Reports,    *)
(* for any orders, totals, times and windows: what the overview and the Z  *)
(* report show of orders that change meanwhile.                            *)
(*                                                                         *)
(* The argument about sessions has two parts.  ClosingLocked: a close that *)
(* has found its session holds the session's row lock, and only the holder *)
(* of that lock closes the session.  InsertOK: of the inserted rows that   *)
(* are not committed there is one at most, and the one of an open finds no *)
(* session at its commit, not even a closed one, because a register that   *)
(* was opened once always has an open session (OpenedOnce).                *)
(*                                                                         *)
(* The argument about the chart has three parts: the calendar (Truncated   *)
(* is the last start of a unit, Plus leads from one start to the next),    *)
(* the loop (its cursors grow, stop at the end of the window and miss no   *)
(* start of it), and sums (sums over disjoint sets add up to the sum over  *)
(* their union).                                                           *)
(***************************************************************************)
EXTENDS CashRegister, Reports, FiniteSetTheorems, WellFoundedInduction, TLAPS

\* What a handler in flight is going to save.
CallOK == \A p \in Procs :
  /\ pc[p] = "save" => call[p].order \in Orders /\ call[p].status \in OrderStatus
  /\ Closing(p) => call[p].session \in Sessions
  /\ Inserting(p) => call[p].new \in Sessions

ClosingLocked == \A p \in Procs : Closing(p) =>
  /\ sessions[call[p].session] = "OPEN"
  /\ lockedBy[call[p].session] = p

InsertOK == \A p \in Procs : Inserting(p) =>
  /\ sessions[call[p].new] = "absent"
  /\ \A q \in Procs \ {p} : ~Inserting(q)
  /\ pc[p] = "opened" => OpenSessions = {}

OneOpen == \A s, t \in OpenSessions : s = t
OpenedOnce == Recorded # {} => OpenSessions # {}

TypeInv == TypeOK /\ CallOK
SessionInv == ClosingLocked /\ InsertOK /\ OneOpen /\ OpenedOnce /\ CashHandedOver

USE CashRegisterAssumption

-------------------------------------------------------------------------------
(* Types *)

(***************************************************************************)
(* The empty register has the types of TypeInv.                            *)
(***************************************************************************)
LEMMA TypeInit == Init => TypeInv
BY DEF Init, TypeInv, TypeOK, CallOK, NoCall, Closing, Inserting

(***************************************************************************)
(* A handler that ends keeps the types if the tables keep theirs.          *)
(***************************************************************************)
LEMMA FinishType ==
  ASSUME TypeInv, NEW p \in Procs, Finish(p),
         sessions' \in [Sessions -> {"absent", "OPEN", "CLOSED"}],
         openingCash' \in [Sessions -> Sessions \cup {None}],
         DOMAIN orders' \subseteq Orders,
         \A o \in DOMAIN orders' : orders'[o] \in OrderRows,
         changedSince' \in [Procs -> SUBSET Orders]
  PROVE  TypeInv'
<1>1. NoCall \in [order : Orders \cup {None}, status : OrderStatus \cup {None},
                  session : Sessions \cup {None}, new : Sessions \cup {None}]
  BY DEF NoCall
<1>2. TypeOK'
  BY <1>1 DEF TypeInv, TypeOK, Finish
<1>3. CallOK'
  BY DEF TypeInv, TypeOK, CallOK, Finish, Closing, Inserting
<1>4. QED
  BY <1>2, <1>3 DEF TypeInv

(***************************************************************************)
(* The INSERT of open or of close keeps the types.                         *)
(***************************************************************************)
LEMMA InsertType ==
  ASSUME TypeInv, NEW p \in Procs, NEW new \in Sessions, Insert(p, new),
         Goto(p, "insert", "opened") \/ Goto(p, "replace", "swapped")
  PROVE  TypeInv'
<1>1. call' = [call EXCEPT ![p].new = new]
      /\ UNCHANGED <<sessions, openingCash, lockedBy, orders, changedSince>>
  BY DEF Insert
<1>2. TypeOK'
  <2> DEFINE Calls == [order : Orders \cup {None}, status : OrderStatus \cup {None},
                       session : Sessions \cup {None}, new : Sessions \cup {None}]
  <2>1. call \in [Procs -> Calls]
    BY DEF TypeInv, TypeOK
  <2>2. [call[p] EXCEPT !.new = new] \in Calls
    BY <2>1
  <2>3. call' \in [Procs -> Calls]
    <3> HIDE DEF Calls
    <3> QED
      BY <1>1, <2>1, <2>2
  <2>4. pc' \in [Procs -> {"idle", "insert", "opened", "count", "flip", "replace", "swapped", "save"}]
    BY DEF TypeInv, TypeOK, Goto
  <2>5. QED
    BY <1>1, <2>3, <2>4 DEF TypeInv, TypeOK
<1>3. CallOK'
  BY <1>1 DEF TypeInv, TypeOK, CallOK, Goto, Closing, Inserting
<1>4. QED
  BY <1>2, <1>3 DEF TypeInv

(***************************************************************************)
(* The steps of CashSessionsService.open, the look for an open session,    *)
(* the insert and its commit, keep the types.                              *)
(***************************************************************************)
LEMMA OpenType ==
  ASSUME TypeInv, NEW p \in Procs, FindExisting(p) \/ InsertSession(p) \/ CommitOpen(p)
  PROVE  TypeInv'
<1>1. CASE FindExisting(p)
  BY <1>1 DEF FindExisting, Goto, TypeInv, TypeOK, CallOK, Closing, Inserting
<1>2. CASE InsertSession(p)
  BY <1>2, InsertType DEF InsertSession
<1>3. CASE CommitOpen(p)
  <2>1. call[p].new \in Sessions /\ Finish(p) /\ UNCHANGED <<orders, changedSince>>
    BY <1>3 DEF CommitOpen, TypeInv, CallOK, Inserting
  <2>2. /\ sessions' \in [Sessions -> {"absent", "OPEN", "CLOSED"}]
        /\ openingCash' \in [Sessions -> Sessions \cup {None}]
    BY <1>3, <2>1 DEF CommitOpen, TypeInv, TypeOK
  <2>3. QED
    BY <2>1, <2>2, FinishType DEF TypeInv, TypeOK
<1>4. QED
  BY <1>1, <1>2, <1>3

(***************************************************************************)
(* The steps of CashSessionsService.close, lock, count, flip, insert and   *)
(* commit, keep the types.                                                 *)
(***************************************************************************)
LEMMA CloseType ==
  ASSUME TypeInv, NEW p \in Procs,
         LockSession(p) \/ CountActiveOrders(p) \/ FlipToClosed(p)
           \/ InsertReplacement(p) \/ CommitClose(p)
  PROVE  TypeInv'
<1>1. CASE LockSession(p)
  <2>1. PICK s \in Sessions :
          /\ pc' = [pc EXCEPT ![p] = "count"]
          /\ lockedBy' = [lockedBy EXCEPT ![s] = p]
          /\ call' = [call EXCEPT ![p].session = s]
          /\ UNCHANGED <<sessions, openingCash, orders, changedSince>>
    BY <1>1 DEF LockSession, Goto, OpenSessions
  <2>2. call' \in [Procs -> [order : Orders \cup {None}, status : OrderStatus \cup {None},
                             session : Sessions \cup {None}, new : Sessions \cup {None}]]
    BY <2>1 DEF TypeInv, TypeOK
  <2>3. TypeOK'
    BY <2>1, <2>2 DEF TypeInv, TypeOK
  <2>4. CallOK'
    BY <2>1 DEF TypeInv, TypeOK, CallOK, Closing, Inserting
  <2>5. QED
    BY <2>3, <2>4 DEF TypeInv
<1>2. CASE CountActiveOrders(p) \/ FlipToClosed(p)
  BY <1>2 DEF CountActiveOrders, FlipToClosed, Goto, TypeInv, TypeOK, CallOK,
              Closing, Inserting
<1>3. CASE InsertReplacement(p)
  BY <1>3, InsertType DEF InsertReplacement
<1>4. CASE CommitClose(p)
  <2>1. call[p].session \in Sessions /\ call[p].new \in Sessions /\ Finish(p)
    BY <1>4 DEF CommitClose, TypeInv, CallOK, Closing, Inserting
  <2>2. /\ sessions' \in [Sessions -> {"absent", "OPEN", "CLOSED"}]
        /\ openingCash' \in [Sessions -> Sessions \cup {None}]
    BY <1>4, <2>1 DEF CommitClose, Swapped, TypeInv, TypeOK
  <2>3. changedSince' \in [Procs -> SUBSET Orders] /\ orders' = orders
    BY <1>4 DEF CommitClose, TypeInv, TypeOK
  <2>4. QED
    BY <2>1, <2>2, <2>3, FinishType DEF TypeInv, TypeOK
<1>5. QED
  BY <1>1, <1>2, <1>3, <1>4

(***************************************************************************)
(* An update without a status saves the status it read.                    *)
(***************************************************************************)
LEMMA OrderType ==
  ASSUME TypeInv, NEW p \in Procs,
         ResolveOpenCashSessionId(p) \/ ReadOrder(p) \/ SaveOrder(p)
  PROVE  TypeInv'
<1>1. CASE ResolveOpenCashSessionId(p) \/ ReadOrder(p)
  <2>1. PICK o \in Orders, status \in OrderStatus, s \in Sessions \cup {None} :
          call' = [call EXCEPT ![p] = [NoCall EXCEPT
                     !.order = o, !.status = status, !.session = s]]
    <3>1. CASE ResolveOpenCashSessionId(p)
      BY <3>1 DEF ResolveOpenCashSessionId, OpenSessions
    <3>2. CASE ReadOrder(p)
      <4>1. PICK o \in DOMAIN orders, to \in OrderStatus \cup {None} :
              call' = [call EXCEPT ![p] = [NoCall EXCEPT
                         !.order = o, !.status = StatusToSave(orders[o].status, to),
                         !.session = orders[o].session]]
        BY <3>2 DEF ReadOrder
      <4>2. o \in Orders /\ orders[o].status \in OrderStatus
            /\ orders[o].session \in Sessions \cup {None}
        BY DEF TypeInv, TypeOK, OrderRows
      <4>3. StatusToSave(orders[o].status, to) \in OrderStatus
        BY <4>2 DEF StatusToSave
      <4>4. QED
        BY <4>1, <4>2, <4>3
    <3>3. QED
      BY <1>1, <3>1, <3>2
  <2>2. pc' = [pc EXCEPT ![p] = "save"]
        /\ UNCHANGED <<sessions, openingCash, lockedBy, orders, changedSince>>
    BY <1>1 DEF ResolveOpenCashSessionId, ReadOrder, Goto
  <2>3. QED
    BY <2>1, <2>2 DEF NoCall, TypeInv, TypeOK, CallOK, Closing, Inserting
<1>2. CASE SaveOrder(p)
  <2>1. /\ call[p].order \in Orders /\ call[p].status \in OrderStatus
        /\ call[p].session \in Sessions \cup {None}
    BY <1>2 DEF SaveOrder, TypeInv, TypeOK, CallOK
  <2>2. [status |-> call[p].status, session |-> call[p].session] \in OrderRows
    BY <2>1 DEF OrderRows
  <2>3. DOMAIN orders' \subseteq Orders /\ \A o \in DOMAIN orders' : orders'[o] \in OrderRows
    BY <1>2, <2>1, <2>2 DEF SaveOrder, TypeInv, TypeOK
  <2>4. changedSince' \in [Procs -> SUBSET Orders]
    BY <1>2, <2>1 DEF SaveOrder, TypeInv, TypeOK
  <2>5. Finish(p) /\ UNCHANGED <<sessions, openingCash>>
    BY <1>2 DEF SaveOrder
  <2>6. QED
    BY <2>3, <2>4, <2>5, FinishType DEF TypeInv, TypeOK
<1>3. QED
  BY <1>1, <1>2

(***************************************************************************)
(* Every step of every handler keeps the types: one case per handler.      *)
(***************************************************************************)
LEMMA TypeNext == TypeInv /\ [Next]_vars => TypeInv'
<1>. SUFFICES ASSUME TypeInv, [Next]_vars PROVE TypeInv'
  OBVIOUS
<1>1. CASE UNCHANGED vars
  BY <1>1 DEF vars, TypeInv, TypeOK, CallOK, Closing, Inserting
<1>2. ASSUME NEW p \in Procs, Rollback(p)
      PROVE  TypeInv'
  <2>1. Finish(p) /\ UNCHANGED <<sessions, openingCash, orders>>
    BY <1>2 DEF Rollback
  <2>2. changedSince' \in [Procs -> SUBSET Orders]
    BY <1>2 DEF Rollback, TypeInv, TypeOK
  <2>3. QED
    BY <2>1, <2>2, FinishType DEF TypeInv, TypeOK
<1>3. QED
  BY <1>1, <1>2, OpenType, CloseType, OrderType DEF Next

(***************************************************************************)
(* The types, and with them that a saved order always has a status.        *)
(***************************************************************************)
THEOREM TypeCorrect == Spec => []TypeInv
BY TypeInit, TypeNext, PTL DEF Spec

(***************************************************************************)
(* In particular the type invariant the run checks.                        *)
(***************************************************************************)
THEOREM Typing == Spec => []TypeOK
BY TypeCorrect, PTL DEF TypeInv
-------------------------------------------------------------------------------
(* Sessions *)

(***************************************************************************)
(* With no session and no handler the sessions are in order.               *)
(***************************************************************************)
LEMMA SessionInit == Init => SessionInv
BY DEF Init, SessionInv, ClosingLocked, InsertOK, OneOpen, OpenedOnce, CashHandedOver,
       Recorded, OpenSessions, Closing, Inserting

(***************************************************************************)
(* A handler that ends gives up only its own locks and its own insert, so  *)
(* what the others have locked and inserted stays in order as long as no   *)
(* session they hold is closed, no row they inserted appears and no open   *)
(* session appears beside an insert of open.                               *)
(***************************************************************************)
LEMMA FinishSession ==
  ASSUME TypeInv, ClosingLocked, InsertOK, NEW p \in Procs, Finish(p),
         \A s \in Sessions : sessions[s] = "OPEN" /\ lockedBy[s] # p => sessions'[s] = "OPEN",
         sessions' = sessions \/ Inserting(p)
  PROVE  ClosingLocked' /\ InsertOK'
<1>1. \A q \in Procs : Closing(q)' =>
        q # p /\ Closing(q) /\ call'[q] = call[q] /\ pc'[q] = pc[q]
  BY DEF Finish, TypeInv, TypeOK, Closing
<1>2. \A q \in Procs : Inserting(q)' =>
        q # p /\ Inserting(q) /\ call'[q] = call[q] /\ pc'[q] = pc[q]
  BY DEF Finish, TypeInv, TypeOK, Inserting
<1>3. ClosingLocked'
  <2>. SUFFICES ASSUME NEW q \in Procs, Closing(q)'
                PROVE  /\ sessions'[call'[q].session] = "OPEN"
                       /\ lockedBy'[call'[q].session] = q
    BY DEF ClosingLocked
  <2>1. q # p /\ call'[q] = call[q]
    BY <1>1
  <2>2. /\ call[q].session \in Sessions
        /\ sessions[call[q].session] = "OPEN" /\ lockedBy[call[q].session] = q
    BY <1>1 DEF ClosingLocked, TypeInv, CallOK
  <2>3. QED
    BY <2>1, <2>2 DEF Finish
<1>4. InsertOK'
  <2>1. CASE Inserting(p)
    <3>1. \A q \in Procs : ~ Inserting(q)'
      BY <1>2, <2>1 DEF InsertOK
    <3>2. QED
      BY <3>1 DEF InsertOK
  <2>2. CASE sessions' = sessions
    BY <1>2, <2>2 DEF InsertOK, OpenSessions
  <2>3. QED
    BY <2>1, <2>2
<1>5. QED
  BY <1>3, <1>4

(***************************************************************************)
(* The INSERT of open or of close: the unique index lets it in only when   *)
(* it is the only one in flight.                                           *)
(***************************************************************************)
LEMMA InsertSessionInv ==
  ASSUME TypeInv, SessionInv, NEW p \in Procs, NEW new \in Sessions, Insert(p, new),
         Goto(p, "insert", "opened") \/ Goto(p, "replace", "swapped")
  PROVE  SessionInv'
<1>1. /\ sessions[new] = "absent"
      /\ \A s \in OpenSessions : Flipped(p, s)
      /\ \A q \in Procs \ {p} : ~ Inserting(q)
      /\ call' = [call EXCEPT ![p].new = new]
      /\ UNCHANGED <<sessions, openingCash, lockedBy>>
  BY DEF Insert, UniqueIndexAllows
<1>2. \A q \in Procs : Closing(q)' => Closing(q) /\ call'[q].session = call[q].session
  BY <1>1 DEF Goto, Closing, TypeInv, TypeOK
<1>3. ClosingLocked'
  BY <1>1, <1>2 DEF SessionInv, ClosingLocked
<1>4. \A q \in Procs : Inserting(q)' => q = p
  BY <1>1 DEF Goto, Inserting, TypeInv, TypeOK
<1>5. call'[p].new = new
  BY <1>1 DEF TypeInv, TypeOK
<1>6. pc'[p] = "opened" => OpenSessions = {}
  BY <1>1 DEF Goto, Flipped, TypeInv, TypeOK
<1>7. InsertOK'
  BY <1>1, <1>4, <1>5, <1>6 DEF InsertOK, OpenSessions
<1>8. QED
  BY <1>1, <1>3, <1>7 DEF SessionInv, OneOpen, OpenedOnce, CashHandedOver, Recorded,
                          OpenSessions

(***************************************************************************)
(* The commit of open: its session is the first of all.                    *)
(***************************************************************************)
LEMMA CommitOpenInv ==
  ASSUME TypeInv, SessionInv, NEW p \in Procs, CommitOpen(p)
  PROVE  SessionInv'
<1>. DEFINE new == call[p].new
<1>1. Inserting(p) /\ pc[p] = "opened" /\ new \in Sessions
  BY DEF CommitOpen, Inserting, TypeInv, CallOK
<1>2. sessions[new] = "absent" /\ Recorded = {}
  BY <1>1 DEF SessionInv, InsertOK, OpenedOnce
<1>3. /\ sessions' = [sessions EXCEPT ![new] = "OPEN"]
      /\ openingCash' = [openingCash EXCEPT ![new] = None]
      /\ Finish(p)
  BY DEF CommitOpen
<1>4. sessions'[new] = "OPEN" /\ \A s \in Sessions \ {new} : sessions'[s] = "absent"
  BY <1>1, <1>2, <1>3 DEF Recorded, TypeInv, TypeOK
<1>5. openingCash'[new] = None
  BY <1>1, <1>3 DEF TypeInv, TypeOK
<1>6. Recorded' = {new} /\ OpenSessions' = {new}
  BY <1>1, <1>4 DEF Recorded, OpenSessions
<1>7. CashHandedOver'
  BY <1>1, <1>4, <1>5, <1>6 DEF CashHandedOver
<1>8. ClosingLocked' /\ InsertOK'
  <2>1. \A s \in Sessions : sessions[s] = "OPEN" => sessions'[s] = "OPEN"
    BY <1>2 DEF Recorded
  <2>2. QED
    BY <1>1, <1>3, <2>1, FinishSession DEF SessionInv
<1>9. QED
  BY <1>6, <1>7, <1>8 DEF SessionInv, OneOpen, OpenedOnce

(***************************************************************************)
(* The commit of close: the open session is closed and its cash passed on  *)
(* to the new one, which is the only open one.                             *)
(***************************************************************************)
LEMMA CommitCloseInv ==
  ASSUME TypeInv, SessionInv, NEW p \in Procs, CommitClose(p)
  PROVE  SessionInv'
<1>. DEFINE new == call[p].new
            old == call[p].session
<1>1. Inserting(p) /\ Closing(p) /\ new \in Sessions /\ old \in Sessions
  BY DEF CommitClose, Inserting, Closing, TypeInv, CallOK
<1>2. sessions[new] = "absent" /\ sessions[old] = "OPEN" /\ lockedBy[old] = p
  BY <1>1 DEF SessionInv, InsertOK, ClosingLocked
<1>3. /\ sessions' = [sessions EXCEPT ![old] = "CLOSED", ![new] = "OPEN"]
      /\ openingCash' = [openingCash EXCEPT ![new] = old]
      /\ Finish(p)
  BY DEF CommitClose, Swapped
<1>4. /\ new # old
      /\ sessions'[new] = "OPEN" /\ sessions'[old] = "CLOSED"
      /\ \A s \in Sessions \ {new, old} : sessions'[s] = sessions[s]
      /\ openingCash'[new] = old
      /\ \A s \in Sessions \ {new} : openingCash'[s] = openingCash[s]
  BY <1>1, <1>2, <1>3 DEF TypeInv, TypeOK
<1>5. OpenSessions = {old} /\ OpenSessions' = {new}
  <2>1. OpenSessions = {old}
    BY <1>1, <1>2 DEF SessionInv, OneOpen, OpenSessions
  <2>2. QED
    BY <1>1, <1>2, <1>4, <2>1 DEF OpenSessions
<1>6. Recorded' = Recorded \cup {new} /\ new \notin Recorded /\ old \in Recorded
  BY <1>1, <1>2, <1>4 DEF Recorded
<1>7. /\ \A s, t \in Recorded : openingCash[s] = openingCash[t] => s = t
      /\ {openingCash[s] : s \in Recorded} \ {None} = {s \in Sessions : sessions[s] = "CLOSED"}
  BY DEF SessionInv, CashHandedOver
<1>8. \A s \in Recorded : openingCash'[s] = openingCash[s] /\ openingCash[s] # old
  <2>1. old \notin {s \in Sessions : sessions[s] = "CLOSED"} /\ old # None
    BY <1>1, <1>2
  <2>2. QED
    BY <1>4, <1>6, <1>7, <2>1 DEF Recorded
<1>9. CashHandedOver'
  <2>1. \A s, t \in Recorded' : openingCash'[s] = openingCash'[t] => s = t
    BY <1>4, <1>6, <1>7, <1>8
  <2>2. {openingCash'[s] : s \in Recorded'} = {openingCash[s] : s \in Recorded} \cup {old}
    BY <1>4, <1>6, <1>8
  <2>3. {s \in Sessions : sessions'[s] = "CLOSED"}
          = {s \in Sessions : sessions[s] = "CLOSED"} \cup {old}
    BY <1>1, <1>2, <1>4
  <2>4. QED
    BY <1>1, <1>7, <2>1, <2>2, <2>3 DEF CashHandedOver
<1>10. ClosingLocked' /\ InsertOK'
  <2>1. \A s \in Sessions : sessions[s] = "OPEN" /\ lockedBy[s] # p => sessions'[s] = "OPEN"
    BY <1>2, <1>4
  <2>2. QED
    BY <1>1, <1>3, <2>1, FinishSession DEF SessionInv
<1>11. QED
  BY <1>5, <1>9, <1>10 DEF SessionInv, OneOpen, OpenedOnce

(***************************************************************************)
(* Every step keeps the sessions, the locks and the inserts in order.      *)
(***************************************************************************)
LEMMA SessionNext == TypeInv /\ SessionInv /\ [Next]_vars => SessionInv'
<1>. SUFFICES ASSUME TypeInv, SessionInv, [Next]_vars PROVE SessionInv'
  OBVIOUS
<1>. USE DEF OneOpen, OpenedOnce, CashHandedOver, Recorded, OpenSessions
<1>1. CASE UNCHANGED vars
  BY <1>1 DEF vars, SessionInv, ClosingLocked, InsertOK, Closing, Inserting
<1>2. ASSUME NEW p \in Procs,
             FindExisting(p) \/ CountActiveOrders(p) \/ FlipToClosed(p)
               \/ ResolveOpenCashSessionId(p) \/ ReadOrder(p)
      PROVE  SessionInv'
  <2>1. UNCHANGED <<sessions, openingCash, lockedBy>>
    BY <1>2 DEF FindExisting, CountActiveOrders, FlipToClosed, ResolveOpenCashSessionId, ReadOrder
  <2>2. \A q \in Procs : Closing(q)' => Closing(q) /\ call'[q] = call[q]
    BY <1>2 DEF FindExisting, CountActiveOrders, FlipToClosed, ResolveOpenCashSessionId,
                ReadOrder, Goto, Closing, TypeInv, TypeOK
  <2>3. \A q \in Procs : Inserting(q)' => pc'[q] = pc[q] /\ Inserting(q) /\ call'[q] = call[q]
    BY <1>2 DEF FindExisting, CountActiveOrders, FlipToClosed, ResolveOpenCashSessionId,
                ReadOrder, Goto, Inserting, TypeInv, TypeOK
  <2>4. ClosingLocked'
    BY <2>1, <2>2 DEF SessionInv, ClosingLocked
  <2>5. InsertOK'
    BY <2>1, <2>3 DEF SessionInv, InsertOK
  <2>6. QED
    BY <2>1, <2>4, <2>5 DEF SessionInv
<1>3. ASSUME NEW p \in Procs, LockSession(p)
      PROVE  SessionInv'
  <2>1. PICK s \in Sessions :
          /\ sessions[s] = "OPEN" /\ lockedBy[s] = None
          /\ pc[p] = "idle" /\ pc' = [pc EXCEPT ![p] = "count"]
          /\ lockedBy' = [lockedBy EXCEPT ![s] = p]
          /\ call' = [call EXCEPT ![p].session = s]
          /\ UNCHANGED <<sessions, openingCash>>
    BY <1>3 DEF LockSession, Goto, RowFree
  <2>2. \A q \in Procs \ {p} : call'[q] = call[q] /\ pc'[q] = pc[q]
    BY <2>1 DEF TypeInv, TypeOK
  <2>3. call'[p].session = s /\ pc'[p] = "count"
    BY <2>1 DEF TypeInv, TypeOK
  <2>4. ClosingLocked'
    <3>. SUFFICES ASSUME NEW q \in Procs, Closing(q)'
                  PROVE  /\ sessions'[call'[q].session] = "OPEN"
                         /\ lockedBy'[call'[q].session] = q
      BY DEF ClosingLocked
    <3>1. CASE q = p
      BY <2>1, <2>3, <3>1 DEF TypeInv, TypeOK
    <3>2. CASE q # p
      <4>1. /\ call[q].session \in Sessions
            /\ sessions[call[q].session] = "OPEN" /\ lockedBy[call[q].session] = q
        BY <2>2, <3>2 DEF Closing, SessionInv, ClosingLocked, TypeInv, CallOK
      <4>2. QED
        BY <2>1, <2>2, <3>2, <4>1 DEF TypeInv, TypeOK
    <3>3. QED
      BY <3>1, <3>2
  <2>5. InsertOK'
    BY <2>1, <2>2, <2>3 DEF SessionInv, InsertOK, Inserting
  <2>6. QED
    BY <2>1, <2>4, <2>5 DEF SessionInv
<1>4. ASSUME NEW p \in Procs, SaveOrder(p) \/ Rollback(p)
      PROVE  SessionInv'
  <2>1. Finish(p) /\ UNCHANGED <<sessions, openingCash>>
    BY <1>4 DEF SaveOrder, Rollback
  <2>2. ClosingLocked' /\ InsertOK'
    BY <2>1, FinishSession DEF SessionInv
  <2>3. QED
    BY <2>1, <2>2 DEF SessionInv
<1>5. ASSUME NEW p \in Procs, InsertSession(p) \/ InsertReplacement(p)
      PROVE  SessionInv'
  BY <1>5, InsertSessionInv DEF InsertSession, InsertReplacement
<1>6. QED
  BY <1>1, <1>2, <1>3, <1>4, <1>5, CommitOpenInv, CommitCloseInv DEF Next

(***************************************************************************)
(* Types and sessions are in order in every reachable state.               *)
(***************************************************************************)
LEMMA SessionCorrect == Spec => [](TypeInv /\ SessionInv)
BY TypeInit, TypeNext, SessionInit, SessionNext, PTL DEF Spec

(***************************************************************************)
(* Whatever opens and closes race and wherever they fail, the counted cash *)
(* of every closed session, and of no other, is the opening cash of        *)
(* exactly one session, and one session at most was opened without any.    *)
(***************************************************************************)
THEOREM CashIsHandedOver == Spec => []CashHandedOver
BY SessionCorrect, PTL DEF SessionInv

(***************************************************************************)
(* A session being closed is open and nobody else is closing it.           *)
(***************************************************************************)
THEOREM ClosesExclude == Spec => []ClosingIsExclusive
<1>1. TypeInv /\ SessionInv => ClosingIsExclusive
  BY DEF SessionInv, ClosingLocked, ClosingIsExclusive, TypeInv, CallOK
<1>2. QED
  BY <1>1, SessionCorrect, PTL

(***************************************************************************)
(* close: "the register is never left without an active session".          *)
(***************************************************************************)
THEOREM AlwaysReplaced == Spec => NeverWithoutSession
<1>1. TypeInv /\ SessionInv /\ [Next]_vars => (OpenSessions # {} => OpenSessions' # {})
  <2>. SUFFICES ASSUME TypeInv, SessionInv, [Next]_vars, NEW s \in OpenSessions
                PROVE  OpenSessions' # {}
    OBVIOUS
  <2>1. CASE sessions' = sessions
    BY <2>1 DEF OpenSessions
  <2>2. ASSUME NEW p \in Procs, CommitOpen(p) \/ CommitClose(p)
        PROVE  OpenSessions' # {}
    <3>1. call[p].new \in Sessions
      BY <2>2 DEF CommitOpen, CommitClose, Inserting, TypeInv, CallOK
    <3>2. sessions'[call[p].new] = "OPEN"
      BY <2>2, <3>1 DEF CommitOpen, CommitClose, Swapped, TypeInv, TypeOK
    <3>3. QED
      BY <3>1, <3>2 DEF OpenSessions
  <2>3. QED
    BY <2>1, <2>2 DEF Next, vars, FindExisting, InsertSession, LockSession,
                      CountActiveOrders, FlipToClosed, InsertReplacement, Insert,
                      ResolveOpenCashSessionId, ReadOrder, SaveOrder, Rollback
<1>2. QED
  BY <1>1, SessionCorrect, PTL DEF NeverWithoutSession, Spec

(***************************************************************************)
(* An order of a session that was counted and is not closed yet is settled *)
(* unless another handler saved it after the count.                        *)
(***************************************************************************)
LEMMA SettledNext == TypeInv /\ SettledAtCount /\ [Next]_vars => SettledAtCount'
<1>. SUFFICES ASSUME TypeInv, SettledAtCount, [Next]_vars,
                     NEW p \in Procs, PastCount(p)',
                     NEW o \in DOMAIN orders', orders'[o].session = call'[p].session,
                     ~ Settled(orders'[o])
              PROVE  o \in changedSince'[p]
  BY DEF SettledAtCount
<1>1. CASE UNCHANGED vars
  BY <1>1 DEF vars, SettledAtCount, PastCount
<1>2. ASSUME NEW q \in Procs, CountActiveOrders(q)
      PROVE  o \in changedSince'[p]
  <2>1. CASE q = p
    BY <1>2, <2>1 DEF CountActiveOrders, ActiveIn, ActiveOrderStatuses, Settled,
                      TypeInv, TypeOK, OrderRows, OrderStatus
  <2>2. CASE q # p
    BY <1>2, <2>2 DEF CountActiveOrders, Goto, PastCount, SettledAtCount, TypeInv, TypeOK
  <2>3. QED
    BY <2>1, <2>2
<1>3. ASSUME NEW q \in Procs, SaveOrder(q)
      PROVE  o \in changedSince'[p]
  <2>1. p # q /\ PastCount(p) /\ call'[p] = call[p]
    BY <1>3 DEF SaveOrder, Finish, PastCount, TypeInv, TypeOK
  <2>2. changedSince'[p] = changedSince[p] \cup {call[q].order}
    BY <1>3, <2>1 DEF SaveOrder
  <2>3. o = call[q].order \/ (o \in DOMAIN orders /\ orders'[o] = orders[o])
    BY <1>3 DEF SaveOrder
  <2>4. QED
    BY <2>1, <2>2, <2>3 DEF SettledAtCount
<1>4. ASSUME NEW q \in Procs, CommitOpen(q) \/ CommitClose(q) \/ Rollback(q)
      PROVE  o \in changedSince'[p]
  <2>1. Finish(q) /\ orders' = orders
    BY <1>4 DEF CommitOpen, CommitClose, Rollback
  <2>2. p # q /\ PastCount(p) /\ call'[p] = call[p]
    BY <2>1 DEF Finish, PastCount, TypeInv, TypeOK
  <2>3. changedSince'[p] = changedSince[p]
    BY <1>4, <2>2 DEF CommitOpen, CommitClose, Rollback, TypeInv, TypeOK
  <2>4. QED
    BY <2>1, <2>2, <2>3 DEF SettledAtCount
<1>5. ASSUME NEW q \in Procs,
             FlipToClosed(q) \/ InsertSession(q) \/ InsertReplacement(q)
      PROVE  o \in changedSince'[p]
  <2>1. UNCHANGED <<orders, changedSince>>
    BY <1>5 DEF FlipToClosed, InsertSession, InsertReplacement, Insert
  <2>2. PastCount(p) /\ call'[p].session = call[p].session
    BY <1>5 DEF FlipToClosed, InsertSession, InsertReplacement, Insert, Goto, PastCount,
                TypeInv, TypeOK
  <2>3. QED
    BY <2>1, <2>2 DEF SettledAtCount
<1>6. ASSUME NEW q \in Procs,
             FindExisting(q) \/ LockSession(q) \/ ResolveOpenCashSessionId(q) \/ ReadOrder(q)
      PROVE  o \in changedSince'[p]
  <2>1. UNCHANGED <<orders, changedSince>> /\ pc[q] = "idle"
        /\ \E at \in {"insert", "count", "save"} : pc' = [pc EXCEPT ![q] = at]
    BY <1>6 DEF FindExisting, LockSession, ResolveOpenCashSessionId, ReadOrder, Goto
  <2>2. p # q /\ PastCount(p)
    BY <2>1 DEF PastCount, TypeInv, TypeOK
  <2>3. call'[p] = call[p]
    BY <1>6, <2>2 DEF FindExisting, LockSession, ResolveOpenCashSessionId, ReadOrder,
                      TypeInv, TypeOK
  <2>4. QED
    BY <2>1, <2>2, <2>3 DEF SettledAtCount
<1>7. QED
  BY <1>1, <1>2, <1>3, <1>4, <1>5, <1>6 DEF Next

(***************************************************************************)
(* What the count of close guarantees until close commits.                 *)
(***************************************************************************)
THEOREM CountedAtClose == Spec => []SettledAtCount
<1>1. Init => SettledAtCount
  BY DEF Init, SettledAtCount, PastCount
<1>2. QED
  BY <1>1, SettledNext, TypeCorrect, PTL DEF Spec

-------------------------------------------------------------------------------
(* Induction over sets of natural numbers.                                 *)

(***************************************************************************)
(* A set that contains 0 and with each number the next one contains all.   *)
(***************************************************************************)
LEMMA AllNaturals ==
  ASSUME NEW T, 0 \in T, \A n \in Nat : n \in T => n + 1 \in T
  PROVE  \A n \in Nat : n \in T
<1>. DEFINE Rest == Nat \ T
<1>1. SUFFICES ASSUME Rest # {} PROVE FALSE
  OBVIOUS
<1>2. PICK m \in Rest : \A k \in Rest : ~ (<<k, m>> \in OpToRel(<, Nat))
  <2>1. Rest \subseteq Nat
    OBVIOUS
  <2>2. QED
    BY <1>1, <2>1, NatLessThanWellFounded, WFMin
<1>3. m # 0 /\ m - 1 \in Nat
  OBVIOUS
<1>4. m - 1 \in Rest
  BY <1>3
<1>5. <<m - 1, m>> \in OpToRel(<, Nat)
  BY <1>3 DEF OpToRel
<1>6. QED
  BY <1>2, <1>4, <1>5

-------------------------------------------------------------------------------
(* The calendar                                                            *)

Units == {"hour", "day", "month"}

(***************************************************************************)
(* bucketConfig names the unit below the period.                           *)
(***************************************************************************)
LEMMA BucketUnits == \A period \in Periods : bucketConfig(period) \in Units
BY DEF Periods, bucketConfig, Units

(***************************************************************************)
(* The months of a year y begin on its days 0 and 3.                       *)
(***************************************************************************)
LEMMA Months ==
  ASSUME NEW y \in Nat
  PROVE  /\ FirstDay(2 * y) = 5 * y /\ FirstDay(2 * y + 1) = 5 * y + 3
         /\ LastDay(2 * y) = 5 * y + 2 /\ LastDay(2 * y + 1) = 5 * y + 4
<1>1. /\ (2 * y) \div 2 = y /\ (2 * y) % 2 = 0
      /\ (2 * y + 1) \div 2 = y /\ (2 * y + 1) % 2 = 1
      /\ (2 * y + 2) \div 2 = y + 1 /\ (2 * y + 2) % 2 = 0
  OBVIOUS
<1>2. /\ FirstDay(2 * y) = 5 * y /\ FirstDay(2 * y + 1) = 5 * y + 3
      /\ FirstDay(2 * y + 1 + 1) = 5 * (y + 1)
  BY <1>1 DEF FirstDay
<1>3. QED
  BY <1>2 DEF LastDay

(***************************************************************************)
(* Where the tick r of a year y lies.                                      *)
(***************************************************************************)
LEMMA Dates ==
  ASSUME NEW t \in Nat
  PROVE  \E y \in Nat, r \in 0 .. 19 :
           /\ t = 20 * y + r
           /\ DayOf(t) = 5 * y + (r \div 4) /\ t % Day = r % 4
           /\ MonthOf(t) = IF r < 12 THEN 2 * y ELSE 2 * y + 1
<1>. DEFINE y == t \div 20
            r == t % 20
<1>1. y \in Nat /\ r \in 0 .. 19 /\ t = 20 * y + r
  OBVIOUS
<1>2. t \div 4 = 5 * y + (r \div 4) /\ t % 4 = r % 4
  OBVIOUS
<1>3. (5 * y + (r \div 4)) \div 5 = y /\ (5 * y + (r \div 4)) % 5 = r \div 4
  OBVIOUS
<1>4. DayOf(t) = 5 * y + (r \div 4) /\ t % Day = r % 4
  BY <1>2 DEF DayOf, Day, Hour
<1>5. (r \div 4 < 3) <=> (r < 12)
  OBVIOUS
<1>. HIDE DEF y, r
<1>6. MonthOf(t) = IF r < 12 THEN 2 * y ELSE 2 * y + 1
  BY <1>1, <1>3, <1>4, <1>5 DEF MonthOf
<1>7. QED
  BY <1>1, <1>4, <1>6

(***************************************************************************)
(* What date_trunc and add do to a month.                                  *)
(***************************************************************************)
LEMMA MonthSteps ==
  ASSUME NEW t \in Nat
  PROVE  \E y \in Nat, r \in 0 .. 19 :
           /\ t = 20 * y + r
           /\ Truncated(t, "month") = IF r < 12 THEN 20 * y ELSE 20 * y + 12
           /\ Plus(t, "month") =
                IF r < 4 THEN 20 * y + 12 + r
                ELSE IF r < 12 THEN 20 * y + 16 + (r % 4) ELSE 20 * y + 20 + (r - 12)
<1>1. PICK y \in Nat, r \in 0 .. 19 :
           /\ t = 20 * y + r
           /\ DayOf(t) = 5 * y + (r \div 4) /\ t % Day = r % 4
           /\ MonthOf(t) = IF r < 12 THEN 2 * y ELSE 2 * y + 1
  BY Dates
<1>2. /\ FirstDay(2 * y) = 5 * y /\ FirstDay(2 * y + 1) = 5 * y + 3
      /\ LastDay(2 * y + 1) = 5 * y + 4
      /\ FirstDay(2 * y + 1 + 1) = 5 * y + 5 /\ LastDay(2 * y + 1 + 1) = 5 * y + 7
  <2>1. 2 * y + 1 + 1 = 2 * (y + 1) /\ y + 1 \in Nat
    OBVIOUS
  <2>2. FirstDay(2 * (y + 1)) = 5 * (y + 1) /\ LastDay(2 * (y + 1)) = 5 * (y + 1) + 2
    BY <2>1, Months
  <2>3. QED
    BY <2>1, <2>2, Months
<1>3. Truncated(t, "month") = FirstDay(MonthOf(t)) * 4 /\ Plus(t, "month") = MonthLater(t)
  BY DEF Truncated, Plus, Day, Hour
<1>4. CASE r < 12
  <2>1. MonthOf(t) = 2 * y
    BY <1>1, <1>4
  <2>2. MonthLater(t) = (IF 5 * y + 3 + (r \div 4) > 5 * y + 4 THEN 5 * y + 4
                         ELSE 5 * y + 3 + (r \div 4)) * 4 + (r % 4)
    <3>1. /\ FirstDay(MonthOf(t) + 1) + (DayOf(t) - FirstDay(MonthOf(t))) = 5 * y + 3 + (r \div 4)
          /\ LastDay(MonthOf(t) + 1) = 5 * y + 4
      BY <1>1, <1>2, <2>1
    <3>2. QED
      BY <1>1, <3>1 DEF MonthLater, Day, Hour
  <2>3. QED
    BY <1>1, <1>2, <1>3, <1>4, <2>1, <2>2
<1>5. CASE r >= 12
  <2>1. MonthOf(t) = 2 * y + 1
    BY <1>1, <1>5
  <2>2. MonthLater(t) = (5 * y + 5 + ((r \div 4) - 3)) * 4 + (r % 4)
    <3>1. /\ FirstDay(MonthOf(t) + 1) + (DayOf(t) - FirstDay(MonthOf(t))) = 5 * y + 5 + ((r \div 4) - 3)
          /\ LastDay(MonthOf(t) + 1) = 5 * y + 7
      BY <1>1, <1>2, <2>1
    <3>2. 5 * y + 5 + ((r \div 4) - 3) <= 5 * y + 7
      OBVIOUS
    <3>3. QED
      BY <1>1, <3>1, <3>2 DEF MonthLater, Day, Hour
  <2>3. (5 * y + 5 + ((r \div 4) - 3)) * 4 + (r % 4) = 20 * y + 20 + (r - 12)
    OBVIOUS
  <2>4. QED
    BY <1>1, <1>2, <1>3, <1>5, <2>1, <2>2, <2>3
<1>6. QED
  BY <1>4, <1>5

(***************************************************************************)
(* The starts of months.                                                   *)
(***************************************************************************)
LEMMA MonthStarts ==
  ASSUME NEW y \in Nat, NEW r \in 0 .. 19
  PROVE  /\ Truncated(20 * y + r, "month") = IF r < 12 THEN 20 * y ELSE 20 * y + 12
         /\ Plus(20 * y + r, "month") =
              IF r < 4 THEN 20 * y + 12 + r
              ELSE IF r < 12 THEN 20 * y + 16 + (r % 4) ELSE 20 * y + 20 + (r - 12)
<1>1. 20 * y + r \in Nat
  OBVIOUS
<1>2. \A z \in Nat, q \in 0 .. 19 : 20 * y + r = 20 * z + q => z = y /\ q = r
  OBVIOUS
<1>3. PICK z \in Nat, q \in 0 .. 19 :
           /\ 20 * y + r = 20 * z + q
           /\ Truncated(20 * y + r, "month") = IF q < 12 THEN 20 * z ELSE 20 * z + 12
           /\ Plus(20 * y + r, "month") =
                IF q < 4 THEN 20 * z + 12 + q
                ELSE IF q < 12 THEN 20 * z + 16 + (q % 4) ELSE 20 * z + 20 + (q - 12)
  BY <1>1, MonthSteps
<1>4. z = y /\ q = r
  BY <1>2, <1>3
<1>5. QED
  BY <1>3, <1>4

(***************************************************************************)
(* date_trunc returns the last start of a unit that is not later.          *)
(***************************************************************************)
LEMMA TruncatedIsLastStart ==
  ASSUME NEW unit \in Units, NEW t \in Nat
  PROVE  /\ Truncated(t, unit) \in Nat /\ Truncated(t, unit) <= t
         /\ Truncated(Truncated(t, unit), unit) = Truncated(t, unit)
         /\ \A s \in Nat : s <= t /\ Truncated(s, unit) = s => s <= Truncated(t, unit)
<1>1. CASE unit = "hour"
  <2>1. \A s : Truncated(s, "hour") = s - (s % 2)
    BY DEF Truncated, Hour
  <2>2. t - (t % 2) \in Nat /\ t - (t % 2) <= t /\ (t - (t % 2)) % 2 = 0
    OBVIOUS
  <2>3. \A s \in Nat : s <= t /\ s - (s % 2) = s => s <= t - (t % 2)
    OBVIOUS
  <2>4. QED
    BY <1>1, <2>1, <2>2, <2>3
<1>2. CASE unit = "day"
  <2>1. \A s : Truncated(s, "day") = s - (s % 4)
    BY DEF Truncated, Hour, Day
  <2>2. t - (t % 4) \in Nat /\ t - (t % 4) <= t /\ (t - (t % 4)) % 4 = 0
    OBVIOUS
  <2>3. \A s \in Nat : s <= t /\ s - (s % 4) = s => s <= t - (t % 4)
    OBVIOUS
  <2>4. /\ Truncated(t, "day") = t - (t % 4)
        /\ Truncated(t - (t % 4), "day") = t - (t % 4) - ((t - (t % 4)) % 4)
    BY <2>1
  <2>5. \A s \in Nat : s <= t /\ Truncated(s, "day") = s => s <= Truncated(t, "day")
    BY <2>1, <2>3, <2>4
  <2>6. Truncated(Truncated(t, "day"), "day") = Truncated(t, "day")
    BY <2>2, <2>4
  <2>7. QED
    BY <1>2, <2>2, <2>4, <2>5, <2>6
<1>3. CASE unit = "month"
  <2>1. PICK y \in Nat, r \in 0 .. 19 :
           /\ t = 20 * y + r
           /\ Truncated(t, "month") = IF r < 12 THEN 20 * y ELSE 20 * y + 12
    BY MonthSteps
  <2>2. Truncated(20 * y + 0, "month") = 20 * y /\ Truncated(20 * y + 12, "month") = 20 * y + 12
    BY MonthStarts
  <2>3. Truncated(Truncated(t, "month"), "month") = Truncated(t, "month")
    BY <2>1, <2>2
  <2>4. ASSUME NEW s \in Nat, s <= t, Truncated(s, "month") = s
        PROVE  s <= Truncated(t, "month")
    <3>1. PICK z \in Nat, q \in 0 .. 19 :
             /\ s = 20 * z + q
             /\ Truncated(s, "month") = IF q < 12 THEN 20 * z ELSE 20 * z + 12
      BY MonthSteps
    <3>2. QED
      BY <2>1, <2>4, <3>1
  <2>5. QED
    BY <1>3, <2>1, <2>3, <2>4
<1>4. QED
  BY <1>1, <1>2, <1>3 DEF Units

(***************************************************************************)
(* add moves a cursor forward, by an hour at least; from the start of a    *)
(* unit to the next start, from anywhere else never to a start.            *)
(***************************************************************************)
LEMMA PlusIsNextStart ==
  ASSUME NEW unit \in Units, NEW t \in Nat
  PROVE  /\ Plus(t, unit) \in Nat /\ Plus(t, unit) >= t + 2
         /\ (Truncated(Plus(t, unit), unit) = Plus(t, unit)) <=> (Truncated(t, unit) = t)
         /\ \A s \in Nat : Truncated(t, unit) = t /\ Truncated(s, unit) = s /\ t < s
                             => Plus(t, unit) <= s
<1>1. CASE unit = "hour"
  <2>1. \A s : Truncated(s, "hour") = s - (s % 2) /\ Plus(s, "hour") = s + 2
    BY DEF Truncated, Plus, Hour
  <2>2. ((t + 2) - ((t + 2) % 2) = t + 2) <=> (t - (t % 2) = t)
    OBVIOUS
  <2>3. \A s \in Nat : t - (t % 2) = t /\ s - (s % 2) = s /\ t < s => t + 2 <= s
    OBVIOUS
  <2>4. QED
    BY <1>1, <2>1, <2>2, <2>3
<1>2. CASE unit = "day"
  <2>1. \A s : Truncated(s, "day") = s - (s % 4) /\ Plus(s, "day") = s + 4
    BY DEF Truncated, Plus, Hour, Day
  <2>2. ((t + 4) - ((t + 4) % 4) = t + 4) <=> (t - (t % 4) = t)
    OBVIOUS
  <2>3. \A s \in Nat : t - (t % 4) = t /\ s - (s % 4) = s /\ t < s => t + 4 <= s
    OBVIOUS
  <2>4. /\ Plus(t, "day") = t + 4 /\ Truncated(t, "day") = t - (t % 4)
        /\ Truncated(t + 4, "day") = t + 4 - ((t + 4) % 4)
    BY <2>1
  <2>5. \A s \in Nat : Truncated(t, "day") = t /\ Truncated(s, "day") = s /\ t < s => t + 4 <= s
    BY <2>1, <2>3, <2>4
  <2>6. (Truncated(t + 4, "day") = t + 4) <=> (Truncated(t, "day") = t)
    BY <2>2, <2>4
  <2>7. QED
    BY <1>2, <2>4, <2>5, <2>6
<1>3. CASE unit = "month"
  <2>1. PICK y \in Nat, r \in 0 .. 19 :
           /\ t = 20 * y + r
           /\ Truncated(t, "month") = IF r < 12 THEN 20 * y ELSE 20 * y + 12
           /\ Plus(t, "month") =
                IF r < 4 THEN 20 * y + 12 + r
                ELSE IF r < 12 THEN 20 * y + 16 + (r % 4) ELSE 20 * y + 20 + (r - 12)
    BY MonthSteps
  <2>2. Plus(t, "month") \in Nat /\ Plus(t, "month") >= t + 2
    BY <2>1
  <2>3. (Truncated(Plus(t, "month"), "month") = Plus(t, "month")) <=> (Truncated(t, "month") = t)
    <3>1. CASE r < 4
      <4>1. 12 + r \in 0 .. 19
        BY <3>1
      <4>2. Plus(t, "month") = 20 * y + (12 + r)
        BY <2>1, <3>1
      <4>3. Truncated(20 * y + (12 + r), "month") = 20 * y + 12
        BY <4>1, MonthStarts
      <4>4. QED
        BY <2>1, <3>1, <4>2, <4>3
    <3>2. CASE r >= 4 /\ r < 12
      <4>1. 16 + (r % 4) \in 0 .. 19 /\ r % 4 \in Nat
        OBVIOUS
      <4>2. Plus(t, "month") = 20 * y + (16 + (r % 4))
        BY <2>1, <3>2
      <4>3. Truncated(20 * y + (16 + (r % 4)), "month") = 20 * y + 12
        BY <4>1, MonthStarts
      <4>4. QED
        BY <2>1, <3>2, <4>1, <4>2, <4>3
    <3>3. CASE r >= 12
      <4>1. r - 12 \in 0 .. 19 /\ y + 1 \in Nat /\ r - 12 < 12
        BY <3>3
      <4>2. Plus(t, "month") = 20 * (y + 1) + (r - 12)
        BY <2>1, <3>3
      <4>3. Truncated(20 * (y + 1) + (r - 12), "month") = 20 * (y + 1)
        BY <4>1, MonthStarts
      <4>4. QED
        BY <2>1, <3>3, <4>2, <4>3
    <3>4. QED
      BY <3>1, <3>2, <3>3
  <2>4. ASSUME NEW s \in Nat, Truncated(t, "month") = t, Truncated(s, "month") = s, t < s
        PROVE  Plus(t, "month") <= s
    <3>1. PICK z \in Nat, q \in 0 .. 19 :
             /\ s = 20 * z + q
             /\ Truncated(s, "month") = IF q < 12 THEN 20 * z ELSE 20 * z + 12
      BY MonthSteps
    <3>2. QED
      BY <2>1, <2>4, <3>1
  <2>5. QED
    BY <1>3, <2>2, <2>3, <2>4
<1>4. QED
  BY <1>1, <1>2, <1>3 DEF Units

(***************************************************************************)
(* The default window of a period lies in time, too.                       *)
(***************************************************************************)
LEMMA WindowsType ==
  ASSUME ReportsAssumption, NEW period \in Periods, NEW w \in resolveRange(period)
  PROVE  w[1] \in Nat /\ w[2] \in Nat
<1>1. ASSUME NEW t \in Nat
      PROVE  /\ Truncated(t, period) \in Nat
             /\ Plus(Truncated(t, period), period) \in Nat
  <2>1. CASE period = "year"
    BY <2>1 DEF Truncated, Plus, Year, Day, Hour
  <2>2. CASE period \in Units
    BY <2>2, TruncatedIsLastStart, PlusIsNextStart
  <2>3. QED
    BY <2>1, <2>2 DEF Periods, Units
<1>2. QED
  BY <1>1 DEF resolveRange, DefaultWindow, ReportsAssumption

-------------------------------------------------------------------------------
(* The cursor of buildSeries                                               *)

LastCursor(from, to) == (to - from) \div 2 + 1

\* f is a solution of the recursion in Cursors.
Moves(f, from, unit, k) ==
  f = [n \in 0 .. k |-> IF n = 0 THEN FirstCursor(from, unit) ELSE Plus(f[n - 1], unit)]

(***************************************************************************)
(* The recursion is well founded: there is a function that meets it.       *)
(***************************************************************************)
LEMMA CursorExists ==
  ASSUME NEW from, NEW unit, NEW k \in Int
  PROVE  \E f : Moves(f, from, unit, k)
<1>. DEFINE Step(f, n) == IF n = 0 THEN FirstCursor(from, unit) ELSE Plus(f[n - 1], unit)
            Upto(m) == \E f : f = [n \in 0 .. m |-> Step(f, n)]
            T == {m \in Nat : Upto(m)}
<1>1. CASE k \notin Nat
  <2>1. 0 .. k = {}
    BY <1>1
  <2>2. [n \in 0 .. k |-> from] = [n \in 0 .. k |-> Step([m \in 0 .. k |-> from], n)]
    BY <2>1
  <2>3. QED
    BY <2>2 DEF Moves
<1>2. 0 \in T
  <2>. DEFINE g == [n \in 0 .. 0 |-> FirstCursor(from, unit)]
  <2>1. g = [n \in 0 .. 0 |-> Step(g, n)]
    OBVIOUS
  <2>2. QED
    BY <2>1
<1>3. ASSUME NEW m \in Nat, m \in T PROVE m + 1 \in T
  <2>1. PICK g : g = [n \in 0 .. m |-> Step(g, n)]
    BY <1>3
  <2>. DEFINE h == [n \in 0 .. m + 1 |-> Step(g, n)]
  <2>2. ASSUME NEW n \in 0 .. m + 1 PROVE Step(g, n) = Step(h, n)
    <3>1. CASE n = 0
      BY <3>1
    <3>2. CASE n # 0
      <4>1. n - 1 \in 0 .. m /\ n - 1 \in 0 .. m + 1
        BY <3>2
      <4>2. g[n - 1] = Step(g, n - 1)
        BY <2>1, <4>1
      <4>3. h[n - 1] = Step(g, n - 1)
        BY <4>1
      <4>4. g[n - 1] = h[n - 1]
        BY <4>2, <4>3
      <4>5. QED
        BY <3>2, <4>4
    <3>3. QED
      BY <3>1, <3>2
  <2>3. h = [n \in 0 .. m + 1 |-> Step(h, n)]
    BY <2>2
  <2>. HIDE DEF h
  <2>4. Upto(m + 1)
    BY <2>3
  <2>5. QED
    BY <2>4
<1>. HIDE DEF T
<1>4. \A n \in Nat : n \in T
  BY <1>2, <1>3, AllNaturals
<1>5. CASE k \in Nat
  BY <1>4, <1>5 DEF T, Moves
<1>6. QED
  BY <1>1, <1>5

(***************************************************************************)
(* So the cursor starts at from and moves on by one unit.                  *)
(***************************************************************************)
LEMMA CursorsMove ==
  ASSUME NEW from \in Nat, NEW to \in Nat, NEW unit
  PROVE  /\ DOMAIN Cursors(from, to, unit) = 0 .. LastCursor(from, to)
         /\ 0 <= LastCursor(from, to) => Cursors(from, to, unit)[0] = from
         /\ \A n \in 1 .. LastCursor(from, to) :
              Cursors(from, to, unit)[n] = Plus(Cursors(from, to, unit)[n - 1], unit)
<1>. DEFINE k == LastCursor(from, to)
<1>1. k \in Int
  BY DEF LastCursor
<1>2. Cursors(from, to, unit) = CHOOSE f : Moves(f, from, unit, k)
  BY DEF Cursors, LastCursor, Hour, Moves
<1>3. \E f : Moves(f, from, unit, k)
  BY <1>1, CursorExists
<1>4. Moves(Cursors(from, to, unit), from, unit, k)
  BY <1>2, <1>3
<1>. DEFINE c == Cursors(from, to, unit)
<1>5. c = [n \in 0 .. k |-> IF n = 0 THEN from ELSE Plus(c[n - 1], unit)]
  BY <1>4 DEF FirstCursor, Moves
<1>. HIDE DEF c, k
<1>6. DOMAIN c = 0 .. k
  BY <1>5
<1>7. 0 <= k => c[0] = from
  <2>1. 0 <= k => 0 \in 0 .. k
    BY <1>1
  <2>2. QED
    BY <1>5, <2>1
<1>8. \A n \in 1 .. k : c[n] = Plus(c[n - 1], unit)
  <2>1. \A n \in 1 .. k : n \in 0 .. k /\ n # 0
    BY <1>1
  <2>2. QED
    BY <1>5, <2>1
<1>9. QED
  BY <1>6, <1>7, <1>8 DEF c, k

(***************************************************************************)
(* A cursor is an instant, two ticks per step from the beginning at least, *)
(* and the start of a unit if and only if the window begins with one.      *)
(***************************************************************************)
LEMMA CursorsGrow ==
  ASSUME NEW from \in Nat, NEW to \in Nat, NEW unit \in Units
  PROVE  \A n \in 0 .. LastCursor(from, to) :
           LET t == Cursors(from, to, unit)[n]
           IN /\ t \in Nat /\ t >= from + 2 * n
              /\ (Truncated(t, unit) = t) <=> (Truncated(from, unit) = from)
<1>. DEFINE c == Cursors(from, to, unit)
            k == LastCursor(from, to)
            Good(n) == /\ c[n] \in Nat /\ c[n] >= from + 2 * n
                       /\ (Truncated(c[n], unit) = c[n]) <=> (Truncated(from, unit) = from)
            T == {n \in Nat : n \in 0 .. k => Good(n)}
<1>1. k \in Int
  BY DEF LastCursor
<1>2. 0 \in T
  BY <1>1, CursorsMove
<1>3. ASSUME NEW n \in Nat, n \in T PROVE n + 1 \in T
  <2>. SUFFICES ASSUME n + 1 \in 0 .. k PROVE Good(n + 1)
    OBVIOUS
  <2>1. n \in 0 .. k /\ n + 1 \in 1 .. k /\ (n + 1) - 1 = n
    BY <1>1
  <2>2. Good(n)
    BY <1>3, <2>1
  <2>3. c[n + 1] = Plus(c[n], unit)
    BY <2>1, CursorsMove
  <2>4. /\ Plus(c[n], unit) \in Nat /\ Plus(c[n], unit) >= c[n] + 2
        /\ (Truncated(Plus(c[n], unit), unit) = Plus(c[n], unit)) <=> (Truncated(c[n], unit) = c[n])
    BY <2>2, PlusIsNextStart
  <2>. HIDE DEF c
  <2>5. QED
    BY <2>2, <2>3, <2>4
<1>. HIDE DEF T
<1>4. \A n \in Nat : n \in T
  BY <1>2, <1>3, AllNaturals
<1>5. QED
  BY <1>1, <1>4 DEF T

(***************************************************************************)
(* Later cursors are later instants.                                       *)
(***************************************************************************)
LEMMA CursorsIncrease ==
  ASSUME NEW from \in Nat, NEW to \in Nat, NEW unit \in Units
  PROVE  \A i, j \in 0 .. LastCursor(from, to) :
           i < j => Cursors(from, to, unit)[i] < Cursors(from, to, unit)[j]
<1>. DEFINE c == Cursors(from, to, unit)
            k == LastCursor(from, to)
            T == {n \in Nat : n \in 0 .. k => \A i \in 0 .. n - 1 : c[i] < c[n]}
<1>1. k \in Int
  BY DEF LastCursor
<1>2. 0 \in T
  OBVIOUS
<1>3. ASSUME NEW n \in Nat, n \in T PROVE n + 1 \in T
  <2>. SUFFICES ASSUME n + 1 \in 0 .. k, NEW i \in 0 .. (n + 1) - 1 PROVE c[i] < c[n + 1]
    OBVIOUS
  <2>1. n \in 0 .. k /\ n + 1 \in 1 .. k /\ (n + 1) - 1 = n /\ i \in 0 .. k
    BY <1>1
  <2>2. c[n + 1] = Plus(c[n], unit)
    BY <2>1, CursorsMove
  <2>3. c[n] \in Nat /\ c[i] \in Nat
    BY <2>1, CursorsGrow
  <2>4. Plus(c[n], unit) \in Nat /\ Plus(c[n], unit) >= c[n] + 2
    BY <2>3, PlusIsNextStart
  <2>5. i = n \/ i \in 0 .. n - 1
    OBVIOUS
  <2>6. i # n => c[i] < c[n]
    BY <1>3, <2>1, <2>5
  <2>. HIDE DEF c
  <2>7. QED
    BY <2>2, <2>3, <2>4, <2>6
<1>. HIDE DEF T
<1>4. \A n \in Nat : n \in T
  BY <1>2, <1>3, AllNaturals
<1>5. QED
  BY <1>1, <1>4 DEF T

(***************************************************************************)
(* From the start of a unit the cursor skips no start.                     *)
(***************************************************************************)
LEMMA CursorsMissNothing ==
  ASSUME NEW from \in Nat, NEW to \in Nat, NEW unit \in Units,
         Truncated(from, unit) = from
  PROVE  \A n \in 0 .. LastCursor(from, to) :
           \A s \in Nat : /\ from <= s /\ s < Cursors(from, to, unit)[n]
                          /\ Truncated(s, unit) = s
                          => \E j \in 0 .. n - 1 : Cursors(from, to, unit)[j] = s
<1>. DEFINE c == Cursors(from, to, unit)
            k == LastCursor(from, to)
            Seen(s, n) == /\ from <= s /\ s < c[n] /\ Truncated(s, unit) = s
                          => \E j \in 0 .. n - 1 : c[j] = s
            T == {n \in Nat : n \in 0 .. k => \A s \in Nat : Seen(s, n)}
<1>1. k \in Int
  BY DEF LastCursor
<1>2. 0 \in T
  <2>1. 0 \in 0 .. k => c[0] = from
    BY <1>1, CursorsMove
  <2>. HIDE DEF c, k
  <2>2. QED
    BY <2>1
<1>3. ASSUME NEW n \in Nat, n \in T PROVE n + 1 \in T
  <2>. SUFFICES ASSUME n + 1 \in 0 .. k, NEW s \in Nat, from <= s, s < c[n + 1],
                       Truncated(s, unit) = s
                PROVE  \E j \in 0 .. (n + 1) - 1 : c[j] = s
    OBVIOUS
  <2>1. n \in 0 .. k /\ n + 1 \in 1 .. k /\ (n + 1) - 1 = n
    BY <1>1
  <2>2. c[n + 1] = Plus(c[n], unit)
    BY <2>1, CursorsMove
  <2>3. c[n] \in Nat /\ Truncated(c[n], unit) = c[n]
    BY <2>1, CursorsGrow
  <2>4. c[n] < s => c[n + 1] <= s
    BY <2>2, <2>3, PlusIsNextStart
  <2>5. Plus(c[n], unit) \in Nat
    BY <2>3, PlusIsNextStart
  <2>6. Seen(s, n)
    BY <1>3, <2>1
  <2>. HIDE DEF c
  <2>7. s <= c[n]
    BY <2>2, <2>3, <2>4, <2>5
  <2>8. CASE s = c[n]
    <3>1. n \in 0 .. (n + 1) - 1
      OBVIOUS
    <3>2. QED
      BY <2>8, <3>1
  <2>9. CASE s < c[n]
    <3>1. PICK j \in 0 .. n - 1 : c[j] = s
      BY <2>6, <2>9
    <3>2. j \in 0 .. (n + 1) - 1
      OBVIOUS
    <3>3. QED
      BY <3>1, <3>2
  <2>10. QED
    BY <2>3, <2>7, <2>8, <2>9
<1>. HIDE DEF T
<1>4. \A n \in Nat : n \in T
  BY <1>2, <1>3, AllNaturals
<1>5. QED
  BY <1>1, <1>4 DEF T

(***************************************************************************)
(* The cursors of the loop are a beginning of all cursors, each of them in *)
(* the window; from the start of a unit they are all starts of the window. *)
(***************************************************************************)
Points(from, to, unit) ==
  {n \in DOMAIN Cursors(from, to, unit) : IsBefore(Cursors(from, to, unit)[n], to)}

LEMMA PointsOfLoop ==
  ASSUME NEW from \in Nat, NEW to \in Nat, NEW unit \in Units
  PROVE  LET c == Cursors(from, to, unit)
             points == Cardinality(Points(from, to, unit))
         IN /\ points \in Nat /\ 0 .. points - 1 \subseteq 0 .. LastCursor(from, to)
            /\ Points(from, to, unit) = 0 .. points - 1
            /\ \A n \in 0 .. points - 1 : c[n] \in from .. to - 1
            /\ Truncated(from, unit) = from =>
                 \A s \in from .. to - 1 : Truncated(s, unit) = s =>
                   \E n \in 0 .. points - 1 : c[n] = s
<1>. DEFINE c == Cursors(from, to, unit)
            k == LastCursor(from, to)
<1>1. k \in Int /\ 2 * k > to - from
  BY DEF LastCursor
<1>2. DOMAIN c = 0 .. k
  BY CursorsMove
<1>3. \A n \in 0 .. k : c[n] \in Nat /\ c[n] >= from + 2 * n
  BY CursorsGrow
<1>4. \A i, j \in 0 .. k : i < j => c[i] < c[j]
  BY CursorsIncrease
<1>5. Points(from, to, unit) = {n \in 0 .. k : c[n] < to}
  BY <1>2 DEF Points, IsBefore
<1>6. Truncated(from, unit) = from =>
        \A n \in 0 .. k : \A s \in Nat : from <= s /\ s < c[n] /\ Truncated(s, unit) = s
                            => \E j \in 0 .. n - 1 : c[j] = s
  BY CursorsMissNothing
<1>. HIDE DEF c, k
<1>7. CASE k < 0
  <2>1. Points(from, to, unit) = {} /\ to <= from
    BY <1>1, <1>5, <1>7
  <2>2. Cardinality(Points(from, to, unit)) = 0
    BY <2>1, FS_EmptySet
  <2>3. 0 .. 0 - 1 = {} /\ from .. to - 1 = {}
    BY <2>1
  <2>4. QED
    BY <2>1, <2>2, <2>3 DEF c, k
<1>8. CASE k >= 0
  <2>1. c[k] >= to
    <3>1. k \in 0 .. k
      BY <1>1, <1>8
    <3>2. c[k] \in Nat /\ c[k] >= from + 2 * k
      BY <1>3, <3>1
    <3>3. QED
      BY <1>1, <3>2
  <2>2. PICK p \in 0 .. k : c[p] >= to /\ \A n \in 0 .. p - 1 : c[n] < to
    <3>. DEFINE S == {n \in 0 .. k : c[n] >= to}
    <3>1. S \subseteq Nat /\ k \in S
      BY <1>1, <1>8, <2>1
    <3>2. PICK p \in S : \A n \in S : ~ (<<n, p>> \in OpToRel(<, Nat))
      BY <3>1, NatLessThanWellFounded, WFMin
    <3>3. ASSUME NEW n \in 0 .. p - 1 PROVE c[n] < to
      <4>0. p \in 0 .. k
        OBVIOUS
      <4>1. n \in 0 .. k /\ n < p /\ n \in Nat /\ p \in Nat
        <5>. HIDE DEF S
        <5>1. QED
          BY <1>1, <4>0
      <4>2. <<n, p>> \in OpToRel(<, Nat)
        BY <4>1 DEF OpToRel
      <4>3. n \notin S
        BY <3>2, <4>2
      <4>4. c[n] \in Nat /\ ~ (c[n] >= to)
        BY <1>3, <4>1, <4>3
      <4>. HIDE DEF S
      <4>5. QED
        BY <4>4
    <3>4. QED
      BY <3>2, <3>3
  <2>3. Points(from, to, unit) = 0 .. p - 1
    <3>1. \A n \in 0 .. k : n < p \/ n = p \/ p < n
      BY <1>1
    <3>2. \A n \in 0 .. k : c[n] < to => n < p
      BY <1>3, <1>4, <2>2, <3>1
    <3>3. QED
      BY <1>1, <1>5, <2>2, <3>2
  <2>4. Cardinality(Points(from, to, unit)) = p
    <3>1. p \in Nat /\ Cardinality(0 .. p - 1) = p
      BY <1>1, FS_Interval
    <3>2. QED
      BY <2>3, <3>1
  <2>5. \A n \in 0 .. p - 1 : c[n] \in from .. to - 1
    <3>1. \A n \in 0 .. p - 1 : n \in 0 .. k /\ n \in Nat
      BY <1>1
    <3>2. QED
      BY <1>3, <2>2, <3>1
  <2>6. Truncated(from, unit) = from =>
          \A s \in from .. to - 1 : Truncated(s, unit) = s => \E n \in 0 .. p - 1 : c[n] = s
    <3>1. \A s \in from .. to - 1 : s \in Nat /\ from <= s /\ s < c[p]
      BY <1>3, <2>2
    <3>2. QED
      BY <1>6, <3>1
  <2>7. 0 .. p - 1 \subseteq 0 .. k /\ p \in Nat
    BY <1>1
  <2>8. QED
    BY <2>3, <2>4, <2>5, <2>6, <2>7 DEF c, k
<1>9. QED
  BY <1>1, <1>7, <1>8

-------------------------------------------------------------------------------
(* Sums.  A sum counts units of money, so a sum of sums over disjoint sets *)
(* counts the units of their union.                                        *)

(***************************************************************************)
(* A union of finitely many finite sets is finite.                         *)
(***************************************************************************)
LEMMA FiniteUnion ==
  ASSUME NEW D, IsFiniteSet(D), NEW F, \A x \in D : IsFiniteSet(F[x])
  PROVE  IsFiniteSet(UNION {F[x] : x \in D})
<1>. DEFINE T == {F[x] : x \in D}
            f == [x \in D |-> F[x]]
<1>1. f \in Surjection(D, T)
  BY DEF Surjection
<1>2. IsFiniteSet(T)
  <2>. HIDE DEF f, T
  <2>1. QED
    BY <1>1, FS_Surjection
<1>3. \A S \in T : IsFiniteSet(S)
  OBVIOUS
<1>. HIDE DEF T
<1>4. IsFiniteSet(UNION T)
  BY <1>2, <1>3, FS_UNION
<1>5. QED
  BY <1>4 DEF T

(***************************************************************************)
(* The sizes of disjoint finite sets add up to the size of their union.    *)
(***************************************************************************)
LEMMA DisjointSum ==
  ASSUME NEW D, IsFiniteSet(D), NEW F, \A x \in D : IsFiniteSet(F[x]),
         \A x, y \in D : x # y => F[x] \cap F[y] = {}
  PROVE  SumOf([x \in D |-> Cardinality(F[x])]) = Cardinality(UNION {F[x] : x \in D})
<1>. DEFINE size == [x \in D |-> Cardinality(F[x])]
            Numbers(x) == 1 .. Cardinality(F[x])
            Pairs == UNION {{x} \X Numbers(x) : x \in D}
            All == UNION {F[x] : x \in D}
            g == [x \in D |-> CHOOSE b \in Bijection(Numbers(x), F[x]) : TRUE]
            h == [u \in Pairs |-> g[u[1]][u[2]]]
<1>1. SumOf(size) = Cardinality(Pairs)
  <2>1. \A x \in D : {x} \X (1 .. size[x]) = {x} \X Numbers(x)
    OBVIOUS
  <2>2. DOMAIN size = D
    OBVIOUS
  <2>. HIDE DEF size
  <2>3. {{x} \X (1 .. size[x]) : x \in DOMAIN size} = {{x} \X Numbers(x) : x \in D}
    BY <2>1, <2>2
  <2>4. QED
    BY <2>3 DEF SumOf
<1>2. \A x \in D : g[x] \in Bijection(Numbers(x), F[x])
  <2>1. \A x \in D : Bijection(Numbers(x), F[x]) # {}
    BY FS_CardinalityType DEF ExistsBijection
  <2>2. QED
    BY <2>1
<1>3. ASSUME NEW x \in D
      PROVE  /\ \A i \in Numbers(x) : g[x][i] \in F[x]
             /\ \A i, j \in Numbers(x) : g[x][i] = g[x][j] => i = j
             /\ \A v \in F[x] : \E i \in Numbers(x) : g[x][i] = v
  <2>. DEFINE b == g[x]
              N == Numbers(x)
              V == F[x]
  <2>1. b \in Bijection(N, V)
    BY <1>2
  <2>. HIDE DEF b, N, V
  <2>2. /\ \A i \in N : b[i] \in V
        /\ \A i, j \in N : b[i] = b[j] => i = j
        /\ \A v \in V : \E i \in N : b[i] = v
    BY <2>1 DEF Bijection, Injection, IsInjective, Surjection
  <2>3. QED
    BY <2>2 DEF b, N, V
<1>. HIDE DEF g
<1>4. \A u \in Pairs : /\ u[1] \in D /\ u[2] \in Numbers(u[1]) /\ u = <<u[1], u[2]>>
                       /\ h[u] = g[u[1]][u[2]]
  <2>. HIDE DEF Numbers
  <2>1. QED
    OBVIOUS
<1>5. \A x \in D : \A i \in Numbers(x) : <<x, i>> \in Pairs
  <2>. HIDE DEF Numbers
  <2>1. QED
    OBVIOUS
<1>6. h \in [Pairs -> All]
  <2>1. \A u \in Pairs : g[u[1]][u[2]] \in F[u[1]] /\ u[1] \in D
    BY <1>3, <1>4
  <2>2. \A u \in Pairs : g[u[1]][u[2]] \in All
    <3>. HIDE DEF Pairs
    <3>1. QED
      BY <2>1
  <2>. HIDE DEF Pairs, All
  <2>3. QED
    BY <2>2
<1>. HIDE DEF h, Pairs, Numbers
<1>7. \A u, v \in Pairs : h[u] = h[v] => u = v
  <2>. SUFFICES ASSUME NEW u \in Pairs, NEW v \in Pairs, h[u] = h[v] PROVE u = v
    OBVIOUS
  <2>1. h[u] \in F[u[1]] /\ h[v] \in F[v[1]]
    BY <1>3, <1>4
  <2>2. u[1] = v[1]
    BY <1>4, <2>1
  <2>3. u[2] = v[2]
    BY <1>3, <1>4, <2>2
  <2>4. QED
    BY <1>4, <2>2, <2>3
<1>8. \A v \in All : \E u \in Pairs : h[u] = v
  <2>. SUFFICES ASSUME NEW x \in D, NEW v \in F[x] PROVE \E u \in Pairs : h[u] = v
    OBVIOUS
  <2>0. \A w \in F[x] : \E i \in Numbers(x) : g[x][i] = w
    BY <1>3
  <2>1. PICK i \in Numbers(x) : g[x][i] = v
    BY <2>0, Zenon
  <2>2. <<x, i>> \in Pairs
    BY <1>5
  <2>3. h[<<x, i>>] = v
    BY <1>4, <2>1, <2>2
  <2>4. QED
    BY <2>2, <2>3
<1>9. h \in Bijection(Pairs, All)
  <2>. HIDE DEF All
  <2>1. h \in Injection(Pairs, All)
    BY <1>6, <1>7 DEF Injection, IsInjective
  <2>2. h \in Surjection(Pairs, All)
    BY <1>6, <1>8 DEF Surjection
  <2>3. QED
    BY <2>1, <2>2 DEF Bijection
<1>10. IsFiniteSet(Pairs)
  <2>. DEFINE G == [x \in D |-> {x} \X Numbers(x)]
  <2>1. \A x \in D : IsFiniteSet(G[x])
    <3>. SUFFICES ASSUME NEW x \in D PROVE IsFiniteSet(G[x])
      OBVIOUS
    <3>1. IsFiniteSet({x})
      BY FS_Singleton
    <3>2. IsFiniteSet(Numbers(x))
      <4>1. Cardinality(F[x]) \in Int /\ 1 \in Int
        BY FS_CardinalityType
      <4>2. QED
        BY <4>1, FS_Interval DEF Numbers
    <3>3. IsFiniteSet({x} \X Numbers(x))
      BY <3>1, <3>2, FS_Product
    <3>4. QED
      BY <3>3
  <2>2. Pairs = UNION {G[x] : x \in D}
    BY DEF Pairs
  <2>. HIDE DEF G
  <2>3. IsFiniteSet(UNION {G[x] : x \in D})
    BY <2>1, FiniteUnion
  <2>4. QED
    BY <2>2, <2>3
<1>11. Cardinality(All) = Cardinality(Pairs)
  <2>. HIDE DEF All
  <2>1. QED
    BY <1>9, <1>10, FS_Bijection DEF ExistsBijection
<1>12. QED
  BY <1>1, <1>11

\* The units of money of the orders of a set.
Money(set) == UNION {{o} \X (1 .. Totals[o]) : o \in set}

\* The orders as the handlers leave them.
SalesOK ==
  /\ DOMAIN sales \subseteq OrderIds
  /\ sales \in [DOMAIN sales -> [createdAt : Nat, cancelled : BOOLEAN]]

(***************************************************************************)
(* The revenue of some orders is the number of their units of money.       *)
(***************************************************************************)
LEMMA RevenueIsMoney ==
  ASSUME ReportsAssumption, NEW set, set \subseteq OrderIds
  PROVE  IsFiniteSet(Money(set)) /\ Revenue(set) = Cardinality(Money(set))
<1>. DEFINE f == [o \in set |-> Totals[o]]
            G == [o \in set |-> {o} \X (1 .. Totals[o])]
<1>1. IsFiniteSet(set)
  BY FS_Subset DEF ReportsAssumption
<1>2. \A o \in set : IsFiniteSet(G[o])
  <2>. SUFFICES ASSUME NEW o \in set PROVE IsFiniteSet(G[o])
    OBVIOUS
  <2>1. Totals[o] \in Int /\ 1 \in Int
    BY DEF ReportsAssumption
  <2>2. IsFiniteSet(1 .. Totals[o])
    BY <2>1, FS_Interval
  <2>3. IsFiniteSet({o})
    BY FS_Singleton
  <2>4. IsFiniteSet({o} \X (1 .. Totals[o]))
    BY <2>2, <2>3, FS_Product
  <2>5. QED
    BY <2>4
<1>3. Money(set) = UNION {G[o] : o \in set}
  BY DEF Money
<1>4. IsFiniteSet(UNION {G[o] : o \in set})
  <2>. HIDE DEF G
  <2>1. QED
    BY <1>1, <1>2, FiniteUnion
<1>5. SumOf(f) = Cardinality(Money(set))
  <2>1. DOMAIN f = set /\ \A o \in set : f[o] = Totals[o]
    OBVIOUS
  <2>. HIDE DEF f
  <2>2. {{o} \X (1 .. f[o]) : o \in DOMAIN f} = {{o} \X (1 .. Totals[o]) : o \in set}
    BY <2>1
  <2>3. QED
    BY <2>2 DEF SumOf, Money
<1>6. QED
  BY <1>3, <1>4, <1>5 DEF Revenue

(***************************************************************************)
(* The chart of a window adds up to the revenue of the window if the       *)
(* window begins with a unit: each order that is counted was created       *)
(* within one unit, the unit starts in the window, and one cursor is that  *)
(* start.  From any other begin no cursor is a start and it adds up to 0.  *)
(***************************************************************************)
LEMMA ChartOfSeries ==
  ASSUME ReportsAssumption, SalesOK,
         NEW period \in Periods, NEW from \in Nat, NEW to \in Nat
  PROVE  Shown(buildSeries(period, from, to)) =
           IF Truncated(from, bucketConfig(period)) = from
           THEN Revenue(Counted(from, to)) ELSE 0
<1>. DEFINE unit == bucketConfig(period)
            c == Cursors(from, to, unit)
            p == Cardinality(Points(from, to, unit))
            B(n) == Bucket(from, to, unit, c[n - 1])
            F == [n \in 1 .. p |-> Money(B(n))]
            series == buildSeries(period, from, to)
            values == [n \in 1 .. p |-> Revenue(B(n))]
<1>1. unit \in Units
  BY BucketUnits
<1>2. p \in Nat /\ \A n \in 1 .. p : n - 1 \in 0 .. p - 1 /\ n - 1 \in 0 .. LastCursor(from, to)
  <2>1. p \in Nat /\ 0 .. p - 1 \subseteq 0 .. LastCursor(from, to)
    BY <1>1, PointsOfLoop
  <2>. HIDE DEF p
  <2>2. \A n \in 1 .. p : n - 1 \in 0 .. p - 1
    BY <2>1
  <2>3. QED
    BY <2>1, <2>2
<1>3. series = [n \in 1 .. p |-> [at |-> c[n - 1], value |-> Revenue(B(n))]]
  BY DEF buildSeries, Points
<1>4. Shown(series) = SumOf(values)
  <2>. HIDE DEF p, B, c, series, unit
  <2>1. DOMAIN series = 1 .. p /\ \A n \in 1 .. p : series[n].value = Revenue(B(n))
    BY <1>3
  <2>2. [n \in DOMAIN series |-> series[n].value] = values
    BY <2>1
  <2>3. QED
    BY <2>2 DEF Shown
<1>5. \A n \in 1 .. p : /\ B(n) \subseteq OrderIds /\ B(n) \subseteq Counted(from, to)
                        /\ \A o \in Counted(from, to) :
                             o \in B(n) <=> (Truncated(sales[o].createdAt, unit) = c[n - 1])
  BY DEF Bucket, Counted, SalesOK
<1>6. \A n \in 1 .. p : /\ c[n - 1] \in Nat
                        /\ (Truncated(c[n - 1], unit) = c[n - 1]) <=> (Truncated(from, unit) = from)
  <2>. SUFFICES ASSUME NEW n \in 1 .. p
                PROVE  /\ c[n - 1] \in Nat
                       /\ (Truncated(c[n - 1], unit) = c[n - 1]) <=> (Truncated(from, unit) = from)
    OBVIOUS
  <2>1. n - 1 \in 0 .. LastCursor(from, to)
    BY <1>2
  <2>2. QED
    BY <1>1, <2>1, CursorsGrow
<1>7. \A i, j \in 1 .. p : i # j => c[i - 1] # c[j - 1]
  <2>1. \A i, j \in 1 .. p : i < j => c[i - 1] < c[j - 1]
    <3>. SUFFICES ASSUME NEW i \in 1 .. p, NEW j \in 1 .. p, i < j PROVE c[i - 1] < c[j - 1]
      OBVIOUS
    <3>1. /\ i - 1 \in 0 .. LastCursor(from, to) /\ j - 1 \in 0 .. LastCursor(from, to)
          /\ i - 1 < j - 1
      BY <1>2
    <3>2. QED
      BY <1>1, <3>1, CursorsIncrease
  <2>. HIDE DEF c, p
  <2>2. \A i, j \in 1 .. p : i < j \/ j < i \/ i = j
    BY <1>2
  <2>3. QED
    BY <1>6, <2>1, <2>2
<1>8. \A n \in 1 .. p : IsFiniteSet(F[n]) /\ values[n] = Cardinality(F[n])
  <2>. HIDE DEF B, p
  <2>1. QED
    BY <1>5, RevenueIsMoney
<1>9. \A o \in DOMAIN sales : LET s == Truncated(sales[o].createdAt, unit)
                              IN Truncated(s, unit) = s
  <2>1. \A o \in DOMAIN sales : sales[o].createdAt \in Nat
    BY DEF SalesOK
  <2>2. QED
    BY <1>1, <2>1, TruncatedIsLastStart
<1>10. \A i, j \in 1 .. p : i # j => F[i] \cap F[j] = {}
  <2>. HIDE DEF B, p, c, unit
  <2>1. \A i, j \in 1 .. p : i # j => B(i) \cap B(j) = {}
    BY <1>5, <1>7
  <2>2. \A i, j \in 1 .. p : B(i) \cap B(j) = {} => Money(B(i)) \cap Money(B(j)) = {}
    BY DEF Money
  <2>3. QED
    BY <2>1, <2>2
<1>11. SumOf(values) = Cardinality(UNION {F[n] : n \in 1 .. p})
  <2>1. values = [n \in 1 .. p |-> Cardinality(F[n])]
    <3>. HIDE DEF F, B, p
    <3>1. QED
      BY <1>8
  <2>2. IsFiniteSet(1 .. p)
    <3>1. p \in Int /\ 1 \in Int
      BY <1>2
    <3>2. QED
      BY <3>1, FS_Interval
  <2>3. SumOf([n \in 1 .. p |-> Cardinality(F[n])]) = Cardinality(UNION {F[n] : n \in 1 .. p})
    <3>. DEFINE D == 1 .. p
    <3>1. IsFiniteSet(D) /\ \A n \in D : IsFiniteSet(F[n])
      BY <1>8, <2>2
    <3>2. \A i, j \in D : i # j => F[i] \cap F[j] = {}
      BY <1>10
    <3>. HIDE DEF D, F
    <3>3. SumOf([n \in D |-> Cardinality(F[n])]) = Cardinality(UNION {F[n] : n \in D})
      BY <3>1, <3>2, DisjointSum
    <3>4. QED
      BY <3>3 DEF D
  <2>. HIDE DEF F, p, values
  <2>4. QED
    BY <2>1, <2>3
<1>12. CASE Truncated(from, unit) = from
  <2>1. \A o \in Counted(from, to) : \E n \in 1 .. p : o \in B(n)
    <3>. SUFFICES ASSUME NEW o \in Counted(from, to) PROVE \E n \in 1 .. p : o \in B(n)
      OBVIOUS
    <3>. DEFINE t == sales[o].createdAt
                s == Truncated(t, unit)
    <3>1. t \in Nat /\ from <= t /\ t < to
      BY DEF Counted, SalesOK
    <3>2. s \in Nat /\ s <= t /\ Truncated(s, unit) = s /\ from <= s
      <4>. HIDE DEF t, unit
      <4>1. QED
        BY <1>1, <1>12, <3>1, TruncatedIsLastStart
    <3>3. s \in from .. to - 1
      <4>. HIDE DEF s, t
      <4>1. QED
        BY <3>1, <3>2
    <3>4. PICK n \in 0 .. p - 1 : c[n] = s
      <4>1. \A r \in from .. to - 1 : Truncated(r, unit) = r => \E n \in 0 .. p - 1 : c[n] = r
        <5>. HIDE DEF unit
        <5>1. QED
          BY <1>1, <1>12, PointsOfLoop
      <4>. HIDE DEF c, p, s, unit
      <4>2. QED
        BY <3>2, <3>3, <4>1
    <3>5. n + 1 \in 1 .. p /\ (n + 1) - 1 = n
      <4>. HIDE DEF p
      <4>1. QED
        BY <1>2
    <3>6. c[(n + 1) - 1] = s
      BY <3>4, <3>5
    <3>. HIDE DEF B, c, p, unit
    <3>7. o \in B(n + 1)
      BY <1>5, <3>5, <3>6
    <3>8. QED
      BY <3>5, <3>7
  <2>2. UNION {F[n] : n \in 1 .. p} = Money(Counted(from, to))
    <3>. HIDE DEF B, p
    <3>1. QED
      BY <1>5, <2>1 DEF Money
  <2>3. Counted(from, to) \subseteq OrderIds
    BY DEF Counted, SalesOK
  <2>4. Revenue(Counted(from, to)) = Cardinality(Money(Counted(from, to)))
    BY <2>3, RevenueIsMoney
  <2>. HIDE DEF F, p, values, series, unit
  <2>5. Shown(series) = Revenue(Counted(from, to))
    BY <1>4, <1>11, <2>2, <2>4
  <2>6. QED
    BY <1>12, <2>5 DEF series, unit
<1>13. CASE Truncated(from, unit) # from
  <2>1. \A n \in 1 .. p : B(n) = {}
    <3>. HIDE DEF B, c, p, unit
    <3>1. \A n \in 1 .. p : Truncated(c[n - 1], unit) # c[n - 1]
      BY <1>6, <1>13
    <3>2. \A o \in Counted(from, to) : o \in DOMAIN sales
      BY DEF Counted
    <3>3. QED
      BY <1>5, <1>9, <3>1, <3>2
  <2>2. UNION {F[n] : n \in 1 .. p} = {}
    <3>. HIDE DEF B, p
    <3>1. QED
      BY <2>1 DEF Money
  <2>3. Cardinality({}) = 0
    BY FS_EmptySet
  <2>. HIDE DEF F, p, values, series, unit
  <2>4. Shown(series) = 0
    BY <1>4, <1>11, <2>2, <2>3
  <2>5. QED
    BY <1>13, <2>4 DEF series, unit
<1>14. QED
  BY <1>12, <1>13

(***************************************************************************)
(* From the start of a unit the points of the chart are the starts of the  *)
(* window's units, each once and in order.                                 *)
(***************************************************************************)
LEMMA PointsOfSeries ==
  ASSUME NEW period \in Periods, NEW from \in Nat, NEW to \in Nat,
         Truncated(from, bucketConfig(period)) = from
  PROVE  LET series == buildSeries(period, from, to)
             starts == {t \in from .. to - 1 : Truncated(t, bucketConfig(period)) = t}
         IN /\ {series[n].at : n \in DOMAIN series} = starts
            /\ Len(series) = Cardinality(starts)
            /\ \A n \in 2 .. Len(series) : series[n - 1].at < series[n].at
<1>. DEFINE unit == bucketConfig(period)
            c == Cursors(from, to, unit)
            p == Cardinality(Points(from, to, unit))
            series == buildSeries(period, from, to)
            starts == {t \in from .. to - 1 : Truncated(t, unit) = t}
            f == [n \in 1 .. p |-> c[n - 1]]
<1>1. unit \in Units
  BY BucketUnits
<1>2. /\ p \in Nat /\ 0 .. p - 1 \subseteq 0 .. LastCursor(from, to)
      /\ \A n \in 0 .. p - 1 : c[n] \in from .. to - 1
      /\ \A s \in from .. to - 1 : Truncated(s, unit) = s => \E n \in 0 .. p - 1 : c[n] = s
  BY <1>1, PointsOfLoop
<1>3. DOMAIN series = 1 .. p /\ \A n \in 1 .. p : series[n].at = c[n - 1]
  BY DEF buildSeries, Points
<1>4. Len(series) = p
  <2>. DEFINE S == {series[n] : n \in 1 .. p}
  <2>1. series = [n \in 1 .. p |-> series[n]]
    BY DEF buildSeries, Points
  <2>. HIDE DEF series, p
  <2>2. series \in Seq(S)
    BY <1>2, <2>1
  <2>. HIDE DEF S
  <2>3. Len(series) \in Nat /\ DOMAIN series = 1 .. Len(series)
    BY <2>2
  <2>4. QED
    BY <1>2, <1>3, <2>3
<1>5. \A n \in 0 .. p - 1 : Truncated(c[n], unit) = c[n]
  <2>1. \A n \in 0 .. LastCursor(from, to) :
          (Truncated(c[n], unit) = c[n]) <=> (Truncated(from, unit) = from)
    BY <1>1, CursorsGrow
  <2>. HIDE DEF c, p
  <2>2. QED
    BY <1>2, <2>1
<1>6. \A i, j \in 0 .. p - 1 : i < j => c[i] < c[j]
  <2>1. \A i, j \in 0 .. LastCursor(from, to) : i < j => c[i] < c[j]
    BY <1>1, CursorsIncrease
  <2>. HIDE DEF c, p
  <2>2. QED
    BY <1>2, <2>1
<1>. HIDE DEF c, p, series, unit
<1>7. \A n \in 1 .. p : n - 1 \in 0 .. p - 1 /\ f[n] = c[n - 1]
  BY <1>2
<1>8. \A n \in 0 .. p - 1 : n + 1 \in 1 .. p /\ f[n + 1] = c[n]
  <2>1. \A n \in 0 .. p - 1 : n + 1 \in 1 .. p /\ (n + 1) - 1 = n
    BY <1>2
  <2>2. QED
    BY <1>7, <2>1
<1>. HIDE DEF f
<1>9. \A n \in 1 .. p : f[n] \in starts
  BY <1>2, <1>5, <1>7
<1>10. \A s \in starts : \E n \in 1 .. p : f[n] = s
  BY <1>2, <1>8
<1>11. {series[n].at : n \in DOMAIN series} = starts
  <2>1. {series[n].at : n \in DOMAIN series} = {f[n] : n \in 1 .. p}
    BY <1>3, <1>7
  <2>. HIDE DEF starts
  <2>2. QED
    BY <1>9, <1>10, <2>1
<1>12. \A i, j \in 1 .. p : i < j => f[i] < f[j]
  <2>. SUFFICES ASSUME NEW i \in 1 .. p, NEW j \in 1 .. p, i < j PROVE f[i] < f[j]
    OBVIOUS
  <2>1. i - 1 \in 0 .. p - 1 /\ j - 1 \in 0 .. p - 1 /\ i - 1 < j - 1
    BY <1>2
  <2>2. QED
    BY <1>6, <1>7, <2>1
<1>13. Cardinality(starts) = p
  <2>1. f \in [1 .. p -> starts]
    <3>1. f = [n \in 1 .. p |-> f[n]]
      BY DEF f
    <3>. HIDE DEF starts
    <3>2. QED
      BY <1>9, <3>1
  <2>2. \A i, j \in 1 .. p : f[i] = f[j] => i = j
    <3>1. \A i, j \in 1 .. p : i < j \/ j < i \/ i = j
      BY <1>2
    <3>2. \A n \in 1 .. p : f[n] \in Nat
      BY <1>9
    <3>3. QED
      BY <1>12, <3>1, <3>2
  <2>. HIDE DEF starts
  <2>3. f \in Injection(1 .. p, starts)
    BY <2>1, <2>2 DEF Injection, IsInjective
  <2>4. f \in Surjection(1 .. p, starts)
    BY <1>10, <2>1 DEF Surjection
  <2>5. ExistsBijection(1 .. p, starts)
    BY <2>3, <2>4 DEF ExistsBijection, Bijection
  <2>6. QED
    BY <1>2, <2>5, FS_CountingElements
<1>14. \A n \in 2 .. p : series[n - 1].at < series[n].at
  <2>. SUFFICES ASSUME NEW n \in 2 .. p PROVE series[n - 1].at < series[n].at
    OBVIOUS
  <2>1. n - 1 \in 1 .. p /\ n \in 1 .. p /\ n - 1 < n
    BY <1>2
  <2>2. series[n - 1].at = f[n - 1] /\ series[n].at = f[n]
    BY <1>3, <1>7, <2>1
  <2>3. QED
    BY <1>12, <2>1, <2>2
<1>15. QED
  BY <1>4, <1>11, <1>13, <1>14 DEF series, unit

-------------------------------------------------------------------------------
(* The reports                                                             *)

\* What a report in progress, and the chart made from it, is asked for.
WindowOK == report.kind \in {"aggregated", "overview"} =>
  report.period \in Periods /\ report.from \in Nat /\ report.to \in Nat

\* A total is right until an order changes.
TotalKnown == report.kind = "aggregated" /\ changed = {} =>
  report.total = Revenue(Counted(report.from, report.to))

\* The first count of the Z report misses the orders created since.
CountKnown == report.kind = "counted" =>
  /\ created \subseteq DOMAIN sales
  /\ report.all = Cardinality(DOMAIN sales) - Cardinality(created)

ReportInv == SalesOK /\ WindowOK /\ TotalKnown /\ CountKnown
             /\ ChartMatchesTotal /\ OnePointPerSlot

(***************************************************************************)
(* The reports start without orders and without a report.                  *)
(***************************************************************************)
LEMMA ReportInitially == ReportInit => ReportInv
BY DEF ReportInit, NoReport, ReportInv, SalesOK, WindowOK, TotalKnown, CountKnown,
       ChartMatchesTotal, OnePointPerSlot

(***************************************************************************)
(* Every step of a report and every change of an order keeps ReportInv: a  *)
(* change of an order ends what is known of a total, a new order counts in *)
(* both terms of CountKnown, and the two lemmas above tell of the chart.   *)
(***************************************************************************)
LEMMA ReportSteps ==
  ASSUME ReportsAssumption, ReportInv, ReportNext
  PROVE  ReportInv'
<1>. USE DEF ReportInv
<1>1. CASE AggregateOrders
  <2>1. PICK period \in Periods : \E w \in resolveRange(period) :
          /\ report' = [kind |-> "aggregated", period |-> period, from |-> w[1],
                        to |-> w[2], total |-> Revenue(Counted(w[1], w[2]))]
          /\ changed' = {} /\ created' = {}
          /\ UNCHANGED sales
    BY <1>1, Zenon DEF AggregateOrders
  <2>2. PICK w \in resolveRange(period) :
          /\ report' = [kind |-> "aggregated", period |-> period, from |-> w[1],
                        to |-> w[2], total |-> Revenue(Counted(w[1], w[2]))]
          /\ changed' = {} /\ created' = {}
          /\ UNCHANGED sales
    BY <2>1, Zenon
  <2>3. w[1] \in Nat /\ w[2] \in Nat
    BY WindowsType
  <2>4. /\ report'.kind = "aggregated" /\ report'.period = period
        /\ report'.from = w[1] /\ report'.to = w[2]
        /\ report'.total = Revenue(Counted(w[1], w[2]))
    BY <2>2
  <2>5. TotalKnown'
    <3>1. Revenue(Counted(w[1], w[2]))' = Revenue(Counted(w[1], w[2]))
      BY <2>2 DEF Revenue, Counted
    <3>2. QED
      BY <2>4, <3>1 DEF TotalKnown
  <2>6. SalesOK' /\ WindowOK'
    BY <2>2, <2>3, <2>4 DEF SalesOK, WindowOK
  <2>7. CountKnown' /\ ChartMatchesTotal' /\ OnePointPerSlot'
    BY <2>4 DEF CountKnown, ChartMatchesTotal, OnePointPerSlot
  <2>8. QED
    BY <2>5, <2>6, <2>7
<1>2. CASE BuildSeries
  <2>. DEFINE series == buildSeries(report.period, report.from, report.to)
  <2>1. /\ report.kind = "aggregated"
        /\ report' = [kind |-> "overview", period |-> report.period, from |-> report.from,
                      to |-> report.to, total |-> report.total, series |-> series]
        /\ UNCHANGED <<sales, changed, created>>
    BY <1>2 DEF BuildSeries
  <2>2. report.period \in Periods /\ report.from \in Nat /\ report.to \in Nat
    BY <2>1 DEF WindowOK
  <2>. HIDE DEF series
  <2>3. /\ report'.kind = "overview" /\ report'.period = report.period
        /\ report'.from = report.from /\ report'.to = report.to
        /\ report'.total = report.total /\ report'.series = series
    BY <2>1
  <2>4. SalesOK' /\ WindowOK' /\ TotalKnown' /\ CountKnown'
    BY <2>1, <2>2, <2>3 DEF SalesOK, WindowOK, TotalKnown, CountKnown
  <2>5. ChartMatchesTotal'
    <3>. SUFFICES ASSUME changed' = {}
                  PROVE  Shown(series) = IF Aligned(report) THEN report.total ELSE 0
      BY <2>3 DEF ChartMatchesTotal, Aligned
    <3>1. report.total = Revenue(Counted(report.from, report.to))
      BY <2>1 DEF TotalKnown
    <3>2. QED
      BY <2>2, <3>1, ChartOfSeries DEF series, Aligned
  <2>6. OnePointPerSlot'
    <3>. SUFFICES ASSUME Aligned(report)
                  PROVE  /\ {series[n].at : n \in DOMAIN series} = Starts(report)
                         /\ Len(series) = Cardinality(Starts(report))
                         /\ \A n \in 2 .. Len(series) : series[n - 1].at < series[n].at
      BY <2>3 DEF OnePointPerSlot, Aligned, Starts
    <3>1. QED
      BY <2>2, PointsOfSeries DEF Aligned, Starts, series
  <2>7. QED
    BY <2>4, <2>5, <2>6
<1>3. CASE CountOrders
  <2>1. /\ report'.kind = "counted" /\ report'.all = Cardinality(DOMAIN sales)
        /\ created' = {} /\ sales' = sales
    BY <1>3 DEF CountOrders
  <2>2. CountKnown'
    <3>1. Cardinality({}) = 0 /\ Cardinality(DOMAIN sales) \in Nat
      BY FS_EmptySet, FS_Subset, FS_CardinalityType DEF ReportsAssumption, SalesOK
    <3>2. QED
      BY <2>1, <3>1 DEF CountKnown
  <2>3. QED
    BY <2>1, <2>2
       DEF SalesOK, WindowOK, TotalKnown, ChartMatchesTotal, OnePointPerSlot
<1>4. CASE CountCancelled
  <2>1. report'.kind = "session" /\ sales' = sales
    BY <1>4 DEF CountCancelled
  <2>2. QED
    BY <2>1 DEF SalesOK, WindowOK, TotalKnown, CountKnown, ChartMatchesTotal, OnePointPerSlot
<1>5. CASE Create
  <2>1. PICK o \in OrderIds : \E t \in Instants :
          /\ o \notin DOMAIN sales
          /\ sales' = [q \in DOMAIN sales \cup {o} |->
                         IF q = o THEN [createdAt |-> t, cancelled |-> FALSE] ELSE sales[q]]
          /\ changed' = changed \cup {o}
          /\ created' = created \cup {o}
          /\ UNCHANGED report
    BY <1>5, Zenon DEF Create
  <2>2. PICK t \in Instants :
          /\ o \notin DOMAIN sales
          /\ sales' = [q \in DOMAIN sales \cup {o} |->
                         IF q = o THEN [createdAt |-> t, cancelled |-> FALSE] ELSE sales[q]]
          /\ changed' = changed \cup {o}
          /\ created' = created \cup {o}
          /\ UNCHANGED report
    BY <2>1, Zenon
  <2>3. DOMAIN sales' = DOMAIN sales \cup {o} /\ changed' # {} /\ report' = report
    BY <2>2
  <2>4. SalesOK'
    <3>1. t \in Nat
      BY DEF ReportsAssumption
    <3>2. QED
      BY <2>2, <2>3, <3>1 DEF SalesOK
  <2>5. CountKnown'
    <3>. SUFFICES ASSUME report.kind = "counted"
                  PROVE  /\ created' \subseteq DOMAIN sales'
                         /\ report.all = Cardinality(DOMAIN sales') - Cardinality(created')
      BY <2>3 DEF CountKnown
    <3>1. created \subseteq DOMAIN sales /\ o \notin created /\ o \notin DOMAIN sales
      BY <2>2 DEF CountKnown
    <3>2. IsFiniteSet(DOMAIN sales) /\ IsFiniteSet(created)
      BY <3>1, FS_Subset DEF ReportsAssumption, SalesOK
    <3>3. /\ Cardinality(DOMAIN sales \cup {o}) = Cardinality(DOMAIN sales) + 1
          /\ Cardinality(created \cup {o}) = Cardinality(created) + 1
      BY <3>1, <3>2, FS_AddElement
    <3>4. Cardinality(DOMAIN sales) \in Nat /\ Cardinality(created) \in Nat
      BY <3>2, FS_CardinalityType
    <3>5. QED
      BY <2>2, <2>3, <3>1, <3>3, <3>4 DEF CountKnown
  <2>6. WindowOK' /\ OnePointPerSlot'
    BY <2>3 DEF WindowOK, OnePointPerSlot, Aligned, Starts
  <2>7. TotalKnown' /\ ChartMatchesTotal'
    BY <2>3 DEF TotalKnown, ChartMatchesTotal
  <2>8. QED
    BY <2>4, <2>5, <2>6, <2>7
<1>6. CASE CancelOrReopen
  <2>1. PICK o \in DOMAIN sales :
          /\ sales' = [sales EXCEPT ![o].cancelled = ~ @]
          /\ changed' = changed \cup {o}
          /\ UNCHANGED <<report, created>>
    BY <1>6 DEF CancelOrReopen
  <2>2. DOMAIN sales' = DOMAIN sales /\ changed' # {} /\ report' = report /\ created' = created
    BY <2>1
  <2>3. SalesOK'
    BY <2>1, <2>2 DEF SalesOK
  <2>4. WindowOK' /\ OnePointPerSlot' /\ CountKnown'
    BY <2>2 DEF WindowOK, OnePointPerSlot, CountKnown, Aligned, Starts
  <2>5. TotalKnown' /\ ChartMatchesTotal'
    BY <2>2 DEF TotalKnown, ChartMatchesTotal
  <2>6. QED
    BY <2>3, <2>4, <2>5
<1>7. QED
  BY <1>1, <1>2, <1>3, <1>4, <1>5, <1>6 DEF ReportNext

(***************************************************************************)
(* ReportInv is an invariant of the reports.                               *)
(***************************************************************************)
LEMMA ReportInvariant == ASSUME ReportsAssumption PROVE ReportSpec => []ReportInv
<1>1. ReportInv /\ UNCHANGED reportVars => ReportInv'
  BY DEF reportVars, ReportInv, SalesOK, WindowOK, TotalKnown, CountKnown,
         ChartMatchesTotal, OnePointPerSlot, Aligned, Starts, Revenue, Counted
<1>2. QED
  BY ReportInitially, ReportSteps, <1>1, PTL DEF ReportSpec

(***************************************************************************)
(* overview: without a change between the two statements the chart adds up *)
(* to the total it is headed with if the window begins with a unit of the  *)
(* chart, and to nothing if it does not.                                   *)
(***************************************************************************)
THEOREM TotalIsShown == ReportSpec => []ChartMatchesTotal
BY ReportInvariant, ReportsAssumption, PTL DEF ReportInv

(***************************************************************************)
(* overview: from an aligned start the chart has one point for each hour,  *)
(* day or month of the window, whatever was sold in it.                    *)
(***************************************************************************)
THEOREM EverySlotHasItsPoint == ReportSpec => []OnePointPerSlot
BY ReportInvariant, ReportsAssumption, PTL DEF ReportInv

(***************************************************************************)
(* The Z report: what it tells and the orders created between its counts   *)
(* make up the orders that were not cancelled at its end.                  *)
(***************************************************************************)
THEOREM ReportMissesNewOrders == ReportSpec => OrdersReported
<1>1. ASSUME ReportInv, [ReportNext]_reportVars,
             report.kind = "counted", report'.kind = "session"
      PROVE  report'.completed + Cardinality(created) = Cardinality(DOMAIN sales \ Cancelled)
  <2>1. CountCancelled
    <3>1. ~ AggregateOrders /\ ~ CountOrders
      BY <1>1 DEF AggregateOrders, CountOrders, Ready
    <3>2. ~ BuildSeries /\ ~ Create /\ ~ CancelOrReopen /\ ~ UNCHANGED reportVars
      BY <1>1 DEF BuildSeries, Create, CancelOrReopen, reportVars
    <3>3. QED
      BY <1>1, <3>1, <3>2 DEF ReportNext
  <2>2. /\ created \subseteq DOMAIN sales
        /\ report.all = Cardinality(DOMAIN sales) - Cardinality(created)
        /\ report'.completed = report.all - Cardinality(Cancelled)
    BY <1>1, <2>1 DEF ReportInv, CountKnown, CountCancelled, Completed
  <2>3. IsFiniteSet(DOMAIN sales) /\ Cancelled \subseteq DOMAIN sales
    BY <1>1, ReportsAssumption, FS_Subset
       DEF ReportsAssumption, ReportInv, SalesOK, Cancelled
  <2>4. IsFiniteSet(Cancelled) /\ IsFiniteSet(created)
    BY <2>2, <2>3, FS_Subset
  <2>. DEFINE D == DOMAIN sales
  <2>5. Cardinality(D \ Cancelled) = Cardinality(D) - Cardinality(Cancelled)
    <3>1. D \cap Cancelled = Cancelled
      BY <2>3
    <3>2. Cardinality(D \ Cancelled) = Cardinality(D) - Cardinality(D \cap Cancelled)
      <4>. HIDE DEF D
      <4>1. IsFiniteSet(D)
        BY <2>3 DEF D
      <4>2. QED
        BY <4>1, FS_Difference
    <3>3. QED
      BY <3>1, <3>2
  <2>6. Cardinality(D) \in Nat /\ Cardinality(Cancelled) \in Nat /\ Cardinality(created) \in Nat
    BY <2>3, <2>4, FS_CardinalityType
  <2>7. QED
    BY <2>2, <2>5, <2>6
<1>2. QED
  BY ReportInvariant, ReportsAssumption, <1>1, PTL DEF ReportSpec, OrdersReported
=================================================================================
