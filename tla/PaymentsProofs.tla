----------------------------- MODULE PaymentsProofs -----------------------------
(***************************************************************************)
(* Theorems about Payments, for any number of handlers, orders and events: *)
(* a cancellation that was announced sticks, and an order that was charged *)
(* is PAID, or REFUNDED if it is cancelled, unless one of the named things *)
(* happened to it; and only a crash keeps a cancellation from payments-ms. *)
(*                                                                         *)
(* The argument rests on FreshCopies: as long as nobody has committed the  *)
(* order since a handler read it, the copy in memory is the current row    *)
(* with the handler's edit.  Whoever saves an older copy puts the order    *)
(* into revived.                                                           *)
(***************************************************************************)
EXTENDS Payments, TLAPS

Busy(p) == pc[p] \in {"save", "write"}

CallOK == call \in [Procs -> Calls \cup {NoCall}]

\* How a fresh copy differs from the row it was read from.
EventCopy(o, c) ==
  /\ c.copy.status = orders[o].status /\ c.copy.payment \in Outcomes
  /\ \/ o \in misled
     \/ /\ orders[o].status # "CANCELLED"
        /\ orders[o].payment = "PAID" => c.copy.payment = "PAID"
CancelCopy(o, c) ==
  /\ c.copy.status = "CANCELLED" /\ orders[o].status # "CANCELLED"
  /\ c.copy.payment = PaymentOfCancelled(orders[o].payment)
UpdateCopy(o, c) ==
  /\ c.copy.payment = orders[o].payment
  /\ \/ o \in revived
     \/ c.copy.status = orders[o].status
     \/ orders[o].status # "CANCELLED" /\ c.copy.status # "CANCELLED"
CopyOf(o, c) ==
  /\ c.kind = "event" => EventCopy(o, c)
  /\ c.kind = "cancel" => CancelCopy(o, c)
  /\ c.kind = "update" => UpdateCopy(o, c)

FreshCopies == \A p \in Procs : Busy(p) =>
  LET c == call[p] IN
  /\ c.kind = "cancel" => c.copy.status = "CANCELLED"
  /\ c.fresh => CopyOf(c.order, c)
  /\ c.fresh /\ pc[p] = "write" => c.loaded = orders[c.order]

\* The handlers that publish, and what has been published.
StaysCancelled(o) == orders[o].status = "CANCELLED" \/ o \in revived
Sticks ==
  /\ \A p \in Procs : pc[p] = "emit" => StaysCancelled(call[p].order)
  /\ \A o \in announced : StaysCancelled(o)

\* A charge is on its way, or it has been applied.
PaidPending(o) == \E e \in events : e.order = o /\ e.outcome = "PAID"
PaidInFlight(o) == \E p \in Procs :
  Busy(p) /\ call[p].order = o /\ call[p].kind = "event" /\ call[p].copy.payment = "PAID"
Applied(o) ==
  orders[o].payment = IF orders[o].status = "CANCELLED" THEN "REFUNDED" ELSE "PAID"
Accounted == \A o \in charged :
  o \in misled \cup revived \/ PaidPending(o) \/ PaidInFlight(o) \/ Applied(o)

IInv == TypeOK /\ CallOK /\ FreshCopies /\ Sticks /\ Accounted

USE PaymentsAssumption

-------------------------------------------------------------------------------
(* Types *)

(***************************************************************************)
(* A service that has done nothing yet satisfies the invariant.            *)
(***************************************************************************)
LEMMA InitInv == Init => IInv
<1> SUFFICES ASSUME Init PROVE IInv
  OBVIOUS
<1>1. TypeOK /\ CallOK
  BY DEF Init, TypeOK, CallOK, Columns, Status, PaymentStatus
<1>2. FreshCopies /\ Sticks /\ Accounted
  BY DEF Init, FreshCopies, Busy, Sticks, Accounted
<1>3. QED
  BY <1>1, <1>2 DEF IInv

(***************************************************************************)
(* What IInv says of one handler in flight.                                *)
(***************************************************************************)
LEMMA InFlightTypes ==
  ASSUME IInv, NEW p \in Procs, pc[p] # "idle"
  PROVE  /\ call[p] \in Calls
         /\ call[p].order \in Orders
         /\ call[p].kind \in {"update", "cancel", "event"}
         /\ call[p].copy \in Columns /\ call[p].loaded \in Columns
         /\ orders[call[p].order] \in Columns
<1>1. call[p] \in Calls
  BY DEF IInv, TypeOK
<1>2. QED
  BY <1>1 DEF Calls, IInv, TypeOK

\* A handler begins with a copy that nobody has touched yet.
Started(p, c) ==
  /\ Goto(p, "idle", "save")
  /\ call' = [call EXCEPT ![p] = c]
  /\ c \in Calls /\ c.fresh

(***************************************************************************)
(* Beginning keeps the types.                                              *)
(***************************************************************************)
LEMMA StartedTypes ==
  ASSUME IInv, NEW p \in Procs, NEW c, Started(p, c)
  PROVE  /\ pc' \in [Procs -> {"idle", "save", "write", "emit"}]
         /\ call' \in [Procs -> Calls \cup {NoCall}]
         /\ \A q \in Procs : call'[q] \in IF pc'[q] = "idle" THEN {NoCall} ELSE Calls
         /\ \A q \in Procs : pc'[q] = "emit" => call'[q].copy.status = "CANCELLED"
         /\ \A q \in Procs : q # p => pc'[q] = pc[q] /\ call'[q] = call[q]
         /\ pc[p] = "idle" /\ pc'[p] = "save" /\ call'[p] = c
<1>1. call' = [call EXCEPT ![p] = c] /\ pc' = [pc EXCEPT ![p] = "save"] /\ c \in Calls
  BY DEF Started, Goto
<1>2. call \in [Procs -> Calls \cup {NoCall}] /\ pc \in [Procs -> {"idle", "save", "write", "emit"}]
  BY DEF IInv, TypeOK, CallOK
<1>3. \A q \in Procs : q # p => pc'[q] = pc[q] /\ call'[q] = call[q]
  BY <1>1, <1>2
<1>4. pc[p] = "idle" /\ pc'[p] = "save" /\ call'[p] = c
  BY <1>1, <1>2 DEF Started, Goto
<1>5. \A q \in Procs : call'[q] \in IF pc'[q] = "idle" THEN {NoCall} ELSE Calls
  BY <1>1, <1>3, <1>4 DEF IInv, TypeOK
<1>6. \A q \in Procs : pc'[q] = "emit" => call'[q].copy.status = "CANCELLED"
  BY <1>3, <1>4 DEF IInv, TypeOK
<1>7. QED
  BY <1>1, <1>2, <1>3, <1>4, <1>5, <1>6
-------------------------------------------------------------------------------
(* The three handlers start *)

(***************************************************************************)
(* A handler that starts on a copy which differs from the row as CopyOf    *)
(* allows keeps the invariant, if what the histories say stays true.       *)
(***************************************************************************)
LEMMA StartInv ==
  ASSUME IInv, NEW p \in Procs, NEW c, Started(p, c),
         UNCHANGED <<orders, published, announced, charged, unannounced>>,
         events' \subseteq events,
         misled' \in SUBSET Orders, misled \subseteq misled',
         revived' \in SUBSET Orders, revived \subseteq revived',
         c.kind = "cancel" => c.copy.status = "CANCELLED",
         CopyOf(c.order, c)',
         \A e \in events \ events' :
           e.outcome = "PAID" => /\ c.order = e.order
                                 /\ c.kind = "event" /\ c.copy.payment = "PAID"
  PROVE  IInv'
<1>1. /\ \A q \in Procs : q # p => pc'[q] = pc[q] /\ call'[q] = call[q]
      /\ pc[p] = "idle" /\ pc'[p] = "save" /\ call'[p] = c
  BY StartedTypes
<1>2. c \in Calls /\ c.fresh
  BY DEF Started
<1>3. TypeOK' /\ CallOK'
  <2>1. TypeOK
    BY DEF IInv
  <2>2. /\ pc' \in [Procs -> {"idle", "save", "write", "emit"}]
        /\ call' \in [Procs -> Calls \cup {NoCall}]
        /\ \A q \in Procs : call'[q] \in IF pc'[q] = "idle" THEN {NoCall} ELSE Calls
        /\ \A q \in Procs : pc'[q] = "emit" => call'[q].copy.status = "CANCELLED"
    BY StartedTypes
  <2>3. QED
    BY <2>1, <2>2 DEF TypeOK, CallOK
<1>4. FreshCopies'
  <2> SUFFICES ASSUME NEW q \in Procs, Busy(q)'
               PROVE  /\ call'[q].kind = "cancel" => call'[q].copy.status = "CANCELLED"
                      /\ call'[q].fresh => CopyOf(call[q].order, call[q])'
                      /\ call'[q].fresh /\ pc'[q] = "write" => call'[q].loaded = orders'[call'[q].order]
    BY DEF FreshCopies
  <2>1. CASE q = p
    BY <1>1, <2>1
  <2>2. CASE q # p
    <3>1. Busy(q) /\ pc'[q] = pc[q] /\ call'[q] = call[q]
      BY <1>1, <2>2 DEF Busy
    <3>2. /\ call[q].kind = "cancel" => call[q].copy.status = "CANCELLED"
          /\ call[q].fresh => CopyOf(call[q].order, call[q])
          /\ call[q].fresh /\ pc[q] = "write" => call[q].loaded = orders[call[q].order]
      BY <3>1 DEF IInv, FreshCopies
    <3>3. call[q].fresh => CopyOf(call[q].order, call[q])'
      BY <3>1, <3>2 DEF CopyOf, EventCopy, CancelCopy, UpdateCopy, PaymentOfCancelled
    <3>4. QED
      BY <3>1, <3>2, <3>3
  <2>3. QED
    BY <2>1, <2>2
<1>5. Sticks'
  BY <1>1 DEF IInv, Sticks, StaysCancelled
<1>6. Accounted'
  <2> SUFFICES ASSUME NEW r \in charged', r \notin misled' \cup revived', ~ Applied(r)'
               PROVE  PaidPending(r)' \/ PaidInFlight(r)'
    BY DEF Accounted
  <2>1. PaidPending(r) \/ PaidInFlight(r)
    BY DEF IInv, Accounted, Applied
  <2>2. CASE PaidPending(r)
    <3>1. PICK e \in events : e.order = r /\ e.outcome = "PAID"
      BY <2>2 DEF PaidPending
    <3>2. CASE e \in events'
      BY <3>1, <3>2 DEF PaidPending
    <3>3. CASE e \notin events'
      <4>1. c.order = r /\ c.kind = "event" /\ c.copy.payment = "PAID"
        BY <3>1, <3>3
      <4>2. Busy(p)' /\ call'[p].order = r /\ call'[p].kind = "event" /\ call'[p].copy.payment = "PAID"
        BY <1>1, <4>1 DEF Busy
      <4>3. QED
        BY <4>2 DEF PaidInFlight
    <3>4. QED
      BY <3>2, <3>3
  <2>3. CASE PaidInFlight(r)
    <3>1. PICK q \in Procs : /\ Busy(q) /\ call[q].order = r /\ call[q].kind = "event"
                             /\ call[q].copy.payment = "PAID"
      BY <2>3 DEF PaidInFlight
    <3>2. q # p
      BY <1>1, <3>1 DEF Busy
    <3>3. QED
      BY <1>1, <3>1, <3>2 DEF PaidInFlight, Busy
  <2>4. QED
    BY <2>1, <2>2, <2>3
<1>7. QED
  BY <1>3, <1>4, <1>5, <1>6 DEF IInv

(***************************************************************************)
(* updatePaymentStatus takes an event and reads its order.                 *)
(***************************************************************************)
LEMMA UpdatePaymentStatusInv ==
  ASSUME IInv, NEW p \in Procs, UpdatePaymentStatus(p)
  PROVE  IInv'
<1>1. PICK e \in events :
        /\ Goto(p, "idle", "save")
        /\ events' = events \ {e}
        /\ Hold(p, e.order, "event", [orders[e.order] EXCEPT !.payment = e.outcome])
        /\ misled' = AddIf(\/ orders[e.order].status = "CANCELLED"
                           \/ orders[e.order].payment = "PAID" /\ e.outcome = "FAILED",
                           e.order, misled)
        /\ UNCHANGED <<orders, published, announced, charged, revived, unannounced>>
  BY DEF UpdatePaymentStatus
<1>2. PICK copy : copy = [orders[e.order] EXCEPT !.payment = e.outcome]
  OBVIOUS
<1>3. PICK c : c = [order |-> e.order, kind |-> "event", fresh |-> TRUE,
                    copy |-> copy, loaded |-> copy]
  OBVIOUS
<1>4. e.order \in Orders /\ e.outcome \in Outcomes /\ orders[e.order] \in Columns
  BY DEF IInv, TypeOK
<1>5. copy \in Columns /\ copy.status = orders[e.order].status /\ copy.payment = e.outcome
  BY <1>2, <1>4 DEF Columns, PaymentStatus, Outcomes
<1>6. misled \in SUBSET Orders /\ revived \in SUBSET Orders
  BY DEF IInv, TypeOK
<1>7. /\ misled \subseteq misled' /\ misled' \in SUBSET Orders
      /\ \/ e.order \in misled'
         \/ /\ orders[e.order].status # "CANCELLED"
            /\ orders[e.order].payment = "PAID" => e.outcome # "FAILED"
  BY <1>1, <1>4, <1>6 DEF AddIf
<1>8. CopyOf(c.order, c)'
  BY <1>1, <1>3, <1>4, <1>5, <1>7 DEF CopyOf, EventCopy, Outcomes
<1>9. Started(p, c)
  BY <1>1, <1>2, <1>3, <1>4, <1>5 DEF Hold, Started, Calls
<1>10. QED
  BY <1>1, <1>3, <1>5, <1>6, <1>7, <1>8, <1>9, StartInv

(***************************************************************************)
(* update with a status.                                                   *)
(***************************************************************************)
LEMMA UpdateInv ==
  ASSUME IInv, NEW p \in Procs, Update(p)
  PROVE  IInv'
<1>1. PICK o \in Orders, to \in Status :
        /\ to \in AllowedTransitions[orders[o].status]
        /\ Goto(p, "idle", "save")
        /\ Hold(p, o, IF to = "CANCELLED" THEN "cancel" ELSE "update",
                [status |-> to,
                 payment |-> IF to = "CANCELLED" THEN PaymentOfCancelled(orders[o].payment)
                                                 ELSE orders[o].payment])
        /\ revived' = AddIf(orders[o].status = "CANCELLED", o, revived)
        /\ UNCHANGED <<orders, events, published, announced, charged, misled, unannounced>>
  BY DEF Update
<1>2. PICK copy : copy = [status |-> to,
                          payment |-> IF to = "CANCELLED" THEN PaymentOfCancelled(orders[o].payment)
                                                          ELSE orders[o].payment]
  OBVIOUS
<1>3. PICK c : c = [order |-> o, kind |-> IF to = "CANCELLED" THEN "cancel" ELSE "update",
                    fresh |-> TRUE, copy |-> copy, loaded |-> copy]
  OBVIOUS
<1>4. orders[o] \in Columns /\ misled \in SUBSET Orders /\ revived \in SUBSET Orders
  BY DEF IInv, TypeOK
<1>5. copy \in Columns
  BY <1>2, <1>4 DEF Columns, PaymentStatus, PaymentOfCancelled
<1>6. /\ revived \subseteq revived' /\ revived' \in SUBSET Orders
      /\ orders[o].status = "CANCELLED" => o \in revived'
  BY <1>1, <1>4 DEF AddIf
<1>7. to = "CANCELLED" => orders[o].status # "CANCELLED"
  BY <1>1, <1>4 DEF AllowedTransitions, Columns, Status
<1>8. CopyOf(c.order, c)'
  BY <1>1, <1>2, <1>3, <1>4, <1>6, <1>7 DEF CopyOf, CancelCopy, UpdateCopy, PaymentOfCancelled
<1>9. Started(p, c)
  BY <1>1, <1>2, <1>3, <1>4, <1>5 DEF Hold, Started, Calls
<1>10. c.kind = "cancel" => c.copy.status = "CANCELLED"
  BY <1>2, <1>3
<1>11. QED
  BY <1>1, <1>4, <1>6, <1>8, <1>9, <1>10, StartInv

(***************************************************************************)
(* update without a status, and the handlers that save an order unedited.  *)
(***************************************************************************)
LEMMA SaveUneditedInv ==
  ASSUME IInv, NEW p \in Procs, SaveUnedited(p)
  PROVE  IInv'
<1>1. PICK o \in Orders :
        /\ Goto(p, "idle", "save") /\ Hold(p, o, "update", orders[o])
        /\ UNCHANGED <<orders, events, published, announced, charged, misled, revived, unannounced>>
  BY DEF SaveUnedited, history
<1>2. PICK c : c = [order |-> o, kind |-> "update", fresh |-> TRUE,
                    copy |-> orders[o], loaded |-> orders[o]]
  OBVIOUS
<1>3. orders[o] \in Columns /\ misled \in SUBSET Orders /\ revived \in SUBSET Orders
  BY DEF IInv, TypeOK
<1>4. CopyOf(c.order, c)'
  BY <1>1, <1>2 DEF CopyOf, UpdateCopy
<1>5. Started(p, c)
  BY <1>1, <1>2, <1>3 DEF Hold, Started, Calls
<1>6. QED
  BY <1>1, <1>2, <1>3, <1>4, <1>5, StartInv
-------------------------------------------------------------------------------
(* payments-ms and the broker *)

(***************************************************************************)
(* payments-ms publishes an event.                                         *)
(***************************************************************************)
LEMMA PublishInv == IInv /\ Publish => IInv'
<1> SUFFICES ASSUME IInv, Publish PROVE IInv'
  OBVIOUS
<1>1. PICK o \in Orders, outcome \in Outcomes :
        /\ published < MaxEvents /\ published' = published + 1
        /\ events' = events \cup {[id |-> published, order |-> o, outcome |-> outcome]}
        /\ charged' = AddIf(outcome = "PAID", o, charged)
        /\ UNCHANGED <<orders, pc, call, announced, misled, revived, unannounced>>
  BY DEF Publish
<1>2. TypeOK
  BY DEF IInv
<1>3. published' \in 0 .. MaxEvents
  BY <1>1, <1>2 DEF TypeOK
<1>4. charged' \subseteq charged \cup {o} /\ charged \subseteq Orders
  BY <1>1, <1>2 DEF TypeOK, AddIf
<1>5. TypeOK' /\ CallOK'
  <2>1. \A e \in events' : e.order \in Orders /\ e.outcome \in Outcomes
    BY <1>1, <1>2 DEF TypeOK
  <2>2. charged' \subseteq Orders
    BY <1>4
  <2>3. QED
    BY <1>1, <1>2, <1>3, <2>1, <2>2 DEF TypeOK, CallOK, IInv
<1>6. FreshCopies'
  BY <1>1 DEF IInv, FreshCopies, Busy, CopyOf, EventCopy, CancelCopy, UpdateCopy
<1>7. Sticks'
  BY <1>1 DEF IInv, Sticks, StaysCancelled
<1>8. Accounted'
  <2> SUFFICES ASSUME NEW r \in charged'
               PROVE  \/ r \in misled' \cup revived' \/ PaidPending(r)'
                      \/ PaidInFlight(r)' \/ Applied(r)'
    BY DEF Accounted
  <2>1. CASE r \in charged
    <3>1. \/ r \in misled \cup revived \/ PaidPending(r)
          \/ PaidInFlight(r) \/ Applied(r)
      BY <2>1 DEF IInv, Accounted
    <3>2. QED
      BY <1>1, <3>1 DEF PaidPending, PaidInFlight, Applied, Busy
  <2>2. CASE r \notin charged
    <3>1. r = o /\ outcome = "PAID"
      BY <1>1, <2>2 DEF AddIf
    <3>2. PICK e : e = [id |-> published, order |-> o, outcome |-> outcome]
      OBVIOUS
    <3>3. e \in events' /\ e.order = r /\ e.outcome = "PAID"
      BY <1>1, <3>1, <3>2
    <3>4. QED
      BY <3>3 DEF PaidPending
  <2>3. QED
    BY <2>1, <2>2
<1>9. QED
  BY <1>5, <1>6, <1>7, <1>8 DEF IInv

(***************************************************************************)
(* The broker hands an event to an instance that stops.                    *)
(***************************************************************************)
LEMMA LoseEventInv == IInv /\ LoseEvent => IInv'
<1> SUFFICES ASSUME IInv, LoseEvent PROVE IInv'
  OBVIOUS
<1>1. PICK e \in events :
        /\ events' = events \ {e} /\ misled' = misled \cup {e.order}
        /\ UNCHANGED <<orders, published, pc, call, announced, charged, revived, unannounced>>
  BY DEF LoseEvent
<1>2. TypeOK
  BY DEF IInv
<1>3. misled' \subseteq Orders
  BY <1>1, <1>2 DEF TypeOK
<1>4. TypeOK' /\ CallOK'
  BY <1>1, <1>2, <1>3 DEF TypeOK, CallOK, IInv
<1>5. FreshCopies'
  BY <1>1 DEF IInv, FreshCopies, Busy, CopyOf, EventCopy, CancelCopy, UpdateCopy
<1>6. Sticks'
  BY <1>1 DEF IInv, Sticks, StaysCancelled
<1>7. Accounted'
  BY <1>1 DEF IInv, Accounted, PaidPending, PaidInFlight, Applied, Busy
<1>8. QED
  BY <1>4, <1>5, <1>6, <1>7 DEF IInv
-------------------------------------------------------------------------------
(* The handlers go on *)

(***************************************************************************)
(* save finds the row as it is now, or as a fresh copy was read.           *)
(***************************************************************************)
LEMMA LoadRowInv ==
  ASSUME IInv, NEW p \in Procs, LoadRow(p)
  PROVE  IInv'
<1>1. /\ pc[p] = "save" /\ pc' = [pc EXCEPT ![p] = "write"]
      /\ call' = [call EXCEPT ![p].loaded = orders[call[p].order]]
      /\ UNCHANGED <<orders, events, published, announced, charged, misled, revived, unannounced>>
  BY DEF LoadRow, Goto, history
<1>2. TypeOK /\ CallOK
  BY DEF IInv
<1>3. call[p] \in Calls /\ orders[call[p].order] \in Columns
  BY <1>1, InFlightTypes
<1>4. /\ \A q \in Procs : q # p => pc'[q] = pc[q] /\ call'[q] = call[q]
      /\ pc'[p] = "write" /\ call'[p] = [call[p] EXCEPT !.loaded = orders[call[p].order]]
  BY <1>1, <1>2 DEF TypeOK, CallOK
<1>5. /\ call'[p] \in Calls /\ call'[p].loaded = orders[call[p].order]
      /\ call'[p].order = call[p].order /\ call'[p].kind = call[p].kind
      /\ call'[p].copy = call[p].copy /\ call'[p].fresh = call[p].fresh
  BY <1>3, <1>4 DEF Calls
<1>6. TypeOK' /\ CallOK'
  <2>1. pc' \in [Procs -> {"idle", "save", "write", "emit"}]
    BY <1>1, <1>2 DEF TypeOK
  <2>2. call' \in [Procs -> Calls \cup {NoCall}]
    BY <1>1, <1>2, <1>4, <1>5 DEF CallOK
  <2>3. \A q \in Procs : call'[q] \in IF pc'[q] = "idle" THEN {NoCall} ELSE Calls
    BY <1>2, <1>4, <1>5 DEF TypeOK
  <2>4. \A q \in Procs : pc'[q] = "emit" => call'[q].copy.status = "CANCELLED"
    BY <1>2, <1>4 DEF TypeOK
  <2>5. QED
    BY <1>1, <1>2, <2>1, <2>2, <2>3, <2>4 DEF TypeOK, CallOK
<1>7. FreshCopies'
  <2> SUFFICES ASSUME NEW q \in Procs, Busy(q)'
               PROVE  /\ call'[q].kind = "cancel" => call'[q].copy.status = "CANCELLED"
                      /\ call'[q].fresh => CopyOf(call[q].order, call[q])'
                      /\ call'[q].fresh /\ pc'[q] = "write" =>
                           call'[q].loaded = orders'[call'[q].order]
    BY DEF FreshCopies
  <2>1. Busy(q)
    BY <1>1, <1>4 DEF Busy
  <2>2. /\ call[q].kind = "cancel" => call[q].copy.status = "CANCELLED"
        /\ call[q].fresh => CopyOf(call[q].order, call[q])
        /\ call[q].fresh /\ pc[q] = "write" => call[q].loaded = orders[call[q].order]
    BY <2>1 DEF IInv, FreshCopies
  <2>3. /\ call'[q].order = call[q].order /\ call'[q].kind = call[q].kind
        /\ call'[q].copy = call[q].copy /\ call'[q].fresh = call[q].fresh
    BY <1>4, <1>5
  <2>4. call'[q].fresh => CopyOf(call[q].order, call[q])'
    BY <1>1, <2>2, <2>3 DEF CopyOf, EventCopy, CancelCopy, UpdateCopy
  <2>5. QED
    BY <1>1, <1>4, <1>5, <2>2, <2>3, <2>4
<1>8. Sticks'
  BY <1>1, <1>4 DEF IInv, Sticks, StaysCancelled
<1>9. Accounted'
  <2> SUFFICES ASSUME NEW r \in charged, r \notin misled \cup revived,
                      ~ PaidPending(r), ~ Applied(r)
               PROVE  PaidInFlight(r)'
    BY <1>1 DEF Accounted, PaidPending, Applied
  <2>1. PICK q \in Procs : /\ Busy(q) /\ call[q].order = r /\ call[q].kind = "event"
                           /\ call[q].copy.payment = "PAID"
    BY DEF IInv, Accounted, PaidInFlight
  <2>2. /\ Busy(q)' /\ call'[q].order = r /\ call'[q].kind = "event"
        /\ call'[q].copy.payment = "PAID"
    BY <1>4, <1>5, <2>1 DEF Busy
  <2>3. QED
    BY <2>2 DEF PaidInFlight
<1>10. QED
  BY <1>6, <1>7, <1>8, <1>9 DEF IInv

(***************************************************************************)
(* A handler whose copy is fresh writes exactly this copy.                 *)
(***************************************************************************)
LEMMA MergedFresh ==
  ASSUME NEW loaded \in Columns, NEW copy \in Columns
  PROVE  Merged(loaded, loaded, copy) = copy
BY DEF Merged, Columns

(***************************************************************************)
(* What save writes is a row.                                              *)
(***************************************************************************)
LEMMA MergedType ==
  ASSUME NEW current \in Columns, NEW loaded \in Columns, NEW copy \in Columns
  PROVE  Merged(current, loaded, copy) \in Columns
<1>1. DOMAIN copy = {"status", "payment"}
  BY DEF Columns
<1>2. Merged(current, loaded, copy) =
        [c \in {"status", "payment"} |-> IF copy[c] = loaded[c] THEN current[c] ELSE copy[c]]
  BY <1>1 DEF Merged
<1>3. QED
  BY <1>2 DEF Columns

(***************************************************************************)
(* What a commit does to the handlers in flight.                           *)
(***************************************************************************)
LEMMA CommitCalls ==
  ASSUME IInv, NEW p \in Procs, WriteAndCommit(p)
  PROVE  /\ pc[p] = "write" /\ pc'[p] = AfterCommit(call[p])
         /\ pc'[p] = "idle" => call'[p] = NoCall
         /\ pc'[p] = "emit" => /\ call'[p] \in Calls /\ call'[p].order = call[p].order
                               /\ call'[p].copy = call[p].copy /\ call[p].kind = "cancel"
         /\ \A q \in Procs : q # p =>
              /\ pc'[q] = pc[q]
              /\ pc[q] = "idle" => call'[q] = NoCall
              /\ pc[q] # "idle" =>
                   /\ call'[q] \in Calls
                   /\ call'[q].order = call[q].order /\ call'[q].kind = call[q].kind
                   /\ call'[q].copy = call[q].copy /\ call'[q].loaded = call[q].loaded
                   /\ call'[q].fresh /\ Busy(q) =>
                        call[q].fresh /\ call[q].order # call[p].order
<1> DEFINE o == call[p].order
<1>1. TypeOK /\ CallOK
  BY DEF IInv
<1>2. /\ pc[p] = "write" /\ pc' = [pc EXCEPT ![p] = AfterCommit(call[p])]
      /\ call' = [q \in Procs |->
           IF q = p THEN IF AfterCommit(call[p]) = "idle" THEN NoCall
                         ELSE [call[p] EXCEPT !.fresh = TRUE, !.loaded = call[p].copy]
           ELSE IF q \in On(o) \ {p} /\ pc[q] # "emit" THEN [call[q] EXCEPT !.fresh = FALSE]
           ELSE call[q]]
  BY DEF WriteAndCommit, Goto
<1>3. call[p] \in Calls
  BY <1>2, InFlightTypes
<1>4. pc'[p] = AfterCommit(call[p])
  BY <1>1, <1>2 DEF TypeOK
<1>5. pc'[p] = "idle" => call'[p] = NoCall
  BY <1>2, <1>4
<1>6. pc'[p] = "emit" => /\ call'[p] \in Calls /\ call'[p].order = o
                         /\ call'[p].copy = call[p].copy /\ call[p].kind = "cancel"
  <2> SUFFICES ASSUME pc'[p] = "emit"
               PROVE  /\ call'[p] \in Calls /\ call'[p].order = o
                      /\ call'[p].copy = call[p].copy /\ call[p].kind = "cancel"
    OBVIOUS
  <2>1. call[p].kind = "cancel" /\ AfterCommit(call[p]) # "idle"
    BY <1>4 DEF AfterCommit
  <2>2. call'[p] = [call[p] EXCEPT !.fresh = TRUE, !.loaded = call[p].copy]
    BY <1>2, <2>1
  <2>3. QED
    BY <1>3, <2>1, <2>2 DEF Calls
<1>7. ASSUME NEW q \in Procs, q # p
      PROVE  /\ pc'[q] = pc[q]
             /\ pc[q] = "idle" => call'[q] = NoCall
             /\ pc[q] # "idle" =>
                  /\ call'[q] \in Calls
                  /\ call'[q].order = call[q].order /\ call'[q].kind = call[q].kind
                  /\ call'[q].copy = call[q].copy /\ call'[q].loaded = call[q].loaded
                  /\ call'[q].fresh /\ Busy(q) => call[q].fresh /\ call[q].order # o
  <2>1. pc'[q] = pc[q]
    BY <1>1, <1>2, <1>7 DEF TypeOK
  <2>2. call'[q] = IF q \in On(o) /\ pc[q] # "emit" THEN [call[q] EXCEPT !.fresh = FALSE]
                   ELSE call[q]
    BY <1>2, <1>7
  <2>3. CASE pc[q] = "idle"
    <3>1. call[q] = NoCall /\ o \in Orders
      BY <1>1, <1>3, <2>3 DEF TypeOK, Calls
    <3>2. q \notin On(o)
      BY <3>1 DEF On, NoCall
    <3>3. QED
      BY <2>1, <2>2, <2>3, <3>1, <3>2
  <2>4. CASE pc[q] # "idle"
    <3>1. call[q] \in Calls
      BY <2>4, InFlightTypes
    <3>2. CASE q \in On(o) /\ pc[q] # "emit"
      BY <2>1, <2>2, <2>4, <3>1, <3>2 DEF Calls
    <3>3. CASE ~ (q \in On(o) /\ pc[q] # "emit")
      BY <2>1, <2>2, <2>4, <3>1, <3>3 DEF On, Busy
    <3>4. QED
      BY <3>2, <3>3
  <2>5. QED
    BY <2>3, <2>4
<1>8. QED
  BY <1>2, <1>4, <1>5, <1>6, <1>7

(***************************************************************************)
(* The row a commit leaves: the copy if it was fresh, which then differs   *)
(* from the row as CopyOf allows.                                          *)
(***************************************************************************)
LEMMA CommitRow ==
  ASSUME IInv, NEW p \in Procs, WriteAndCommit(p)
  PROVE  /\ orders' \in [Orders -> Columns]
         /\ \A r \in Orders : r # call[p].order => orders'[r] = orders[r]
         /\ revived \subseteq revived' /\ revived' \subseteq Orders
         /\ \/ call[p].order \in revived'
            \/ /\ orders'[call[p].order] = call[p].copy
               /\ CopyOf(call[p].order, call[p])
<1> DEFINE o == call[p].order
           row == Merged(orders[o], call[p].loaded, call[p].copy)
<1>1. /\ pc[p] = "write" /\ orders' = [orders EXCEPT ![o] = row]
      /\ revived' = AddIf(~ call[p].fresh, o, revived)
  BY DEF WriteAndCommit, Goto
<1>2. /\ o \in Orders /\ orders[o] \in Columns
      /\ call[p].copy \in Columns /\ call[p].loaded \in Columns
  BY <1>1, InFlightTypes
<1>3. row \in Columns
  BY <1>2, MergedType
<1>4. orders \in [Orders -> Columns] /\ revived \subseteq Orders
  BY DEF IInv, TypeOK
<1>5. call[p].fresh => CopyOf(o, call[p]) /\ call[p].loaded = orders[o]
  BY <1>1 DEF IInv, FreshCopies, Busy
<1>6. call[p].fresh => row = call[p].copy
  BY <1>2, <1>5, MergedFresh
<1> HIDE DEF row
<1>7. orders'[o] = row /\ orders' \in [Orders -> Columns]
      /\ \A r \in Orders : r # o => orders'[r] = orders[r]
  BY <1>1, <1>2, <1>3, <1>4
<1>8. QED
  BY <1>1, <1>2, <1>4, <1>5, <1>6, <1>7 DEF AddIf

(***************************************************************************)
(* A handler commits its copy.                                             *)
(***************************************************************************)
LEMMA WriteAndCommitInv ==
  ASSUME IInv, NEW p \in Procs, WriteAndCommit(p)
  PROVE  IInv'
<1> DEFINE o == call[p].order
<1>1. TypeOK /\ CallOK
  BY DEF IInv
<1>2. /\ UNCHANGED <<events, published, announced, charged, misled, unannounced>>
      /\ pc' = [pc EXCEPT ![p] = AfterCommit(call[p])] /\ DOMAIN call' = Procs
      /\ call' = [q \in Procs |-> call'[q]]
  BY DEF WriteAndCommit, Goto
<1>3. pc'[p] \in {"emit", "idle"}
  BY CommitCalls DEF AfterCommit
<1>4. o \in Orders /\ call[p].kind \in {"update", "cancel", "event"}
  BY CommitCalls, InFlightTypes
<1>5. call[p].kind = "cancel" => call[p].copy.status = "CANCELLED"
  BY CommitCalls DEF IInv, FreshCopies, Busy
<1>6. TypeOK' /\ CallOK'
  <2>1. pc' \in [Procs -> {"idle", "save", "write", "emit"}]
    BY <1>1, <1>2 DEF TypeOK, AfterCommit
  <2>2. \A q \in Procs : call'[q] \in IF pc'[q] = "idle" THEN {NoCall} ELSE Calls
    BY <1>3, CommitCalls
  <2>3. \A q \in Procs : pc'[q] = "emit" => call'[q].copy.status = "CANCELLED"
    BY <1>1, <1>5, CommitCalls DEF TypeOK
  <2>4. orders' \in [Orders -> Columns] /\ revived' \subseteq Orders
    BY CommitRow
  <2>5. call' \in [Procs -> Calls \cup {NoCall}]
    BY <1>2, <2>2
  <2>6. QED
    BY <1>1, <1>2, <2>1, <2>2, <2>3, <2>4, <2>5 DEF TypeOK, CallOK
<1>7. FreshCopies'
  <2> SUFFICES ASSUME NEW q \in Procs, Busy(q)'
               PROVE  /\ call'[q].kind = "cancel" => call'[q].copy.status = "CANCELLED"
                      /\ call'[q].fresh => CopyOf(call[q].order, call[q])'
                      /\ call'[q].fresh /\ pc'[q] = "write" =>
                           call'[q].loaded = orders'[call'[q].order]
    BY DEF FreshCopies
  <2>1. q # p
    BY <1>3 DEF Busy
  <2>2. Busy(q) /\ pc'[q] = pc[q] /\ pc[q] # "idle"
    BY <2>1, CommitCalls DEF Busy
  <2>3. /\ call'[q].order = call[q].order /\ call'[q].kind = call[q].kind
        /\ call'[q].copy = call[q].copy /\ call'[q].loaded = call[q].loaded
        /\ call'[q].fresh => call[q].fresh /\ call[q].order # o
    BY <2>1, <2>2, CommitCalls
  <2>4. /\ call[q].kind = "cancel" => call[q].copy.status = "CANCELLED"
        /\ call[q].fresh => CopyOf(call[q].order, call[q])
        /\ call[q].fresh /\ pc[q] = "write" => call[q].loaded = orders[call[q].order]
    BY <2>2 DEF IInv, FreshCopies
  <2>5. call[q].order \in Orders
    BY <2>2, InFlightTypes
  <2>6. call'[q].fresh => orders'[call[q].order] = orders[call[q].order]
    BY <2>3, <2>5, CommitRow
  <2>7. revived \subseteq revived'
    BY CommitRow
  <2>8. call'[q].fresh => CopyOf(call[q].order, call[q])'
    BY <1>2, <2>3, <2>4, <2>6, <2>7 DEF CopyOf, EventCopy, CancelCopy, UpdateCopy
  <2>9. QED
    BY <2>2, <2>3, <2>4, <2>6, <2>8
<1>8. Sticks'
  <2>1. ASSUME NEW r \in Orders, StaysCancelled(r) PROVE StaysCancelled(r)'
    <3>1. CASE r # o
      BY <2>1, <3>1, CommitRow DEF StaysCancelled
    <3>2. CASE r = o
      BY <1>4, <2>1, <3>2, CommitRow
         DEF StaysCancelled, CopyOf, EventCopy, CancelCopy, UpdateCopy
    <3>3. QED
      BY <3>1, <3>2
  <2>2. ASSUME NEW q \in Procs, pc'[q] = "emit" PROVE StaysCancelled(call[q].order)'
    <3>1. CASE q = p
      <4>1. call'[p].order = o /\ call[p].kind = "cancel"
        BY <2>2, <3>1, CommitCalls
      <4>2. orders'[o].status = "CANCELLED" \/ o \in revived'
        BY <1>5, <4>1, CommitRow
      <4>3. QED
        BY <3>1, <4>1, <4>2 DEF StaysCancelled
    <3>2. CASE q # p
      <4>1. pc[q] = "emit" /\ call'[q].order = call[q].order
        BY <2>2, <3>2, CommitCalls
      <4>2. StaysCancelled(call[q].order) /\ call[q].order \in Orders
        BY <4>1, InFlightTypes DEF IInv, Sticks
      <4>3. PICK r \in Orders : r = call[q].order /\ r = call'[q].order
        BY <4>1, <4>2
      <4>4. StaysCancelled(r)'
        BY <2>1, <4>2, <4>3 DEF StaysCancelled
      <4>5. QED
        BY <4>3, <4>4 DEF StaysCancelled
    <3>3. QED
      BY <3>1, <3>2
  <2>3. announced' = announced /\ announced \subseteq Orders
    BY <1>1, <1>2 DEF TypeOK
  <2>4. QED
    BY <2>1, <2>2, <2>3 DEF IInv, Sticks
<1>9. Accounted'
  <2> SUFFICES ASSUME NEW r \in charged, r \notin misled \cup revived',
                      ~ PaidPending(r), ~ Applied(r)'
               PROVE  PaidInFlight(r)'
    BY <1>2 DEF Accounted, PaidPending
  <2>1. r \in Orders /\ r \notin misled \cup revived
    BY <1>1, CommitRow DEF TypeOK
  <2>2. PaidInFlight(r) \/ Applied(r)
    BY <2>1 DEF IInv, Accounted
  <2>3. ~ Applied(r)
    <3>1. CASE r # o
      BY <2>1, <3>1, CommitRow DEF Applied
    <3>2. CASE r = o
      BY <1>4, <2>1, <3>2, CommitRow
         DEF Applied, CopyOf, EventCopy, CancelCopy, UpdateCopy, PaymentOfCancelled, Outcomes
    <3>3. QED
      BY <3>1, <3>2
  <2>4. PICK q \in Procs : /\ Busy(q) /\ call[q].order = r /\ call[q].kind = "event"
                           /\ call[q].copy.payment = "PAID"
    BY <2>2, <2>3 DEF PaidInFlight
  <2>5. q # p
    <3> SUFFICES ASSUME q = p PROVE FALSE
      OBVIOUS
    <3>1. r = o /\ orders'[o] = call[p].copy /\ EventCopy(o, call[p])
      BY <2>4, CommitRow DEF CopyOf
    <3>2. orders'[r].payment = "PAID" /\ orders'[r].status # "CANCELLED"
      BY <2>1, <2>4, <3>1 DEF EventCopy
    <3>3. QED
      BY <3>2 DEF Applied
  <2>6. /\ Busy(q)' /\ call'[q].order = r /\ call'[q].kind = "event"
        /\ call'[q].copy.payment = "PAID"
    BY <2>4, <2>5, CommitCalls DEF Busy
  <2>7. QED
    BY <2>6 DEF PaidInFlight
<1>10. QED
  BY <1>6, <1>7, <1>8, <1>9 DEF IInv

(***************************************************************************)
(* A handler that ends: published or failed.  Only an event that fails     *)
(* takes a charge with it, and then the order is misled.                   *)
(***************************************************************************)
LEMMA EndInv ==
  ASSUME IInv, NEW p \in Procs, pc[p] # "idle", EndWith(p, "idle"),
         UNCHANGED <<orders, events, published, charged, revived>>,
         misled' \in SUBSET Orders, misled \subseteq misled',
         unannounced' \in SUBSET Orders, announced' \in SUBSET Orders,
         Busy(p) /\ call[p].kind = "event" => call[p].order \in misled',
         \A r \in announced' : StaysCancelled(r)
  PROVE  IInv'
<1>1. TypeOK /\ CallOK
  BY DEF IInv
<1>2. pc' = [pc EXCEPT ![p] = "idle"] /\ call' = [call EXCEPT ![p] = NoCall]
  BY DEF EndWith
<1>3. /\ \A q \in Procs : q # p => pc'[q] = pc[q] /\ call'[q] = call[q]
      /\ pc'[p] = "idle" /\ call'[p] = NoCall
  BY <1>1, <1>2 DEF TypeOK, CallOK
<1>4. TypeOK' /\ CallOK'
  <2>1. pc' \in [Procs -> {"idle", "save", "write", "emit"}]
    BY <1>1, <1>2 DEF TypeOK
  <2>2. call' \in [Procs -> Calls \cup {NoCall}]
    BY <1>1, <1>2 DEF CallOK
  <2>3. \A q \in Procs : call'[q] \in IF pc'[q] = "idle" THEN {NoCall} ELSE Calls
    <3> SUFFICES ASSUME NEW q \in Procs
                 PROVE  call'[q] \in IF pc'[q] = "idle" THEN {NoCall} ELSE Calls
      OBVIOUS
    <3>1. CASE q = p
      BY <1>3, <3>1
    <3>2. CASE q # p
      BY <1>1, <1>3, <3>2 DEF TypeOK
    <3>3. QED
      BY <3>1, <3>2
  <2>4. \A q \in Procs : pc'[q] = "emit" => call'[q].copy.status = "CANCELLED"
    BY <1>1, <1>3 DEF TypeOK
  <2>5. orders' = orders /\ events' = events /\ published' = published
    OBVIOUS
  <2>6. \A set \in {announced', charged', misled', revived', unannounced'} : set \subseteq Orders
    BY <1>1 DEF TypeOK
  <2>7. QED
    BY <1>1, <2>1, <2>2, <2>3, <2>4, <2>5, <2>6 DEF TypeOK, CallOK
<1>5. FreshCopies'
  BY <1>3 DEF IInv, FreshCopies, Busy, CopyOf, EventCopy, CancelCopy, UpdateCopy
<1>6. Sticks'
  BY <1>3 DEF IInv, Sticks, StaysCancelled
<1>7. Accounted'
  <2> SUFFICES ASSUME NEW r \in charged, r \notin misled' \cup revived,
                      ~ PaidPending(r), ~ Applied(r)
               PROVE  PaidInFlight(r)'
    BY DEF Accounted, PaidPending, Applied
  <2>1. PICK q \in Procs : /\ Busy(q) /\ call[q].order = r /\ call[q].kind = "event"
                           /\ call[q].copy.payment = "PAID"
    BY DEF IInv, Accounted, PaidInFlight
  <2>2. q # p
    BY <2>1
  <2>3. QED
    BY <1>3, <2>1, <2>2 DEF PaidInFlight, Busy
<1>8. QED
  BY <1>4, <1>5, <1>6, <1>7 DEF IInv

(***************************************************************************)
(* order.cancelled is published.                                           *)
(***************************************************************************)
LEMMA EmitInv ==
  ASSUME IInv, NEW p \in Procs, Emit(p)
  PROVE  IInv'
<1>1. /\ pc[p] = "emit" /\ announced' = announced \cup {call[p].order} /\ EndWith(p, "idle")
      /\ UNCHANGED <<orders, events, published, charged, misled, revived, unannounced>>
  BY DEF Emit
<1>2. /\ misled \in SUBSET Orders /\ unannounced \in SUBSET Orders
      /\ announced \in SUBSET Orders
  BY DEF IInv, TypeOK
<1>3. call[p].order \in Orders
  BY <1>1, InFlightTypes
<1>4. \A r \in announced' : StaysCancelled(r)
  BY <1>1 DEF IInv, Sticks
<1>5. QED
  BY <1>1, <1>2, <1>3, <1>4, EndInv DEF Busy

(***************************************************************************)
(* A handler fails.                                                        *)
(***************************************************************************)
LEMMA FailInv ==
  ASSUME IInv, NEW p \in Procs, Fail(p)
  PROVE  IInv'
<1>1. /\ pc[p] # "idle" /\ EndWith(p, "idle")
      /\ misled' = AddIf(call[p].kind = "event", call[p].order, misled)
      /\ unannounced' = AddIf(pc[p] = "emit", call[p].order, unannounced)
      /\ UNCHANGED <<orders, events, published, announced, charged, revived>>
  BY DEF Fail, NothingAfterFailure
<1>2. /\ misled \in SUBSET Orders /\ unannounced \in SUBSET Orders
      /\ announced \in SUBSET Orders
  BY DEF IInv, TypeOK
<1>3. call[p].order \in Orders
  BY <1>1, InFlightTypes
<1>4. \A r \in announced' : StaysCancelled(r)
  BY <1>1 DEF IInv, Sticks
<1>5. /\ misled' \in SUBSET Orders /\ misled \subseteq misled'
      /\ unannounced' \in SUBSET Orders
      /\ call[p].kind = "event" => call[p].order \in misled'
  BY <1>1, <1>2, <1>3 DEF AddIf
<1>6. QED
  BY <1>1, <1>2, <1>4, <1>5, EndInv
-------------------------------------------------------------------------------
(* The theorems *)

(***************************************************************************)
(* Nothing happens.                                                        *)
(***************************************************************************)
LEMMA StutterInv == IInv /\ UNCHANGED vars => IInv'
<1> SUFFICES ASSUME IInv, UNCHANGED vars PROVE IInv'
  OBVIOUS
<1>1. UNCHANGED <<orders, events, published, pc, call, announced, charged, misled, revived, unannounced>>
  BY DEF vars, history
<1>2. TypeOK' /\ CallOK'
  BY <1>1 DEF IInv, TypeOK, CallOK
<1>3. FreshCopies' /\ Sticks'
  BY <1>1 DEF IInv, FreshCopies, Busy, CopyOf, EventCopy, CancelCopy, UpdateCopy,
              Sticks, StaysCancelled
<1>4. Accounted'
  BY <1>1 DEF IInv, Accounted, PaidPending, PaidInFlight, Applied, Busy
<1>5. QED
  BY <1>2, <1>3, <1>4 DEF IInv

(***************************************************************************)
(* Every step keeps the invariant.                                         *)
(***************************************************************************)
LEMMA StepInv == IInv /\ [Next]_vars => IInv'
<1> SUFFICES ASSUME IInv, [Next]_vars PROVE IInv'
  OBVIOUS
<1>1. CASE Publish \/ LoseEvent
  BY <1>1, PublishInv, LoseEventInv
<1>2. ASSUME NEW p \in Procs,
             UpdatePaymentStatus(p) \/ Update(p) \/ SaveUnedited(p) \/ Continue(p) \/ Fail(p)
      PROVE  IInv'
  <2>1. CASE UpdatePaymentStatus(p) \/ Update(p) \/ SaveUnedited(p)
    BY <2>1, UpdatePaymentStatusInv, UpdateInv, SaveUneditedInv
  <2>2. CASE Continue(p)
    BY <2>2, LoadRowInv, WriteAndCommitInv, EmitInv DEF Continue
  <2>3. CASE Fail(p)
    BY <2>3, FailInv
  <2>4. QED
    BY <1>2, <2>1, <2>2, <2>3
<1>3. CASE UNCHANGED vars
  BY <1>3, StutterInv
<1>4. QED
  BY <1>1, <1>2, <1>3 DEF Next

(***************************************************************************)
(* The invariant holds in every reachable state.                           *)
(***************************************************************************)
LEMMA Invariance == Spec => []IInv
BY InitInv, StepInv, PTL DEF Spec

(***************************************************************************)
(* TypeOK of Payments: order.cancelled is published for committed          *)
(* cancellations only.                                                     *)
(***************************************************************************)
THEOREM Typing == Spec => []TypeOK
<1>1. IInv => TypeOK
  BY DEF IInv
<1>2. QED
  BY <1>1, Invariance, PTL

(***************************************************************************)
(* CancellationSticks: payments-ms is not told of a cancellation that is   *)
(* gone, unless the order was reopened or an old copy was saved over it.   *)
(***************************************************************************)
THEOREM Announced == Spec => []CancellationSticks
<1>1. IInv => CancellationSticks
  BY DEF IInv, Sticks, StaysCancelled, CancellationSticks
<1>2. QED
  BY <1>1, Invariance, PTL

(***************************************************************************)
(* MoneyAccounted: every order that was charged and has been handled is    *)
(* PAID, or REFUNDED if it is cancelled, unless an event of it was lost or *)
(* out of order, an old copy of it was saved, or it was reopened.          *)
(***************************************************************************)
THEOREM ChargeShows == Spec => []MoneyAccounted
<1>1. ASSUME IInv PROVE MoneyAccounted
  <2> SUFFICES ASSUME NEW o \in charged, Handled(o), o \notin misled \cup revived
               PROVE  Applied(o)
    BY DEF MoneyAccounted, Applied
  <2>1. ~ PaidPending(o) /\ ~ PaidInFlight(o)
    BY DEF Handled, On, PaidPending, PaidInFlight
  <2>2. QED
    BY <1>1, <2>1 DEF IInv, Accounted
<1>2. QED
  BY <1>1, Invariance, PTL

-------------------------------------------------------------------------------
(* Cancellations are announced *)

\* So that an old copy cannot cancel an order unannounced, every copy of a
\* cancelled order is of one that payments-ms is told of.
CopiesTold == \A p \in Procs :
  Busy(p) /\ call[p].kind # "cancel" /\ call[p].copy.status = "CANCELLED"
    => Told(call[p].order)
AnnounceInv == CancellationsAnnounced /\ CopiesTold

(***************************************************************************)
(* Who has been told, or is about to be, stays so.                         *)
(***************************************************************************)
LEMMA ToldStays ==
  ASSUME IInv, [Next]_vars, NEW o \in Orders, Told(o)
  PROVE  Told(o)'
<1>1. ASSUME announced \subseteq announced', unannounced \subseteq unannounced',
             \A q \in Procs : pc[q] = "emit" => pc'[q] = "emit" /\ call'[q].order = call[q].order
      PROVE  Told(o)'
  BY <1>1 DEF Told, On
<1>2. call \in [Procs -> Calls \cup {NoCall}] /\ pc \in [Procs -> {"idle", "save", "write", "emit"}]
  BY DEF IInv, TypeOK, CallOK
<1>3. CASE Publish \/ LoseEvent \/ UNCHANGED vars
  BY <1>1, <1>3 DEF Publish, LoseEvent, vars, history
<1>4. ASSUME NEW p \in Procs, UpdatePaymentStatus(p) \/ Update(p) \/ SaveUnedited(p) \/ LoadRow(p)
      PROVE  Told(o)'
  BY <1>1, <1>2, <1>4 DEF UpdatePaymentStatus, Update, SaveUnedited, LoadRow, Goto, Hold, history
<1>5. ASSUME NEW p \in Procs, WriteAndCommit(p) PROVE Told(o)'
  <2>1. ASSUME NEW q \in Procs, pc[q] = "emit"
        PROVE  pc'[q] = "emit" /\ call'[q].order = call[q].order
    BY <1>2, <1>5, <2>1 DEF WriteAndCommit, Goto
  <2>2. QED
    BY <1>1, <1>5, <2>1 DEF WriteAndCommit
<1>6. ASSUME NEW p \in Procs, Emit(p) \/ Fail(p) PROVE Told(o)'
  <2>1. announced \subseteq announced' /\ unannounced \subseteq unannounced'
    BY <1>6 DEF Emit, Fail, AddIf
  <2>2. \A q \in Procs \ {p} : pc'[q] = pc[q] /\ call'[q] = call[q]
    BY <1>2, <1>6 DEF Emit, Fail, EndWith
  <2>3. pc[p] = "emit" => call[p].order \in announced' \cup unannounced'
    BY <1>6 DEF Emit, Fail, AddIf
  <2>4. QED
    BY <2>1, <2>2, <2>3 DEF Told, On
<1>7. QED
  BY <1>3, <1>4, <1>5, <1>6 DEF Next, Continue

(***************************************************************************)
(* Every step keeps AnnounceInv: a row becomes CANCELLED by a commit, and  *)
(* a copy by being read or by update.                                      *)
(***************************************************************************)
LEMMA AnnounceNext == IInv /\ AnnounceInv /\ [Next]_vars => AnnounceInv'
<1> SUFFICES ASSUME IInv, AnnounceInv, [Next]_vars PROVE AnnounceInv'
  OBVIOUS
<1>1. \A o \in Orders : Told(o) => Told(o)'
  BY ToldStays
<1>2. call \in [Procs -> Calls \cup {NoCall}] /\ pc \in [Procs -> {"idle", "save", "write", "emit"}]
  BY DEF IInv, TypeOK, CallOK
<1>3. \A p \in Procs : pc[p] # "idle" => call[p] \in Calls
  BY DEF IInv, TypeOK
<1>4. \A o \in Orders : orders[o].status = "CANCELLED" => Told(o)
  BY DEF AnnounceInv, CancellationsAnnounced
\* What is enough for a step that writes no row.
<1>5. ASSUME UNCHANGED orders,
             \A q \in Procs : Busy(q)' => \/ Busy(q) /\ call'[q].order = call[q].order
                                               /\ call'[q].kind = call[q].kind
                                               /\ call'[q].copy = call[q].copy
                                         \/ /\ call'[q].order \in Orders
                                            /\ call'[q].kind # "cancel" /\ call'[q].copy.status = "CANCELLED"
                                                 => orders[call'[q].order].status = "CANCELLED"
      PROVE  AnnounceInv'
  <2>1. CancellationsAnnounced'
    BY <1>1, <1>4, <1>5 DEF CancellationsAnnounced
  <2>2. ASSUME NEW q \in Procs, Busy(q)', call'[q].kind # "cancel",
               call'[q].copy.status = "CANCELLED"
        PROVE  Told(call[q].order)'
    <3>1. CASE /\ Busy(q) /\ call'[q].order = call[q].order
               /\ call'[q].kind = call[q].kind /\ call'[q].copy = call[q].copy
      <4>1. Told(call[q].order) /\ call[q].order \in Orders
        BY <1>3, <2>2, <3>1 DEF AnnounceInv, CopiesTold, Busy, Calls
      <4>2. QED
        BY <1>1, <3>1, <4>1 DEF Told, On
    <3>2. CASE call'[q].order \in Orders /\ orders[call'[q].order].status = "CANCELLED"
      <4>1. \A o \in Orders : o = call'[q].order => Told(o)'
        BY <1>1, <1>4, <3>2
      <4>2. QED
        BY <3>2, <4>1 DEF Told, On
    <3>3. QED
      BY <1>5, <2>2, <3>1, <3>2
  <2>3. QED
    BY <2>1, <2>2 DEF AnnounceInv, CopiesTold
<1>6. CASE Publish \/ LoseEvent \/ UNCHANGED vars
  BY <1>5, <1>6 DEF Publish, LoseEvent, vars, history, Busy
<1>7. ASSUME NEW p \in Procs, UpdatePaymentStatus(p) \/ Update(p) \/ SaveUnedited(p)
      PROVE  AnnounceInv'
  <2>1. \A q \in Procs \ {p} : pc'[q] = pc[q] /\ call'[q] = call[q]
    BY <1>2, <1>7 DEF UpdatePaymentStatus, Update, SaveUnedited, Goto, Hold
  <2>2. /\ call'[p].order \in Orders
        /\ call'[p].kind # "cancel" /\ call'[p].copy.status = "CANCELLED"
             => orders[call'[p].order].status = "CANCELLED"
    <3>1. CASE UpdatePaymentStatus(p)
      <4>1. PICK e \in events :
              call' = [call EXCEPT ![p] = [order |-> e.order, kind |-> "event", fresh |-> TRUE,
                         copy |-> [orders[e.order] EXCEPT !.payment = e.outcome],
                         loaded |-> [orders[e.order] EXCEPT !.payment = e.outcome]]]
        BY <3>1 DEF UpdatePaymentStatus, Hold
      <4>2. e.order \in Orders /\ orders[e.order] \in Columns
        BY DEF IInv, TypeOK
      <4>3. QED
        BY <1>2, <4>1, <4>2 DEF Columns
    <3>2. CASE Update(p)
      <4>1. PICK o \in Orders, to \in Status : \E payment :
              call' = [call EXCEPT ![p] =
                [order |-> o, kind |-> IF to = "CANCELLED" THEN "cancel" ELSE "update",
                 fresh |-> TRUE, copy |-> [status |-> to, payment |-> payment],
                 loaded |-> [status |-> to, payment |-> payment]]]
        BY <3>2 DEF Update, Hold
      <4>2. QED
        BY <1>2, <4>1
    <3>3. CASE SaveUnedited(p)
      BY <1>2, <3>3 DEF SaveUnedited, Hold
    <3>4. QED
      BY <1>7, <3>1, <3>2, <3>3
  <2>3. UNCHANGED orders
    BY <1>7 DEF UpdatePaymentStatus, Update, SaveUnedited
  <2>4. QED
    BY <1>5, <2>1, <2>2, <2>3 DEF Busy
<1>8. ASSUME NEW p \in Procs, LoadRow(p) PROVE AnnounceInv'
  <2>1. \A q \in Procs : Busy(q)' => Busy(q) /\ call'[q].order = call[q].order
          /\ call'[q].kind = call[q].kind /\ call'[q].copy = call[q].copy
    BY <1>2, <1>3, <1>8 DEF LoadRow, Goto, Busy, Calls
  <2>2. QED
    BY <1>5, <1>8, <2>1 DEF LoadRow
<1>9. ASSUME NEW p \in Procs, Emit(p) \/ Fail(p) PROVE AnnounceInv'
  <2>1. ASSUME NEW q \in Procs, Busy(q)'
        PROVE  Busy(q) /\ call'[q] = call[q]
    <3>1. q = p => pc'[q] = "idle"
      BY <1>2, <1>9 DEF Emit, Fail, EndWith, NothingAfterFailure
    <3>2. QED
      BY <1>2, <1>9, <2>1, <3>1 DEF Emit, Fail, EndWith, Busy
  <2>2. QED
    BY <1>5, <1>9, <2>1 DEF Emit, Fail
<1>10. ASSUME NEW p \in Procs, WriteAndCommit(p) PROVE AnnounceInv'
  <2> PICK c \in Calls, o \in Orders : c = call[p] /\ o = c.order
    BY <1>3, <1>10 DEF WriteAndCommit, Goto, Calls
  <2>1. /\ pc[p] = "write" /\ c = call[p] /\ o = c.order
        /\ pc' = [pc EXCEPT ![p] = AfterCommit(c)]
    BY <1>10 DEF WriteAndCommit, Goto
  <2>2. /\ \A r \in Orders : r # o => orders'[r] = orders[r]
        /\ orders'[o].status \in {orders[o].status, c.copy.status}
    <3>1. orders' = [orders EXCEPT ![o] = Merged(orders[o], c.loaded, c.copy)]
      BY <1>10 DEF WriteAndCommit
    <3>2. orders \in [Orders -> Columns] /\ c.copy \in Columns
      BY <2>1 DEF IInv, TypeOK, Calls
    <3>3. Merged(orders[o], c.loaded, c.copy).status \in {orders[o].status, c.copy.status}
      BY <3>2 DEF Merged, Columns
    <3>4. QED
      BY <2>1, <3>1, <3>2, <3>3
  <2>3. ASSUME NEW q \in Procs, q # p
        PROVE  /\ pc'[q] = pc[q]
               /\ pc'[q] # "idle" => /\ call'[q].order = call[q].order
                                     /\ call'[q].kind = call[q].kind
                                     /\ call'[q].copy = call[q].copy
    BY <1>2, <1>3, <1>10, <2>1, <2>3 DEF WriteAndCommit, Calls
  <2>4. c.copy.status = "CANCELLED" => Told(o)'
    <3>1. CASE c.kind = "cancel"
      <4>1. pc'[p] = "emit" /\ call'[p].order = o
        BY <1>2, <1>10, <2>1, <3>1 DEF WriteAndCommit, AfterCommit, Calls
      <4>2. QED
        BY <4>1 DEF Told, On
    <3>2. CASE c.kind # "cancel"
      <4>1. c.copy.status = "CANCELLED" => Told(o)
        BY <2>1, <3>2 DEF AnnounceInv, CopiesTold, Busy
      <4>2. QED
        BY <1>1, <2>1, <4>1
    <3>3. QED
      BY <3>1, <3>2
  <2>5. CancellationsAnnounced'
    BY <1>1, <1>4, <2>1, <2>2, <2>4 DEF CancellationsAnnounced
  <2>6. CopiesTold'
    <3> SUFFICES ASSUME NEW q \in Procs, Busy(q)', call'[q].kind # "cancel",
                        call'[q].copy.status = "CANCELLED"
                 PROVE  Told(call[q].order)'
      BY DEF CopiesTold
    <3>1. q # p
      BY <1>2, <2>1 DEF Busy, AfterCommit
    <3>2. /\ Busy(q) /\ call'[q].order = call[q].order
          /\ call'[q].kind = call[q].kind /\ call'[q].copy = call[q].copy
      BY <2>3, <3>1 DEF Busy
    <3>3. Told(call[q].order) /\ call[q].order \in Orders
      BY <1>3, <3>2 DEF AnnounceInv, CopiesTold, Busy, Calls
    <3>4. QED
      BY <1>1, <3>2, <3>3 DEF Told, On
  <2>7. QED
    BY <2>5, <2>6 DEF AnnounceInv
<1>11. QED
  BY <1>6, <1>7, <1>8, <1>9, <1>10 DEF Next, Continue

(***************************************************************************)
(* CancellationsAnnounced: a cancelled order was announced to payments-ms, *)
(* or is about to be, unless a process stopped between the commit of a     *)
(* cancellation and its event.                                             *)
(***************************************************************************)
THEOREM NobodyCancelsSilently == Spec => []CancellationsAnnounced
<1>1. Init => AnnounceInv
  BY DEF Init, AnnounceInv, CancellationsAnnounced, CopiesTold, Busy
<1>2. AnnounceInv => CancellationsAnnounced
  BY DEF AnnounceInv
<1>3. QED
  BY <1>1, <1>2, AnnounceNext, Invariance, PTL DEF Spec
=================================================================================
