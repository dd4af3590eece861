-------------------------------- MODULE Payments --------------------------------
(***************************************************************************)
(* The payment status of orders (orders.controller.ts onPaymentStatus,     *)
(* orders.service.ts updatePaymentStatus, update and the item handlers).   *)
(*                                                                         *)
(* payments-ms publishes payment.status events.  The broker forgets an     *)
(* event when it hands it over, and the handlers of several events run at  *)
(* once: an event may be lost, and events may be applied out of order.     *)
(* Cancelling marks a PAID order REFUNDED, any other one CANCELLED, and    *)
(* publishes order.cancelled after the commit.  No handler locks the order *)
(* it read before it saves it.                                             *)
(***************************************************************************)
EXTENDS Integers, FiniteSets

CONSTANTS Procs,     \* handlers that may be in flight at once
          Orders,    \* the orders
          MaxEvents, \* bound on the events payments-ms publishes
          None       \* no order, no status given

ASSUME PaymentsAssumption == None \notin Orders /\ MaxEvents \in Nat

VARIABLES orders,     \* committed columns status and paymentStatus
          events,     \* payment.status events published and not yet handed over
          published,  \* how many there have been
          pc, call,   \* the handlers in flight
          announced,  \* history: orders that order.cancelled was published for
          charged,    \* history: orders that payments-ms published PAID for
          misled,     \* history: orders with an event lost or out of its order
          revived,    \* history: orders reopened, or saved from an old copy
          unannounced \* history: orders cancelled just before a crash

history == <<announced, charged, misled, revived, unannounced>>
vars == <<orders, events, published, pc, call, history>>

Status == {"PENDING", "IN_PROGRESS", "READY", "COMPLETED", "CANCELLED", "REOPENED"}
PaymentStatus == {"PENDING", "PAID", "FAILED", "REFUNDED", "CANCELLED"}
Outcomes == {"PAID", "FAILED"}
Columns == [status : Status, payment : PaymentStatus]

AllowedTransitions ==
  [PENDING     |-> {"IN_PROGRESS", "COMPLETED", "CANCELLED"},
   IN_PROGRESS |-> {"READY", "COMPLETED", "CANCELLED", "PENDING"},
   READY       |-> {"COMPLETED", "CANCELLED"},
   COMPLETED   |-> {"REOPENED"},
   REOPENED    |-> {"IN_PROGRESS", "CANCELLED", "COMPLETED"},
   CANCELLED   |-> {"REOPENED"}]

NoCall == [order |-> None]
Calls == [order : Orders, kind : {"update", "cancel", "event"}, fresh : BOOLEAN,
          copy : Columns, loaded : Columns]

On(o) == {p \in Procs : call[p].order = o}
AddIf(condition, o, set) == IF condition THEN set \cup {o} ELSE set

Init ==
  /\ orders = [o \in Orders |-> [status |-> "PENDING", payment |-> "PENDING"]]
  /\ events = {}
  /\ published = 0
  /\ pc = [p \in Procs |-> "idle"]
  /\ call = [p \in Procs |-> NoCall]
  /\ announced = {}
  /\ charged = {}
  /\ misled = {} /\ revived = {} /\ unannounced = {}

Goto(p, from, to) == pc[p] = from /\ pc' = [pc EXCEPT ![p] = to]

\* A handler goes on with what it read of o, edited.
Hold(p, o, kind, copy) ==
  call' = [call EXCEPT ![p] = [order |-> o, kind |-> kind, fresh |-> TRUE,
                               copy |-> copy, loaded |-> copy]]

\* What is left to do, if anything.
EndWith(p, next) ==
  /\ pc' = [pc EXCEPT ![p] = next]
  /\ call' = [call EXCEPT ![p] = IF next = "idle" THEN NoCall ELSE @]

-------------------------------------------------------------------------------
(* payments-ms and the broker *)

Publish == \E o \in Orders, outcome \in Outcomes :
  /\ published < MaxEvents
  /\ published' = published + 1
  /\ events' = events \cup {[id |-> published, order |-> o, outcome |-> outcome]}
  /\ charged' = AddIf(outcome = "PAID", o, charged)
  /\ UNCHANGED <<orders, pc, call, announced, misled, revived, unannounced>>

\* Handed over to an instance that stops before its handler has read anything.
LoseEvent == \E e \in events :
  /\ events' = events \ {e}
  /\ misled' = misled \cup {e.order}
  /\ UNCHANGED <<orders, published, pc, call, announced, charged, revived, unannounced>>
-------------------------------------------------------------------------------
(* The handlers.  Each reads the order, edits its copy and saves it.       *)

UpdatePaymentStatus(p) == \E e \in events :
  LET o == e.order
      before == orders[o]
  IN
  /\ Goto(p, "idle", "save")
  /\ events' = events \ {e}
  /\ Hold(p, o, "event", [before EXCEPT !.payment = e.outcome])
  /\ misled' = AddIf(\/ before.status = "CANCELLED"
                     \/ before.payment = "PAID" /\ e.outcome = "FAILED", o, misled)
  /\ UNCHANGED <<orders, published, announced, charged, revived, unannounced>>

\* update with a status.
AlwaysCancelled(payment) == "CANCELLED"
PaymentOfCancelled(payment) == IF payment = "PAID" THEN "REFUNDED" ELSE "CANCELLED"

Update(p) == \E o \in Orders, to \in Status :
  /\ to \in AllowedTransitions[orders[o].status]
  /\ Goto(p, "idle", "save")
  /\ Hold(p, o, IF to = "CANCELLED" THEN "cancel" ELSE "update",
          [status |-> to,
           payment |-> IF to = "CANCELLED" THEN PaymentOfCancelled(orders[o].payment)
                                           ELSE orders[o].payment])
  /\ revived' = AddIf(orders[o].status = "CANCELLED", o, revived)
  /\ UNCHANGED <<orders, events, published, announced, charged, misled, unannounced>>

\* update without a status, and the item handlers: the copy is saved as read.
SaveUnedited(p) == \E o \in Orders :
  /\ Goto(p, "idle", "save")
  /\ Hold(p, o, "update", orders[o])
  /\ UNCHANGED <<orders, events, published, history>>

\* save reads the row again and writes the columns that differ from the copy.
LoadRow(p) ==
  /\ Goto(p, "save", "write")
  /\ call' = [call EXCEPT ![p].loaded = orders[call[p].order]]
  /\ UNCHANGED <<orders, events, published, history>>

Merged(current, loaded, copy) ==
  [c \in DOMAIN copy |-> IF copy[c] = loaded[c] THEN current[c] ELSE copy[c]]

EmitAlways(c) == "emit"
EmitIfRefunded(c) == IF c.kind = "cancel" /\ c.copy.payment = "REFUNDED" THEN "emit" ELSE "idle"
AfterCommit(c) == IF c.kind = "cancel" THEN "emit" ELSE "idle"

WriteAndCommit(p) ==
  LET c == call[p]
      o == c.order
  IN
  /\ Goto(p, "write", AfterCommit(c))
  /\ orders' = [orders EXCEPT ![o] = Merged(@, c.loaded, c.copy)]
  /\ call' = [q \in Procs |->
       IF q = p THEN IF AfterCommit(c) = "idle" THEN NoCall
                     ELSE [c EXCEPT !.fresh = TRUE, !.loaded = c.copy]
       ELSE IF q \in On(o) \ {p} /\ pc[q] # "emit" THEN [call[q] EXCEPT !.fresh = FALSE]
       ELSE call[q]]
  /\ revived' = AddIf(~ c.fresh, o, revived)
  /\ UNCHANGED <<events, published, announced, charged, misled, unannounced>>

Emit(p) ==
  /\ pc[p] = "emit"
  /\ announced' = announced \cup {call[p].order}
  /\ EndWith(p, "idle")
  /\ UNCHANGED <<orders, events, published, charged, misled, revived, unannounced>>

\* A refused or failed save, or a crash.  An event is not delivered again, and
\* what was to be published after the commit is not published.
EmitInFinally(c) == IF c.kind = "cancel" THEN "emit" ELSE "idle"
NothingAfterFailure(c) == "idle"

Fail(p) ==
  /\ pc[p] # "idle"
  /\ EndWith(p, NothingAfterFailure(call[p]))
  /\ misled' = AddIf(call[p].kind = "event", call[p].order, misled)
  /\ unannounced' = AddIf(pc[p] = "emit", call[p].order, unannounced)
  /\ UNCHANGED <<orders, events, published, announced, charged, revived>>

Continue(p) == LoadRow(p) \/ WriteAndCommit(p) \/ Emit(p)

Next ==
  \/ Publish \/ LoseEvent
  \/ \E p \in Procs : UpdatePaymentStatus(p) \/ Update(p) \/ SaveUnedited(p)
                      \/ Continue(p) \/ Fail(p)

Spec == Init /\ [][Next]_vars

-------------------------------------------------------------------------------
(***************************************************************************)
(* The shape of every variable.  In particular a handler goes on to        *)
(* publish order.cancelled only if it cancelled its own copy of the order. *)
(***************************************************************************)
TypeOK ==
  /\ orders \in [Orders -> Columns]
  /\ \A e \in events : e.order \in Orders /\ e.outcome \in Outcomes
  /\ published \in 0 .. MaxEvents
  /\ pc \in [Procs -> {"idle", "save", "write", "emit"}]
  /\ \A p \in Procs : call[p] \in IF pc[p] = "idle" THEN {NoCall} ELSE Calls
  /\ \A p \in Procs : pc[p] = "emit" => call[p].copy.status = "CANCELLED"
  /\ \A set \in {announced, charged, misled, revived, unannounced} : set \subseteq Orders

(***************************************************************************)
(* What payments-ms has charged shows in the order.  When everything about *)
(* the order has been handled it is PAID, or REFUNDED if it is cancelled   *)
(* (update marks what has to be paid back), unless one of five things      *)
(* happened to it: an event was lost, an event arrived after the           *)
(* cancellation, FAILED followed PAID (misled), a handler saved a copy that*)
(* was not current any more, or the order had been cancelled before and    *)
(* reopened (revived): a second cancellation finds REFUNDED, not PAID, and *)
(* overwrites the mark.                                                    *)
(***************************************************************************)
Handled(o) == On(o) = {} /\ \A e \in events : e.order # o

MoneyAccounted == \A o \in charged :
  \/ ~ Handled(o)
  \/ orders[o].payment = IF orders[o].status = "CANCELLED" THEN "REFUNDED" ELSE "PAID"
  \/ o \in misled \cup revived

(***************************************************************************)
(* payments-ms is told of a cancellation and never of its reversal.  An    *)
(* order it was told of is cancelled, for good, unless somebody reopened   *)
(* it or a handler saved a copy that it had read before.                   *)
(***************************************************************************)
CancellationSticks == \A o \in announced :
  orders[o].status = "CANCELLED" \/ o \in revived

(***************************************************************************)
(* update: no cancellation is kept from payments-ms.  A cancelled order    *)
(* was announced, or a handler that has committed its cancellation is      *)
(* about to announce it, or a process stopped between the two; also when   *)
(* an old copy, saved by a handler that announces nothing, cancels an      *)
(* order again that was reopened.                                          *)
(***************************************************************************)
Told(o) ==
  \/ o \in announced \cup unannounced
  \/ \E p \in On(o) : pc[p] = "emit"

CancellationsAnnounced == \A o \in Orders : orders[o].status = "CANCELLED" => Told(o)
================================================================================
