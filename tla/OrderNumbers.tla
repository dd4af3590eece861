------------------------------ MODULE OrderNumbers ------------------------------
(***************************************************************************)
(* generateOrderNumber (orders.service.ts), called by create and           *)
(* createPosOrder inside their transactions: SELECT ... ORDER BY           *)
(* orderNumber DESC FOR UPDATE over all orders of the organization, take   *)
(* the first, add one.                                                     *)
(*                                                                         *)
(* getOne() sets no LIMIT, so the statement locks every order it sees.  At *)
(* READ COMMITTED it sees the orders committed when it starts; while it    *)
(* waits for their locks new orders are committed that it never sees.      *)
(***************************************************************************)
EXTENDS Integers, FiniteSets

CONSTANTS Procs,   \* handlers that may create an order at once
          Orders,  \* order ids (bound on the orders ever created)
          None     \* no process

ASSUME OrderNumbersAssumption ==
  None \notin Procs /\ IsFiniteSet(Orders) /\ IsFiniteSet(Procs)

VARIABLES orderNumber,  \* committed orders, as a function to their numbers
          lockedBy,     \* the transaction that holds an order's row FOR UPDATE
          pc,           \* the handlers in flight
          snapshot,     \* the orders a handler's SELECT sees
          before        \* history: an order's snapshot, kept when it commits

vars == <<orderNumber, lockedBy, pc, snapshot, before>>

Committed == DOMAIN orderNumber

Init ==
  /\ orderNumber = [o \in {} |-> 0]
  /\ lockedBy = [o \in Orders |-> None]
  /\ pc = [p \in Procs |-> "idle"]
  /\ snapshot = [p \in Procs |-> {}]
  /\ before = [o \in {} |-> {}]

\* The SELECT starts.
ReadOrders(p) ==
  /\ pc[p] = "idle"
  /\ pc' = [pc EXCEPT ![p] = "lock"]
  /\ snapshot' = [snapshot EXCEPT ![p] = Committed]
  /\ UNCHANGED <<orderNumber, lockedBy, before>>

\* ... and has locked every row it returns.
LockOrders(p) ==
  /\ pc[p] = "lock"
  /\ \A o \in snapshot[p] : lockedBy[o] = None
  /\ lockedBy' = [o \in Orders |-> IF o \in snapshot[p] THEN p ELSE lockedBy[o]]
  /\ pc' = [pc EXCEPT ![p] = "save"]
  /\ UNCHANGED <<orderNumber, snapshot, before>>

\* The first order by orderNumber, ascending and descending.
FirstAscending(S, o) == \A q \in S : orderNumber[o] <= orderNumber[q]
FirstDescending(S, o) == \A q \in S : orderNumber[q] <= orderNumber[o]

NumberFromZero(S) ==
  IF S = {} THEN 0
  ELSE (CHOOSE n \in {orderNumber[o] : o \in {q \in S : FirstDescending(S, q)}} : TRUE) + 1
NumberAfterDefaultingToOne(S) ==
  IF S = {} THEN 2
  ELSE (CHOOSE n \in {orderNumber[o] : o \in {q \in S : FirstDescending(S, q)}} : TRUE) + 1

\* (lastOrder?.orderNumber ?? 0) + 1
NextNumber(S) ==
  IF S = {} THEN 1
  ELSE (CHOOSE n \in {orderNumber[o] : o \in {q \in S : FirstDescending(S, q)}} : TRUE) + 1

EndTransaction(p) ==
  /\ pc' = [pc EXCEPT ![p] = "idle"]
  /\ snapshot' = [snapshot EXCEPT ![p] = {}]
  /\ lockedBy' = [o \in Orders |-> IF lockedBy[o] = p THEN None ELSE lockedBy[o]]

SaveOrder(p) == \E o \in Orders \ Committed :
  /\ pc[p] = "save"
  /\ orderNumber' = [q \in Committed \cup {o} |->
                       IF q = o THEN NextNumber(snapshot[p]) ELSE orderNumber[q]]
  /\ before' = [q \in Committed \cup {o} |-> IF q = o THEN snapshot[p] ELSE before[q]]
  /\ EndTransaction(p)

\* Any failure before the commit.  The number is not consumed.
Rollback(p) ==
  /\ pc[p] # "idle"
  /\ EndTransaction(p)
  /\ UNCHANGED <<orderNumber, before>>

Next == \E p \in Procs :
  ReadOrders(p) \/ LockOrders(p) \/ SaveOrder(p) \/ Rollback(p)

Spec == Init /\ [][Next]_vars

-------------------------------------------------------------------------------
(***************************************************************************)
(* The shape of every variable; only committed orders are ever locked.     *)
(***************************************************************************)
TypeOK ==
  /\ Committed \subseteq Orders
  /\ \A o \in Committed : orderNumber[o] \in Nat \ {0}
  /\ lockedBy \in [Orders -> Procs \cup {None}]
  /\ \A o \in Orders \ Committed : lockedBy[o] = None
  /\ pc \in [Procs -> {"idle", "lock", "save"}]
  /\ snapshot \in [Procs -> SUBSET Committed]
  /\ DOMAIN before = Committed
  /\ \A o \in Committed : before[o] \subseteq Committed

(***************************************************************************)
(* Numbers leave no gap, also when creations fail or race: every number is *)
(* 1 or follows a number that is in use.                                   *)
(***************************************************************************)
NoGaps == \A o \in Committed :
  orderNumber[o] = 1 \/ \E q \in Committed : orderNumber[o] = orderNumber[q] + 1

(***************************************************************************)
(* An order gets a larger number than every order that was committed when  *)
(* its own SELECT started.                                                 *)
(***************************************************************************)
LaterIsLarger == \A o \in Committed : \A q \in before[o] : orderNumber[q] < orderNumber[o]

(***************************************************************************)
(* Orders share a number only if their creations were in flight together:  *)
(* the SELECT of each had started when any other of them was committed.    *)
(* So two orders created one after the other never share a number, and no  *)
(* more orders share one than there are handlers.                          *)
(***************************************************************************)
Sharers(o) == {q \in Committed : orderNumber[q] = orderNumber[o]}

SharedOnlyByConcurrent == \A o \in Committed :
  /\ \A q, r \in Sharers(o) : q \notin before[r]
  /\ Cardinality(Sharers(o)) <= Cardinality(Procs)
================================================================================
