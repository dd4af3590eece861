--------------------------- MODULE OrderNumbersProofs ---------------------------
(***************************************************************************)
(* Theorems about OrderNumbers, for any number of handlers and orders:     *)
(* numbers leave no gap, an order's number is larger than all numbers its  *)
(* SELECT saw, and orders that share one were created at the same time, so *)
(* that they are no more than the handlers.                                *)
(*                                                                         *)
(* All need that a SELECT of some orders has a first one.  Numbers are     *)
(* bounded by how many orders there are (Bounded), so that among any       *)
(* orders the largest number exists.  For the last, the orders that have a *)
(* number and the handlers that are about to commit it are counted         *)
(* together (Room).                                                        *)
(***************************************************************************)
EXTENDS OrderNumbers, FiniteSetTheorems, WellFoundedInduction, TLAPS

Bounded == \A o \in Committed : orderNumber[o] <= Cardinality(Committed)
NumberInv == TypeOK /\ Bounded

USE OrderNumbersAssumption

(***************************************************************************)
(* Only finitely many orders are ever committed, so a largest number       *)
(* exists.                                                                 *)
(***************************************************************************)
LEMMA CommittedFinite ==
  ASSUME TypeOK
  PROVE  IsFiniteSet(Committed) /\ Cardinality(Committed) \in Nat
<1>1. IsFiniteSet(Committed)
  BY FS_Subset DEF TypeOK
<1>2. QED
  BY <1>1, FS_CardinalityType

(***************************************************************************)
(* ORDER BY orderNumber DESC has a first row as soon as it has any.        *)
(***************************************************************************)
LEMMA FirstExists ==
  ASSUME NumberInv, NEW S \in SUBSET Committed, S # {}
  PROVE  \E o \in S : FirstDescending(S, o)
<1>. DEFINE Below == {Cardinality(Committed) - orderNumber[o] : o \in S}
<1>1. \A o \in S : orderNumber[o] \in Nat /\ orderNumber[o] <= Cardinality(Committed)
  BY DEF NumberInv, TypeOK, Bounded
<1>2. Cardinality(Committed) \in Nat
  BY CommittedFinite DEF NumberInv
<1>3. Below \subseteq Nat /\ Below # {}
  BY <1>1, <1>2
<1>4. PICK d \in Below : \A e \in Below : ~ (<<e, d>> \in OpToRel(<, Nat))
  BY <1>3, NatLessThanWellFounded, WFMin
<1>5. PICK o \in S : d = Cardinality(Committed) - orderNumber[o]
  OBVIOUS
<1>6. ASSUME NEW q \in S PROVE orderNumber[q] <= orderNumber[o]
  <2>1. ~ (Cardinality(Committed) - orderNumber[q] < d)
    BY <1>3, <1>4 DEF OpToRel
  <2>2. QED
    BY <2>1, <1>1, <1>2, <1>5
<1>7. QED
  BY <1>6 DEF FirstDescending

(***************************************************************************)
(* The next number is 1, or one more than the largest number seen.         *)
(***************************************************************************)
LEMMA NextNumberFollows ==
  ASSUME NumberInv, NEW S \in SUBSET Committed
  PROVE  \/ S = {} /\ NextNumber(S) = 1
         \/ \E o \in S : FirstDescending(S, o) /\ NextNumber(S) = orderNumber[o] + 1
<1>1. CASE S = {}
  BY <1>1 DEF NextNumber
<1>2. CASE S # {}
  <2>. DEFINE Largest == {orderNumber[o] : o \in {q \in S : FirstDescending(S, q)}}
              n == CHOOSE n \in Largest : TRUE
  <2>1. Largest # {}
    BY <1>2, FirstExists
  <2>2. n \in Largest
    BY <2>1
  <2>3. PICK o \in S : FirstDescending(S, o) /\ n = orderNumber[o]
    BY <2>2
  <2>4. NextNumber(S) = n + 1
    BY <1>2 DEF NextNumber
  <2>. HIDE DEF n
  <2>5. QED
    BY <2>3, <2>4
<1>3. QED
  BY <1>1, <1>2

(***************************************************************************)
(* A positive number, at most one more than there are orders, and above    *)
(* every number seen.                                                      *)
(***************************************************************************)
LEMMA NextNumberRange ==
  ASSUME NumberInv, NEW S \in SUBSET Committed
  PROVE  /\ NextNumber(S) \in Nat \ {0}
         /\ NextNumber(S) <= Cardinality(Committed) + 1
         /\ \A q \in S : orderNumber[q] < NextNumber(S)
<1>1. \A o \in S : orderNumber[o] \in Nat /\ orderNumber[o] <= Cardinality(Committed)
  BY DEF NumberInv, TypeOK, Bounded
<1>2. Cardinality(Committed) \in Nat
  BY CommittedFinite DEF NumberInv
<1>3. CASE S = {}
  BY <1>2, <1>3, NextNumberFollows
<1>4. CASE S # {}
  <2>1. PICK o \in S : FirstDescending(S, o) /\ NextNumber(S) = orderNumber[o] + 1
    BY <1>4, NextNumberFollows
  <2>2. \A q \in S : orderNumber[q] <= orderNumber[o]
    BY <2>1 DEF FirstDescending
  <2>3. QED
    BY <1>1, <1>2, <2>1, <2>2
<1>5. QED
  BY <1>3, <1>4

(***************************************************************************)
(* Without orders there is nothing to number.                              *)
(***************************************************************************)
LEMMA NumberInit == Init => NumberInv
BY DEF Init, NumberInv, TypeOK, Bounded, Committed

(***************************************************************************)
(* What SaveOrder adds: one order, with the number that follows its        *)
(* snapshot.                                                               *)
(***************************************************************************)
LEMMA SaveAdds ==
  ASSUME NumberInv, NEW p \in Procs, SaveOrder(p)
  PROVE  \E o \in Orders \ Committed :
           /\ Committed' = Committed \cup {o}
           /\ orderNumber'[o] = NextNumber(snapshot[p])
           /\ before'[o] = snapshot[p]
           /\ DOMAIN before' = Committed'
           /\ \A q \in Committed : orderNumber'[q] = orderNumber[q] /\ before'[q] = before[q]
BY DEF SaveOrder, Committed

(***************************************************************************)
(* A transaction that ends releases its rows and its snapshot; what is     *)
(* left keeps its type.                                                    *)
(***************************************************************************)
LEMMA EndType ==
  ASSUME NumberInv, NEW p \in Procs, EndTransaction(p), Committed \subseteq Committed'
  PROVE  /\ lockedBy' \in [Orders -> Procs \cup {None}]
         /\ \A o \in Orders \ Committed' : lockedBy'[o] = None
         /\ pc' \in [Procs -> {"idle", "lock", "save"}]
         /\ snapshot' \in [Procs -> SUBSET Committed']
BY DEF NumberInv, TypeOK, EndTransaction

(***************************************************************************)
(* Every step of generateOrderNumber and of the transaction around it      *)
(* keeps the types and the bound on the numbers.                           *)
(***************************************************************************)
LEMMA NumberNext == NumberInv /\ [Next]_vars => NumberInv'
<1>. SUFFICES ASSUME NumberInv, [Next]_vars PROVE NumberInv'
  OBVIOUS
<1>1. CASE UNCHANGED vars
  BY <1>1 DEF vars, NumberInv, TypeOK, Bounded, Committed
<1>2. ASSUME NEW p \in Procs, ReadOrders(p)
      PROVE  NumberInv'
  BY <1>2 DEF ReadOrders, NumberInv, TypeOK, Bounded, Committed
<1>3. ASSUME NEW p \in Procs, LockOrders(p)
      PROVE  NumberInv'
  <2>1. snapshot[p] \subseteq Committed /\ Committed' = Committed
    BY <1>3 DEF LockOrders, NumberInv, TypeOK, Committed
  <2>2. /\ lockedBy' \in [Orders -> Procs \cup {None}]
        /\ \A o \in Orders \ Committed : lockedBy'[o] = None
    BY <1>3, <2>1 DEF LockOrders, NumberInv, TypeOK
  <2>3. QED
    BY <1>3, <2>1, <2>2 DEF LockOrders, NumberInv, TypeOK, Bounded
<1>4. ASSUME NEW p \in Procs, Rollback(p)
      PROVE  NumberInv'
  <2>1. Committed' = Committed /\ EndTransaction(p) /\ UNCHANGED <<orderNumber, before>>
    BY <1>4 DEF Rollback, Committed
  <2>2. TypeOK'
    BY <2>1, EndType DEF NumberInv, TypeOK
  <2>3. QED
    BY <2>1, <2>2 DEF NumberInv, Bounded
<1>5. ASSUME NEW p \in Procs, SaveOrder(p)
      PROVE  NumberInv'
  <2>1. PICK o \in Orders \ Committed :
          /\ Committed' = Committed \cup {o}
          /\ orderNumber'[o] = NextNumber(snapshot[p])
          /\ before'[o] = snapshot[p]
          /\ DOMAIN before' = Committed'
          /\ \A q \in Committed : orderNumber'[q] = orderNumber[q] /\ before'[q] = before[q]
    BY <1>5, SaveAdds
  <2>2. /\ NextNumber(snapshot[p]) \in Nat \ {0}
        /\ NextNumber(snapshot[p]) <= Cardinality(Committed) + 1
    BY NextNumberRange DEF NumberInv, TypeOK
  <2>3. Cardinality(Committed') = Cardinality(Committed) + 1
    BY <2>1, CommittedFinite, FS_AddElement DEF NumberInv
  <2>4. EndTransaction(p)
    BY <1>5 DEF SaveOrder
  <2>5. \A q \in Committed' : orderNumber'[q] \in Nat \ {0} /\ before'[q] \subseteq Committed'
    BY <2>1, <2>2 DEF NumberInv, TypeOK
  <2>6. TypeOK'
    BY <2>1, <2>4, <2>5, EndType DEF NumberInv, TypeOK
  <2>7. Bounded'
    <3>1. Cardinality(Committed) \in Nat
      BY CommittedFinite DEF NumberInv
    <3>2. \A q \in Committed : orderNumber[q] \in Nat /\ orderNumber[q] <= Cardinality(Committed)
      BY DEF NumberInv, TypeOK, Bounded
    <3>3. QED
      BY <2>1, <2>2, <2>3, <3>1, <3>2 DEF Bounded
  <2>8. QED
    BY <2>6, <2>7 DEF NumberInv
<1>6. QED
  BY <1>1, <1>2, <1>3, <1>4, <1>5 DEF Next

(***************************************************************************)
(* The types: numbers are positive and only committed orders are locked.   *)
(***************************************************************************)
THEOREM Typing == Spec => []TypeOK
<1>1. Spec => []NumberInv
  BY NumberInit, NumberNext, PTL DEF Spec
<1>2. QED
  BY <1>1, PTL DEF NumberInv

(***************************************************************************)
(* Both promises at once: they concern the order that SaveOrder adds, and  *)
(* no other order's number ever changes.                                   *)
(***************************************************************************)
LEMMA PromisesNext ==
  NumberInv /\ NoGaps /\ LaterIsLarger /\ [Next]_vars => NoGaps' /\ LaterIsLarger'
<1>. SUFFICES ASSUME NumberInv, NoGaps, LaterIsLarger, [Next]_vars
              PROVE  NoGaps' /\ LaterIsLarger'
  OBVIOUS
<1>1. CASE UNCHANGED <<orderNumber, before>>
  BY <1>1 DEF NoGaps, LaterIsLarger, Committed
<1>2. ASSUME NEW p \in Procs, SaveOrder(p)
      PROVE  NoGaps' /\ LaterIsLarger'
  <2>1. PICK o \in Orders \ Committed :
          /\ Committed' = Committed \cup {o}
          /\ orderNumber'[o] = NextNumber(snapshot[p])
          /\ before'[o] = snapshot[p]
          /\ DOMAIN before' = Committed'
          /\ \A q \in Committed : orderNumber'[q] = orderNumber[q] /\ before'[q] = before[q]
    BY <1>2, SaveAdds
  <2>2. snapshot[p] \subseteq Committed /\ \A q \in Committed : before[q] \subseteq Committed
    BY DEF NumberInv, TypeOK
  <2>3. NextNumber(snapshot[p]) = 1
        \/ \E q \in Committed : NextNumber(snapshot[p]) = orderNumber[q] + 1
    BY <2>2, NextNumberFollows
  <2>4. NoGaps'
    BY <2>1, <2>3 DEF NoGaps
  <2>5. \A q \in snapshot[p] : orderNumber[q] < NextNumber(snapshot[p])
    BY <2>2, NextNumberRange
  <2>6. LaterIsLarger'
    BY <2>1, <2>2, <2>5 DEF LaterIsLarger
  <2>7. QED
    BY <2>4, <2>6
<1>3. QED
  BY <1>1, <1>2 DEF Next, vars, ReadOrders, LockOrders, Rollback

(***************************************************************************)
(* A commit extends the gapless numbers by one that follows the largest it *)
(* saw: the two properties hold in every reachable state.                  *)
(***************************************************************************)
LEMMA Promises == Spec => [](NoGaps /\ LaterIsLarger)
<1>1. Init => NoGaps /\ LaterIsLarger
  BY DEF Init, NoGaps, LaterIsLarger, Committed
<1>2. QED
  BY <1>1, NumberInit, NumberNext, PromisesNext, PTL DEF Spec

(***************************************************************************)
(* generateOrderNumber leaves no gap, also when creations fail or race.    *)
(***************************************************************************)
THEOREM NumbersWithoutGaps == Spec => []NoGaps
BY Promises, PTL

(***************************************************************************)
(* An order's number is larger than those of all orders committed when its *)
(* SELECT started.                                                         *)
(***************************************************************************)
THEOREM NumbersIncrease == Spec => []LaterIsLarger
BY Promises, PTL

-------------------------------------------------------------------------------
(* How many orders may share a number *)

\* NextNumber of the orders S when f says what number each one has.
Chosen(T) == CHOOSE n \in T : TRUE
NextOf(f, S) ==
  IF S = {} THEN 1
  ELSE Chosen({f[o] : o \in {q \in S : \A r \in S : f[r] <= f[q]}}) + 1

\* The orders that have number k, and the handlers that are going to commit it.
Carriers(k) == {o \in Committed : orderNumber[o] = k}
Takers(k) == {p \in Procs : pc[p] # "idle" /\ NextOf(orderNumber, snapshot[p]) = k}

\* Once number k is committed, a SELECT that starts gets a larger one.
Room == \A k \in Nat : Carriers(k) # {} =>
  Cardinality(Carriers(k)) + Cardinality(Takers(k)) <= Cardinality(Procs)

(***************************************************************************)
(* NextOf is NextNumber with the state it reads made explicit.             *)
(***************************************************************************)
LEMMA NextNumberIsNextOf ==
  ASSUME NEW S
  PROVE  NextNumber(S) = NextOf(orderNumber, S)
BY DEF NextNumber, NextOf, Chosen, FirstDescending

(***************************************************************************)
(* It reads the numbers of the given orders only.                          *)
(***************************************************************************)
LEMMA NextOfStays ==
  ASSUME NEW f, NEW g, NEW S, \A q \in S : f[q] = g[q]
  PROVE  NextOf(f, S) = NextOf(g, S)
<1>1. {q \in S : \A r \in S : f[r] <= f[q]} = {q \in S : \A r \in S : g[r] <= g[q]}
  OBVIOUS
<1>2. {f[o] : o \in {q \in S : \A r \in S : f[r] <= f[q]}}
        = {g[o] : o \in {q \in S : \A r \in S : g[r] <= g[q]}}
  BY <1>1
<1>3. QED
  BY <1>2 DEF NextOf

(***************************************************************************)
(* Carriers and takers can be counted.                                     *)
(***************************************************************************)
LEMMA CanCount ==
  ASSUME TypeOK, NEW k
  PROVE  /\ IsFiniteSet(Carriers(k)) /\ Cardinality(Carriers(k)) \in Nat
         /\ IsFiniteSet(Takers(k)) /\ Cardinality(Takers(k)) \in Nat
         /\ Cardinality(Takers(k)) <= Cardinality(Procs) /\ Cardinality(Procs) \in Nat
<1>1. Carriers(k) \subseteq Orders /\ Takers(k) \subseteq Procs
  BY DEF Carriers, Takers, TypeOK
<1>2. QED
  BY <1>1, FS_Subset, FS_CardinalityType

(***************************************************************************)
(* A step that keeps the numbers and adds no taker keeps the room.         *)
(***************************************************************************)
LEMMA FewerTakers ==
  ASSUME TypeOK, Room, UNCHANGED orderNumber,
         \A k \in Nat : Carriers(k) # {} => Takers(k)' \subseteq Takers(k)
  PROVE  Room'
<1> SUFFICES ASSUME NEW k \in Nat, Carriers(k)' # {}
             PROVE  Cardinality(Carriers(k)') + Cardinality(Takers(k)') <= Cardinality(Procs)
  BY DEF Room
<1>1. Carriers(k)' = Carriers(k)
  BY DEF Carriers, Committed
<1>2. IsFiniteSet(Takers(k)) /\ Takers(k)' \subseteq Takers(k)
  BY <1>1, CanCount
<1>3. Cardinality(Takers(k)') <= Cardinality(Takers(k)) /\ Cardinality(Takers(k)') \in Nat
  BY <1>2, FS_Subset, FS_CardinalityType
<1>4. Cardinality(Carriers(k)) + Cardinality(Takers(k)) <= Cardinality(Procs)
  BY <1>1 DEF Room
<1>5. QED
  BY <1>1, <1>3, <1>4, CanCount

(***************************************************************************)
(* A SELECT that starts sees every committed order and is going to commit  *)
(* a number that no order has.                                             *)
(***************************************************************************)
LEMMA ReadRoom ==
  ASSUME NumberInv, Room, NEW p \in Procs, ReadOrders(p)
  PROVE  Room'
<1> SUFFICES ASSUME NEW k \in Nat, Carriers(k) # {}, NEW q \in Takers(k)'
             PROVE  q \in Takers(k)
  BY FewerTakers DEF ReadOrders, NumberInv
<1>1. /\ pc[p] = "idle" /\ snapshot' = [snapshot EXCEPT ![p] = Committed]
      /\ pc' = [pc EXCEPT ![p] = "lock"] /\ orderNumber' = orderNumber
  BY DEF ReadOrders
<1>2. q \in Procs /\ pc'[q] # "idle" /\ NextOf(orderNumber, snapshot'[q]) = k
  BY <1>1 DEF Takers
<1>3. NextOf(orderNumber, Committed) # k
  <2>1. PICK o \in Committed : orderNumber[o] = k
    BY DEF Carriers
  <2>2. orderNumber[o] < NextOf(orderNumber, Committed) /\ NextOf(orderNumber, Committed) \in Nat
    BY NextNumberRange, NextNumberIsNextOf
  <2>3. QED
    BY <2>1, <2>2
<1>4. q # p
  BY <1>1, <1>2, <1>3 DEF NumberInv, TypeOK
<1>5. pc'[q] = pc[q] /\ snapshot'[q] = snapshot[q]
  BY <1>1, <1>2, <1>4 DEF NumberInv, TypeOK
<1>6. QED
  BY <1>2, <1>5 DEF Takers

(***************************************************************************)
(* SaveOrder turns a taker of its number into a carrier.                   *)
(***************************************************************************)
LEMMA SaveRoom ==
  ASSUME NumberInv, Room, NEW p \in Procs, SaveOrder(p)
  PROVE  Room'
<1> SUFFICES ASSUME NEW k \in Nat, Carriers(k)' # {}
             PROVE  Cardinality(Carriers(k)') + Cardinality(Takers(k)') <= Cardinality(Procs)
  BY DEF Room
<1>1. PICK o \in Orders \ Committed :
        /\ Committed' = Committed \cup {o}
        /\ orderNumber'[o] = NextNumber(snapshot[p])
        /\ before'[o] = snapshot[p]
        /\ DOMAIN before' = Committed'
        /\ \A q \in Committed : orderNumber'[q] = orderNumber[q] /\ before'[q] = before[q]
  BY SaveAdds
<1>2. pc[p] = "save" /\ pc' = [pc EXCEPT ![p] = "idle"] /\ snapshot' = [snapshot EXCEPT ![p] = {}]
  BY DEF SaveOrder, EndTransaction
<1>3. Takers(k)' = Takers(k) \ {p}
  <2>1. ASSUME NEW q \in Procs, q # p
        PROVE  /\ pc'[q] = pc[q]
               /\ NextOf(orderNumber', snapshot'[q]) = NextOf(orderNumber, snapshot[q])
    <3>1. pc'[q] = pc[q] /\ snapshot'[q] = snapshot[q] /\ snapshot[q] \subseteq Committed
      BY <1>2, <2>1 DEF NumberInv, TypeOK
    <3>2. \A r \in snapshot[q] : orderNumber'[r] = orderNumber[r]
      BY <1>1, <3>1
    <3>3. QED
      BY <3>1, <3>2, NextOfStays
  <2>2. pc'[p] = "idle"
    BY <1>2 DEF NumberInv, TypeOK
  <2>3. QED
    BY <2>1, <2>2 DEF Takers
<1>4. /\ Cardinality(Takers(k) \ {p}) \in Nat
      /\ p \in Takers(k) => Cardinality(Takers(k) \ {p}) = Cardinality(Takers(k)) - 1
      /\ p \notin Takers(k) => Takers(k) \ {p} = Takers(k)
  BY CanCount, FS_RemoveElement, FS_CardinalityType DEF NumberInv
<1>5. CASE NextNumber(snapshot[p]) = k
  <2>1. p \in Takers(k)
    BY <1>2, <1>5, NextNumberIsNextOf DEF Takers
  <2>2. Carriers(k)' = Carriers(k) \cup {o} /\ o \notin Carriers(k)
    BY <1>1, <1>5 DEF Carriers
  <2>3. Cardinality(Carriers(k)') = Cardinality(Carriers(k)) + 1
    BY <2>2, CanCount, FS_AddElement DEF NumberInv
  <2>4. CASE Carriers(k) = {}
    BY <1>3, <1>4, <2>1, <2>3, <2>4, CanCount, FS_EmptySet DEF NumberInv
  <2>5. CASE Carriers(k) # {}
    BY <1>3, <1>4, <2>1, <2>3, <2>5, CanCount DEF NumberInv, Room
  <2>6. QED
    BY <2>4, <2>5
<1>6. CASE NextNumber(snapshot[p]) # k
  <2>1. Carriers(k)' = Carriers(k)
    BY <1>1, <1>6 DEF Carriers
  <2>2. p \notin Takers(k)
    BY <1>6, NextNumberIsNextOf DEF Takers
  <2>3. QED
    BY <1>3, <1>4, <2>1, <2>2 DEF Room
<1>7. QED
  BY <1>5, <1>6

(***************************************************************************)
(* The other steps move no number and add no taker.                        *)
(***************************************************************************)
LEMMA RoomNext == NumberInv /\ Room /\ [Next]_vars => Room'
<1> SUFFICES ASSUME NumberInv, Room, [Next]_vars PROVE Room'
  OBVIOUS
<1>1. CASE UNCHANGED vars
  BY <1>1 DEF vars, Room, Carriers, Takers, Committed
<1>2. ASSUME NEW p \in Procs, LockOrders(p) PROVE Room'
  <2>1. \A q \in Procs : pc'[q] # "idle" => pc[q] # "idle"
    BY <1>2 DEF LockOrders, NumberInv, TypeOK
  <2>2. QED
    BY <1>2, <2>1, FewerTakers DEF LockOrders, NumberInv, Takers
<1>3. ASSUME NEW p \in Procs, Rollback(p) PROVE Room'
  <2>1. \A q \in Procs : pc'[q] # "idle" => pc[q] # "idle" /\ snapshot'[q] = snapshot[q]
    BY <1>3 DEF Rollback, EndTransaction, NumberInv, TypeOK
  <2>2. QED
    BY <1>3, <2>1, FewerTakers DEF Rollback, NumberInv, Takers
<1>4. QED
  BY <1>1, <1>2, <1>3, ReadRoom, SaveRoom DEF Next

(***************************************************************************)
(* Orders share a number only if the creation of each had begun when any   *)
(* other of them was committed, and at most as many as there are handlers. *)
(***************************************************************************)
THEOREM SharedNumbersAreRare == Spec => []SharedOnlyByConcurrent
<1>1. Init => Room
  BY DEF Init, Room, Carriers, Committed
<1>2. NumberInv /\ Room /\ LaterIsLarger => SharedOnlyByConcurrent
  <2> SUFFICES ASSUME NumberInv, Room, LaterIsLarger, NEW o \in Committed
               PROVE  /\ \A q, r \in Sharers(o) : q \notin before[r]
                      /\ Cardinality(Sharers(o)) <= Cardinality(Procs)
    BY DEF SharedOnlyByConcurrent
  <2>1. orderNumber[o] \in Nat /\ Carriers(orderNumber[o]) # {}
    BY DEF NumberInv, TypeOK, Carriers
  <2>2. Cardinality(Sharers(o)) <= Cardinality(Procs)
    <3>1. Sharers(o) = Carriers(orderNumber[o])
      BY DEF Sharers, Carriers
    <3>2. Cardinality(Carriers(orderNumber[o])) <= Cardinality(Procs)
      BY <2>1, CanCount DEF NumberInv, Room
    <3>3. QED
      BY <3>1, <3>2
  <2>3. ASSUME NEW q \in Sharers(o), NEW r \in Sharers(o), q \in before[r]
        PROVE  FALSE
    <3>1. r \in Committed /\ orderNumber[q] = orderNumber[r]
      BY DEF Sharers
    <3>2. orderNumber[q] < orderNumber[r]
      BY <2>3, <3>1 DEF LaterIsLarger
    <3>3. orderNumber[q] \in Nat
      BY DEF NumberInv, TypeOK, Sharers
    <3>4. QED
      BY <3>1, <3>2, <3>3
  <2>4. QED
    BY <2>2, <2>3
<1>3. QED
  BY <1>1, <1>2, NumberInit, NumberNext, RoomNext, NumbersIncrease, PTL DEF Spec
================================================================================
