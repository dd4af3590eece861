----------------------------- MODULE ConnectionPool -----------------------------
(***************************************************************************)
(* The handlers of orders.service.ts as users of the connection pool.      *)
(* app.module.ts configures neither a pool size nor a connection timeout:  *)
(* a handler that finds the pool empty joins a queue and waits for ever.   *)
(*                                                                         *)
(* An operation is the script of its awaits that take, hold or give back   *)
(* something others wait for: "connect" takes a connection (a query runner *)
(* or one query of a repository), "ask" waits for organization-ms, "lock"  *)
(* waits for row locks, "commit" ends the transaction, "release" returns a *)
(* connection.  Row locks of all kinds are one lock.                       *)
(***************************************************************************)
EXTENDS Integers, FiniteSets, Sequences

CONSTANTS Procs,     \* handlers that may be in flight at once
          PoolSize,  \* connections of the pool
          None       \* no process

ASSUME ConnectionPoolAssumption ==
  /\ IsFiniteSet(Procs) /\ None \notin Procs
  /\ PoolSize \in Nat \ {0}

VARIABLES op, at,   \* what a handler does, and the next step of its script
          holds,    \* connections it holds
          idle,     \* connections in the pool
          queue,    \* handlers waiting for a connection, the oldest first
          rowLock   \* the transaction that has the row locks

vars == <<op, at, holds, idle, queue, rowLock>>

-------------------------------------------------------------------------------
(* The scripts.  Reads before the transaction have a connection of their   *)
(* own; "ask" is answered at once where the order is not scheduled.        *)

CreateAwaited == <<"connect", "ask", "lock", "commit", "connect", "release", "release">>

\* The line items are read by a call that nobody awaits: the query runner is
\* released in finally whether they have a connection or not.
Create == <<"connect", "ask", "lock", "commit", "release", "connect", "release">>

\* The order is read again after the commit and before the release in finally.
CreatePosOrder == <<"ask", "connect", "lock", "commit", "connect", "release", "release">>

Update == <<"connect", "release", "ask", "connect", "lock", "commit", "release">>

\* updateOrderItem too.
AddItem == <<"connect", "release", "connect", "ask", "lock", "commit", "release">>

\* removeOrderItem too.
UpdatePaymentStatus == <<"connect", "release", "connect", "lock", "commit", "release">>

Script == [create |-> Create, createPosOrder |-> CreatePosOrder, update |-> Update,
           addItem |-> AddItem, updatePaymentStatus |-> UpdatePaymentStatus]

Waiting == {queue[i] : i \in DOMAIN queue}
InFlight == {p \in Procs : op[p] # "none"}

\* p's script is at this step, and p is not in the queue.
At(p, step) ==
  /\ op[p] # "none" /\ p \notin Waiting
  /\ Script[op[p]][at[p]] = step

Init ==
  /\ op = [p \in Procs |-> "none"]
  /\ at = [p \in Procs |-> 1]
  /\ holds = [p \in Procs |-> 0]
  /\ idle = PoolSize
  /\ queue = <<>>
  /\ rowLock = None

Start(p) == \E o \in DOMAIN Script :
  /\ op[p] = "none"
  /\ op' = [op EXCEPT ![p] = o]
  /\ UNCHANGED <<at, holds, idle, queue, rowLock>>

\* The next step; after the last one the call is answered.
Advance(p) ==
  LET answered == at[p] = Len(Script[op[p]]) IN
  /\ at' = [at EXCEPT ![p] = IF answered THEN 1 ELSE @ + 1]
  /\ op' = [op EXCEPT ![p] = IF answered THEN "none" ELSE @]

Connect(p) ==
  /\ At(p, "connect")
  /\ queue' = Append(queue, p)
  /\ UNCHANGED <<op, at, holds, idle, rowLock>>

\* The pool serves its queue in order: who is next, and who then is left.
LastInLine(waiters) == Len(waiters)
FirstInLine(waiters) == 1
Rest(waiters, n) == [i \in 1 .. Len(waiters) - 1 |-> IF i < n THEN waiters[i] ELSE waiters[i + 1]]

Grant(p) ==
  /\ queue # <<>> /\ p = queue[FirstInLine(queue)]
  /\ idle > 0
  /\ idle' = idle - 1
  /\ holds' = [holds EXCEPT ![p] = @ + 1]
  /\ queue' = Rest(queue, FirstInLine(queue))
  /\ Advance(p)
  /\ UNCHANGED rowLock

Ask(p) ==
  /\ At(p, "ask")
  /\ Advance(p)
  /\ UNCHANGED <<holds, idle, queue, rowLock>>

Lock(p) ==
  /\ At(p, "lock")
  /\ rowLock = None
  /\ rowLock' = p
  /\ Advance(p)
  /\ UNCHANGED <<holds, idle, queue>>

Commit(p) ==
  /\ At(p, "commit")
  /\ rowLock' = None
  /\ Advance(p)
  /\ UNCHANGED <<holds, idle, queue>>

Release(p) ==
  /\ At(p, "release")
  /\ holds' = [holds EXCEPT ![p] = @ - 1]
  /\ idle' = idle + 1
  /\ Advance(p)
  /\ UNCHANGED <<queue, rowLock>>

\* catch and finally: rolled back, and released whatever was thrown.
NothingReleased(p) == 0
AllReleased(p) == holds[p]

Fail(p) ==
  /\ op[p] # "none" /\ p \notin Waiting
  /\ op' = [op EXCEPT ![p] = "none"]
  /\ at' = [at EXCEPT ![p] = 1]
  /\ idle' = idle + AllReleased(p)
  /\ holds' = [holds EXCEPT ![p] = 0]
  /\ rowLock' = IF rowLock = p THEN None ELSE rowLock
  /\ UNCHANGED queue

Continue(p) == Connect(p) \/ Grant(p) \/ Ask(p) \/ Commit(p) \/ Release(p)
Next == \E p \in Procs : Start(p) \/ Continue(p) \/ Lock(p) \/ Fail(p)

Spec == Init /\ [][Next]_vars

(***************************************************************************)
(* Ready continuations run, organization-ms answers, and PostgreSQL grants *)
(* a lock that keeps becoming free.  Nobody has to call, nothing has to    *)
(* fail.                                                                   *)
(***************************************************************************)
Fairness == \A p \in Procs : WF_vars(Continue(p)) /\ SF_vars(Lock(p))
FairSpec == Spec /\ Fairness

-------------------------------------------------------------------------------
(***************************************************************************)
(* The shape of every variable.  In particular no connection is ever lost  *)
(* or returned twice, on whatever path a handler ends: what is idle and    *)
(* what is held is the pool.                                               *)
(***************************************************************************)
Connections == {c \in Procs \X (1 .. 2) : c[2] <= holds[c[1]]}

TypeOK ==
  /\ op \in [Procs -> DOMAIN Script \cup {"none"}]
  /\ at \in [Procs -> 1 .. 7]
  /\ holds \in [Procs -> 0 .. 2]
  /\ idle + Cardinality(Connections) = PoolSize
  /\ Waiting \subseteq InFlight /\ Cardinality(Waiting) = Len(queue)
  /\ rowLock \in Procs \cup {None}

\* A createPosOrder that holds its connection until it gets a second one.
Reloading == {p \in Procs : op[p] = "createPosOrder" /\ holds[p] = 1 /\ p \in Waiting}

\* Something can happen to p without anybody else.
CanMove(p) ==
  /\ p \in Waiting => idle > 0 /\ p = queue[FirstInLine(queue)]
  /\ At(p, "lock") => rowLock = None

(***************************************************************************)
(* Handlers wait for connections, for row locks and for both.  The only    *)
(* way in which all that are in flight wait at the same time is a pool     *)
(* whose last connection went to a createPosOrder that has committed and   *)
(* waits for a second one to read its order: create, update and the item   *)
(* handlers never block each other for good.                               *)
(***************************************************************************)
StuckOnlyOnReload ==
  InFlight # {} /\ (\A p \in InFlight : ~ CanMove(p)) => Cardinality(Reloading) = PoolSize

(***************************************************************************)
(* While fewer createPosOrder calls are in flight than the pool has        *)
(* connections, every call is answered.                                    *)
(***************************************************************************)
FewPosOrders == Cardinality({p \in Procs : op[p] = "createPosOrder"}) < PoolSize

CallsAnswered ==
  []FewPosOrders => \A p \in Procs : op[p] # "none" ~> op[p] = "none"
================================================================================
