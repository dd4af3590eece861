-------------------------- MODULE ConnectionPoolProofs --------------------------
(***************************************************************************)
(* Theorems about ConnectionPool, for any number of handlers and any size  *)
(* of the pool: no connection is lost, and all handlers in flight wait at  *)
(* the same time only if the last connections are held by createPosOrder   *)
(* calls that want a second one.                                           *)
(*                                                                         *)
(* What a handler holds follows from where in its script it is (Held).  A  *)
(* handler with the row locks is about to commit and can go on, so if      *)
(* nobody can, everybody waits for a connection, and createPosOrder is the *)
(* only script that waits with one in its hand.                            *)
(***************************************************************************)
EXTENDS ConnectionPool, FiniteSetTheorems, TLAPS

\* The connections a handler holds before each step of its script.
Held == [create |-> <<0, 1, 1, 1, 1, 0, 1>>, createPosOrder |-> <<0, 0, 1, 1, 1, 2, 1>>,
         update |-> <<0, 1, 0, 0, 1, 1, 1>>, addItem |-> <<0, 1, 0, 1, 1, 1, 1>>,
         updatePaymentStatus |-> <<0, 1, 0, 1, 1, 1>>]

\* What a step does to them.
Change(step) == IF step = "connect" THEN 1 ELSE IF step = "release" THEN -1 ELSE 0

Operations == {"create", "createPosOrder", "update", "addItem", "updatePaymentStatus"}

Steps == {"connect", "ask", "lock", "commit", "release"}

(***************************************************************************)
(* Each script takes and gives back its connections one at a time, all of  *)
(* them, commits right after it got its locks, and asks for a connection   *)
(* with another one in its hand only in createPosOrder.                    *)
(***************************************************************************)
ScriptOK(o, len, script, held) ==
  /\ Len(script) = len /\ len \in 6 .. 7 /\ held[1] = 0
  /\ \A n \in 1 .. len :
       /\ script[n] \in Steps /\ held[n] \in 0 .. 2
       /\ n = len => held[n] + Change(script[n]) = 0
       /\ n < len => held[n] + Change(script[n]) = held[n + 1]
       /\ script[n] = "lock" => n < len /\ script[n + 1] = "commit"
       /\ script[n] = "connect" => held[n] = IF o = "createPosOrder" /\ n # 2 THEN 1 ELSE 0

LEMMA CreateScript == ScriptOK("create", 7, Create, Held.create)
BY SMTT(60) DEF Create, Held, ScriptOK, Change, Steps

LEMMA CreatePosOrderScript ==
  ScriptOK("createPosOrder", 7, CreatePosOrder, Held.createPosOrder)
BY SMTT(60) DEF CreatePosOrder, Held, ScriptOK, Change, Steps

LEMMA UpdateScript == ScriptOK("update", 7, Update, Held.update)
BY SMTT(60) DEF Update, Held, ScriptOK, Change, Steps

LEMMA AddItemScript == ScriptOK("addItem", 7, AddItem, Held.addItem)
BY SMTT(60) DEF AddItem, Held, ScriptOK, Change, Steps

LEMMA UpdatePaymentStatusScript ==
  ScriptOK("updatePaymentStatus", 6, UpdatePaymentStatus, Held.updatePaymentStatus)
BY SMTT(60) DEF UpdatePaymentStatus, Held, ScriptOK, Change, Steps

LEMMA Scripts ==
  ASSUME NEW o \in Operations
  PROVE  ScriptOK(o, Len(Script[o]), Script[o], Held[o])
<1>1. CASE o = "create"
  <2>1. Script[o] = Create /\ Held[o] = Held.create
    BY <1>1 DEF Script, Held
  <2> QED BY <1>1, <2>1, CreateScript DEF ScriptOK
<1>2. CASE o = "createPosOrder"
  <2>1. Script[o] = CreatePosOrder /\ Held[o] = Held.createPosOrder
    BY <1>2 DEF Script, Held
  <2> QED BY <1>2, <2>1, CreatePosOrderScript DEF ScriptOK
<1>3. CASE o = "update"
  <2>1. Script[o] = Update /\ Held[o] = Held.update
    BY <1>3 DEF Script, Held
  <2> QED BY <1>3, <2>1, UpdateScript DEF ScriptOK
<1>4. CASE o = "addItem"
  <2>1. Script[o] = AddItem /\ Held[o] = Held.addItem
    BY <1>4 DEF Script, Held
  <2> QED BY <1>4, <2>1, AddItemScript DEF ScriptOK
<1>5. CASE o = "updatePaymentStatus"
  <2>1. Script[o] = UpdatePaymentStatus /\ Held[o] = Held.updatePaymentStatus
    BY <1>5 DEF Script, Held
  <2> QED BY <1>5, <2>1, UpdatePaymentStatusScript DEF ScriptOK
<1> QED BY <1>1, <1>2, <1>3, <1>4, <1>5 DEF Operations

LEMMA ScriptNames == DOMAIN Script = Operations /\ "none" \notin Operations
BY DEF Script, Operations

-------------------------------------------------------------------------------
(* The inductive invariant.                                                *)

Doing(p, step) == op[p] # "none" /\ Script[op[p]][at[p]] = step

Shapes ==
  /\ op \in [Procs -> Operations \cup {"none"}]
  /\ at \in [Procs -> 1 .. 7]
  /\ holds \in [Procs -> 0 .. 2]
  /\ rowLock \in Procs \cup {None}

\* A handler is at a step of its script and holds what it holds there.
OnScript == \A p \in Procs :
  /\ op[p] = "none" => at[p] = 1 /\ holds[p] = 0
  /\ op[p] # "none" => at[p] <= Len(Script[op[p]]) /\ holds[p] = Held[op[p]][at[p]]

\* Nobody is in the queue twice, and who is there wants a connection.
InLine ==
  /\ queue \in Seq(Procs)
  /\ \A i, j \in 1 .. Len(queue) : queue[i] = queue[j] => i = j
  /\ \A i \in 1 .. Len(queue) : Doing(queue[i], "connect")

\* Who has the row locks commits next.
LockInv == rowLock # None => Doing(rowLock, "commit")

Balance == idle \in Nat /\ idle + Cardinality(Connections) = PoolSize

IInv == Shapes /\ OnScript /\ InLine /\ LockInv /\ Balance

-------------------------------------------------------------------------------
(* A step of one script.                                                   *)

\* What p holds changes by what its step says.
Takes(p) == holds' = [holds EXCEPT ![p] = @ + Change(Script[op[p]][at[p]])]

LEMMA AtStep ==
  ASSUME Shapes, OnScript, NEW p \in Procs, op[p] # "none"
  PROVE  /\ op[p] \in Operations /\ at[p] \in 1 .. Len(Script[op[p]])
         /\ ScriptOK(op[p], Len(Script[op[p]]), Script[op[p]], Held[op[p]])
         /\ holds[p] = Held[op[p]][at[p]]
<1>1. op[p] \in Operations
  BY DEF Shapes
<1>2. ScriptOK(op[p], Len(Script[op[p]]), Script[op[p]], Held[op[p]])
  BY <1>1, Scripts
<1>3. at[p] \in 1 .. Len(Script[op[p]])
  BY <1>2 DEF Shapes, OnScript, ScriptOK
<1> QED BY <1>1, <1>2, <1>3 DEF OnScript

LEMMA Advances ==
  ASSUME Shapes, OnScript, NEW p \in Procs, op[p] # "none", Advance(p), Takes(p)
  PROVE  /\ op' \in [Procs -> Operations \cup {"none"}]
         /\ at' \in [Procs -> 1 .. 7]
         /\ holds' \in [Procs -> 0 .. 2]
         /\ OnScript'
         /\ Doing(p, "lock") => Doing(p, "commit")'
         /\ \A q \in Procs \ {p} : op'[q] = op[q] /\ at'[q] = at[q] /\ holds'[q] = holds[q]
<1> DEFINE o == op[p]
           n == at[p]
           len == Len(Script[o])
           step == Script[o][n]
<1>1. /\ o \in Operations /\ n \in 1 .. len /\ ScriptOK(o, len, Script[o], Held[o])
      /\ holds[p] = Held[o][n]
  BY AtStep
<1>2. /\ len \in 6 .. 7 /\ Held[o][1] = 0
      /\ step \in Steps /\ Held[o][n] \in 0 .. 2
      /\ n = len => Held[o][n] + Change(step) = 0
      /\ n < len => Held[o][n] + Change(step) = Held[o][n + 1]
      /\ n < len => Held[o][n + 1] \in 0 .. 2
      /\ step = "lock" => n < len /\ Script[o][n + 1] = "commit"
  BY <1>1 DEF ScriptOK
<1>3. /\ op' = [op EXCEPT ![p] = IF n = len THEN "none" ELSE o]
      /\ at' = [at EXCEPT ![p] = IF n = len THEN 1 ELSE n + 1]
      /\ holds' = [holds EXCEPT ![p] = Held[o][n] + Change(step)]
  BY <1>1 DEF Advance, Takes, Shapes
<1> HIDE DEF step, len
<1>4. \A q \in Procs \ {p} : op'[q] = op[q] /\ at'[q] = at[q] /\ holds'[q] = holds[q]
  BY <1>3 DEF Shapes
<1>5. /\ op'[p] = IF n = len THEN "none" ELSE o
      /\ at'[p] = IF n = len THEN 1 ELSE n + 1
      /\ holds'[p] = Held[o][n] + Change(step)
  BY <1>3 DEF Shapes
<1>6. /\ op' \in [Procs -> Operations \cup {"none"}]
      /\ at' \in [Procs -> 1 .. 7]
      /\ holds' \in [Procs -> 0 .. 2]
  <2>1. op' \in [Procs -> Operations \cup {"none"}]
    BY <1>1, <1>3 DEF Shapes
  <2>2. at' \in [Procs -> 1 .. 7]
    BY <1>1, <1>2, <1>3 DEF Shapes
  <2>3. Held[o][n] + Change(step) \in 0 .. 2
    BY <1>1, <1>2
  <2>4. holds' \in [Procs -> 0 .. 2]
    BY <1>3, <2>3 DEF Shapes
  <2> QED BY <2>1, <2>2, <2>4
<1>7. OnScript'
  <2> SUFFICES ASSUME NEW q \in Procs
               PROVE  /\ op'[q] = "none" => at'[q] = 1 /\ holds'[q] = 0
                      /\ op'[q] # "none" =>
                           at'[q] <= Len(Script[op'[q]]) /\ holds'[q] = Held[op'[q]][at'[q]]
    BY DEF OnScript
  <2>1. CASE q # p
    BY <1>4, <2>1 DEF OnScript
  <2>2. CASE q = p /\ n = len
    BY <1>2, <1>5, <2>2
  <2>3. CASE q = p /\ n # len
    BY <1>1, <1>2, <1>5, <2>3, ScriptNames DEF len
  <2> QED BY <2>1, <2>2, <2>3
<1>8. Doing(p, "lock") => Doing(p, "commit")'
  <2> SUFFICES ASSUME step = "lock" PROVE op'[p] # "none" /\ Script[op'[p]][at'[p]] = "commit"
    BY DEF Doing, step
  <2> QED BY <1>1, <1>2, <1>5, ScriptNames
<1> QED BY <1>4, <1>6, <1>7, <1>8

-------------------------------------------------------------------------------
(* The connections that are held.                                          *)

LEMMA ConnectionsFinite == IsFiniteSet(Connections)
<1>1. IsFiniteSet(Procs)
  BY ConnectionPoolAssumption
<1>2. IsFiniteSet(Procs \X (1 .. 2))
  <2>1. IsFiniteSet(1 .. 2)
    BY 1 \in Int, 2 \in Int, FS_Interval, Zenon
  <2> QED BY <1>1, <2>1, FS_Product
<1>3. Connections \subseteq Procs \X (1 .. 2)
  BY DEF Connections
<1> QED BY <1>2, <1>3, FS_Subset

LEMMA OneMore ==
  ASSUME Shapes, NEW p \in Procs, holds[p] \in 0 .. 1, holds' = [holds EXCEPT ![p] = @ + 1]
  PROVE  Cardinality(Connections') = Cardinality(Connections) + 1
<1>1. Connections' = Connections \cup {<<p, holds[p] + 1>>}
  <2>1. ASSUME NEW c \in Procs \X (1 .. 2)
        PROVE  c[2] <= holds'[c[1]] <=> (c[2] <= holds[c[1]] \/ c = <<p, holds[p] + 1>>)
    <3>1. CASE c[1] = p
      <4>1. c = <<p, c[2]>> /\ c[2] \in 1 .. 2 /\ holds'[p] = holds[p] + 1
        BY <3>1 DEF Shapes
      <4> QED BY <3>1, <4>1
    <3>2. CASE c[1] # p
      BY <3>2 DEF Shapes
    <3> QED BY <3>1, <3>2
  <2>2. <<p, holds[p] + 1>> \in Procs \X (1 .. 2)
    OBVIOUS
  <2> QED BY <2>1, <2>2 DEF Connections
<1>2. <<p, holds[p] + 1>> \notin Connections
  BY DEF Connections
<1> QED BY <1>1, <1>2, ConnectionsFinite, FS_AddElement

LEMMA OneLess ==
  ASSUME Shapes, NEW p \in Procs, holds[p] \in 1 .. 2, holds' = [holds EXCEPT ![p] = @ - 1]
  PROVE  Cardinality(Connections') = Cardinality(Connections) - 1
<1>1. Connections' = Connections \ {<<p, holds[p]>>}
  <2>1. ASSUME NEW c \in Procs \X (1 .. 2)
        PROVE  c[2] <= holds'[c[1]] <=> (c[2] <= holds[c[1]] /\ c # <<p, holds[p]>>)
    <3>1. CASE c[1] = p
      <4>1. c = <<p, c[2]>> /\ c[2] \in 1 .. 2 /\ holds'[p] = holds[p] - 1
        BY <3>1 DEF Shapes
      <4> QED BY <3>1, <4>1
    <3>2. CASE c[1] # p
      BY <3>2 DEF Shapes
    <3> QED BY <3>1, <3>2
  <2> QED BY <2>1 DEF Connections
<1>2. <<p, holds[p]>> \in Connections
  BY DEF Connections
<1> QED BY <1>1, <1>2, ConnectionsFinite, FS_RemoveElement

-------------------------------------------------------------------------------
(* The queue.                                                              *)

LEMMA QueueMembers ==
  ASSUME InLine
  PROVE  /\ Waiting = {queue[i] : i \in 1 .. Len(queue)}
         /\ Waiting \subseteq InFlight
         /\ \A p \in Waiting : Doing(p, "connect")
<1>1. DOMAIN queue = 1 .. Len(queue) /\ queue \in [1 .. Len(queue) -> Procs]
  BY DEF InLine
<1>2. Waiting = {queue[i] : i \in 1 .. Len(queue)}
  BY <1>1 DEF Waiting
<1>3. \A i \in 1 .. Len(queue) : queue[i] \in Procs /\ Doing(queue[i], "connect")
  BY <1>1 DEF InLine
<1> QED BY <1>2, <1>3 DEF InFlight, Doing

\* A handler that is not in the queue goes on, and nothing is added.
LEMMA OthersInLine ==
  ASSUME Shapes, InLine, NEW p \in Procs, p \notin Waiting, UNCHANGED queue,
         \A q \in Procs \ {p} : op'[q] = op[q] /\ at'[q] = at[q]
  PROVE  InLine'
<1>1. \A i \in 1 .. Len(queue) : queue[i] \in Procs \ {p}
  BY QueueMembers DEF InLine
<1>2. \A i \in 1 .. Len(queue) : Doing(queue[i], "connect")'
  BY <1>1 DEF InLine, Doing
<1> QED BY <1>2 DEF InLine

\* The same for the row locks.
LEMMA OthersLocks ==
  ASSUME Shapes, LockInv, NEW p \in Procs, rowLock' = rowLock, rowLock # p,
         \A q \in Procs \ {p} : op'[q] = op[q] /\ at'[q] = at[q]
  PROVE  LockInv'
BY DEF LockInv, Doing, Shapes

-------------------------------------------------------------------------------
(* The steps.                                                              *)

LEMMA ConnectKeeps ==
  ASSUME IInv, NEW p \in Procs, Connect(p)
  PROVE  IInv'
<1>1. p \notin Waiting /\ Doing(p, "connect")
  BY DEF Connect, At, Doing
<1>2. \A q : Doing(q, "connect") <=> Doing(q, "connect")'
  BY DEF Connect, Doing
<1>3. InLine'
  <2>1. /\ queue \in Seq(Procs) /\ queue' = Append(queue, p)
        /\ \A i \in 1 .. Len(queue) : queue[i] # p
    BY <1>1, QueueMembers DEF Connect, IInv, InLine
  <2>2. /\ queue' \in Seq(Procs) /\ Len(queue') = Len(queue) + 1
        /\ \A i \in 1 .. Len(queue) : queue'[i] = queue[i]
        /\ queue'[Len(queue) + 1] = p
    BY <2>1
  <2>3. \A i \in 1 .. Len(queue') : i \in 1 .. Len(queue) \/ i = Len(queue) + 1
    BY <2>1, <2>2
  <2>4. \A i, j \in 1 .. Len(queue') : queue'[i] = queue'[j] => i = j
    BY <2>1, <2>2, <2>3 DEF IInv, InLine
  <2>5. \A i \in 1 .. Len(queue') : Doing(queue[i], "connect")'
    BY <1>1, <1>2, <2>2, <2>3 DEF IInv, InLine, Doing
  <2> QED BY <2>2, <2>4, <2>5 DEF InLine
<1>4. Shapes' /\ OnScript' /\ LockInv' /\ Balance'
  BY DEF Connect, IInv, Shapes, OnScript, LockInv, Doing, Balance, Connections
<1> QED BY <1>3, <1>4 DEF IInv

LEMMA GrantKeeps ==
  ASSUME IInv, NEW p \in Procs, Grant(p)
  PROVE  IInv'
<1> DEFINE rest == Len(queue) - 1
<1>1. /\ queue \in Seq(Procs) /\ Len(queue) \in Nat \ {0}
      /\ p = queue[1] /\ queue' = [i \in 1 .. rest |-> queue[i + 1]]
  BY DEF Grant, IInv, InLine, FirstInLine, Rest
<1>2. Doing(p, "connect") /\ op[p] # "none"
  BY <1>1 DEF IInv, InLine, Doing
<1>3. /\ Script[op[p]][at[p]] = "connect"
      /\ op[p] \in Operations
      /\ holds[p] \in 0 .. 1
  BY <1>2, AtStep DEF IInv, Doing, ScriptOK
<1>4. Takes(p) /\ holds' = [holds EXCEPT ![p] = @ + 1]
  BY <1>3 DEF Takes, Change, Grant
<1>5. /\ op' \in [Procs -> Operations \cup {"none"}] /\ at' \in [Procs -> 1 .. 7]
      /\ holds' \in [Procs -> 0 .. 2] /\ OnScript'
      /\ \A q \in Procs \ {p} : op'[q] = op[q] /\ at'[q] = at[q]
  BY <1>2, <1>4, Advances DEF Grant, IInv
<1>6. Shapes'
  BY <1>5 DEF IInv, Shapes, Grant
<1>7. InLine'
  <2>1. /\ queue' \in Seq(Procs) /\ Len(queue') = rest
        /\ \A i \in 1 .. rest : queue'[i] = queue[i + 1] /\ i + 1 \in 1 .. Len(queue)
    <3>1. \A i \in 1 .. rest : i + 1 \in 1 .. Len(queue) /\ queue[i + 1] \in Procs
      BY <1>1
    <3>2. rest \in Nat
      BY <1>1
    <3> QED BY <1>1, <3>1, <3>2
  <2>2. \A i \in 1 .. rest : queue'[i] \in Procs \ {p} /\ Doing(queue'[i], "connect")
    BY <1>1, <2>1 DEF IInv, InLine
  <2>3. \A i, j \in 1 .. rest : queue'[i] = queue'[j] => i = j
    BY <1>1, <2>1 DEF IInv, InLine
  <2>4. \A i \in 1 .. rest : Doing(queue[i], "connect")'
    BY <1>5, <2>2 DEF Doing
  <2> QED BY <2>1, <2>3, <2>4 DEF InLine
<1>8. LockInv'
  <2>1. rowLock' = rowLock /\ rowLock # p
    BY <1>2, ConnectionPoolAssumption DEF Grant, IInv, LockInv, Doing
  <2> QED BY <1>5, <2>1, OthersLocks DEF IInv
<1>9. Balance'
  <2>1. Cardinality(Connections') = Cardinality(Connections) + 1
    BY <1>3, <1>4, OneMore DEF IInv
  <2>2. Cardinality(Connections) \in Nat
    BY ConnectionsFinite, FS_CardinalityType
  <2>3. idle > 0 /\ idle' = idle - 1
    BY DEF Grant
  <2> QED BY <2>1, <2>2, <2>3 DEF IInv, Balance
<1> QED BY <1>5, <1>6, <1>7, <1>8, <1>9 DEF IInv

LEMMA AskKeeps ==
  ASSUME IInv, NEW p \in Procs, Ask(p)
  PROVE  IInv'
<1>1. op[p] # "none" /\ p \notin Waiting /\ Script[op[p]][at[p]] = "ask"
  BY DEF Ask, At
<1>2. Takes(p)
  BY <1>1, AtStep DEF Takes, Change, Ask, IInv, Shapes
<1>3. /\ op' \in [Procs -> Operations \cup {"none"}] /\ at' \in [Procs -> 1 .. 7]
      /\ holds' \in [Procs -> 0 .. 2] /\ OnScript'
      /\ \A q \in Procs \ {p} : op'[q] = op[q] /\ at'[q] = at[q]
  BY <1>1, <1>2, Advances DEF Ask, IInv
<1>4. Shapes'
  BY <1>3 DEF IInv, Shapes, Ask
<1>5. InLine'
  BY <1>1, <1>3, OthersInLine DEF IInv, Ask
<1>6. LockInv'
  <2>1. rowLock' = rowLock /\ rowLock # p
    BY <1>1, ConnectionPoolAssumption DEF Ask, IInv, LockInv, Doing
  <2> QED BY <1>3, <2>1, OthersLocks DEF IInv
<1>7. Balance'
  BY DEF IInv, Balance, Connections, Ask
<1> QED BY <1>3, <1>4, <1>5, <1>6, <1>7 DEF IInv

LEMMA LockKeeps ==
  ASSUME IInv, NEW p \in Procs, Lock(p)
  PROVE  IInv'
<1>1. op[p] # "none" /\ p \notin Waiting /\ Doing(p, "lock") /\ Script[op[p]][at[p]] = "lock"
  BY DEF Lock, At, Doing
<1>2. Takes(p)
  BY <1>1, AtStep DEF Takes, Change, Lock, IInv, Shapes
<1>3. /\ op' \in [Procs -> Operations \cup {"none"}] /\ at' \in [Procs -> 1 .. 7]
      /\ holds' \in [Procs -> 0 .. 2] /\ OnScript'
      /\ Doing(p, "commit")'
      /\ \A q \in Procs \ {p} : op'[q] = op[q] /\ at'[q] = at[q]
  BY <1>1, <1>2, Advances DEF Lock, IInv
<1>4. Shapes'
  BY <1>3 DEF IInv, Shapes, Lock
<1>5. InLine'
  BY <1>1, <1>3, OthersInLine DEF IInv, Lock
<1>6. LockInv'
  BY <1>3 DEF LockInv, Lock, Doing
<1>7. Balance'
  BY DEF IInv, Balance, Connections, Lock
<1> QED BY <1>3, <1>4, <1>5, <1>6, <1>7 DEF IInv

LEMMA CommitKeeps ==
  ASSUME IInv, NEW p \in Procs, Commit(p)
  PROVE  IInv'
<1>1. op[p] # "none" /\ p \notin Waiting /\ Script[op[p]][at[p]] = "commit"
  BY DEF Commit, At
<1>2. Takes(p)
  BY <1>1, AtStep DEF Takes, Change, Commit, IInv, Shapes
<1>3. /\ op' \in [Procs -> Operations \cup {"none"}] /\ at' \in [Procs -> 1 .. 7]
      /\ holds' \in [Procs -> 0 .. 2] /\ OnScript'
      /\ \A q \in Procs \ {p} : op'[q] = op[q] /\ at'[q] = at[q]
  BY <1>1, <1>2, Advances DEF Commit, IInv
<1>4. Shapes' /\ LockInv'
  BY <1>3 DEF IInv, Shapes, LockInv, Commit
<1>5. InLine'
  BY <1>1, <1>3, OthersInLine DEF IInv, Commit
<1>6. Balance'
  BY DEF IInv, Balance, Connections, Commit
<1> QED BY <1>3, <1>4, <1>5, <1>6 DEF IInv

LEMMA ReleaseKeeps ==
  ASSUME IInv, NEW p \in Procs, Release(p)
  PROVE  IInv'
<1>1. op[p] # "none" /\ p \notin Waiting /\ Script[op[p]][at[p]] = "release"
  BY DEF Release, At
<1>2. Takes(p)
  BY <1>1, AtStep DEF Takes, Change, Release, IInv, Shapes
<1>3. /\ op' \in [Procs -> Operations \cup {"none"}] /\ at' \in [Procs -> 1 .. 7]
      /\ holds' \in [Procs -> 0 .. 2] /\ OnScript'
      /\ \A q \in Procs \ {p} : op'[q] = op[q] /\ at'[q] = at[q]
  BY <1>1, <1>2, Advances DEF Release, IInv
<1>4. Shapes'
  BY <1>3 DEF IInv, Shapes, Release
<1>5. InLine'
  BY <1>1, <1>3, OthersInLine DEF IInv, Release
<1>6. LockInv'
  <2>1. rowLock' = rowLock /\ rowLock # p
    BY <1>1, ConnectionPoolAssumption DEF Release, IInv, LockInv, Doing
  <2> QED BY <1>3, <2>1, OthersLocks DEF IInv
<1>7. Balance'
  <2>1. holds'[p] = holds[p] - 1 /\ holds[p] \in 0 .. 2 /\ holds'[p] \in 0 .. 2
    BY <1>3 DEF Release, IInv, Shapes
  <2>2. holds[p] \in 1 .. 2
    BY <2>1
  <2>3. Cardinality(Connections') = Cardinality(Connections) - 1
    BY <2>2, OneLess DEF IInv, Release
  <2>4. Cardinality(Connections) \in Nat
    BY ConnectionsFinite, FS_CardinalityType
  <2> QED BY <2>3, <2>4 DEF IInv, Balance, Release
<1> QED BY <1>3, <1>4, <1>5, <1>6, <1>7 DEF IInv

LEMMA FailKeeps ==
  ASSUME IInv, NEW p \in Procs, Fail(p)
  PROVE  IInv'
<1>1. /\ op' = [op EXCEPT ![p] = "none"] /\ at' = [at EXCEPT ![p] = 1]
      /\ holds' = [holds EXCEPT ![p] = 0] /\ idle' = idle + holds[p]
      /\ UNCHANGED queue /\ p \notin Waiting
  BY DEF Fail, AllReleased
<1>2. Shapes'
  BY <1>1 DEF Fail, IInv, Shapes
<1>3. /\ op'[p] = "none" /\ at'[p] = 1 /\ holds'[p] = 0
      /\ \A q \in Procs \ {p} : op'[q] = op[q] /\ at'[q] = at[q] /\ holds'[q] = holds[q]
  BY <1>1 DEF IInv, Shapes
<1>4. OnScript'
  BY <1>3 DEF IInv, OnScript
<1>5. InLine'
  BY <1>1, <1>3, OthersInLine DEF IInv
<1>6. LockInv'
  <2>1. CASE rowLock = p
    BY <2>1 DEF Fail, LockInv
  <2>2. CASE rowLock # p
    BY <1>3, <2>2, OthersLocks DEF Fail, IInv
  <2> QED BY <2>1, <2>2
<1>7. Balance'
  <2>1. Connections \ Connections' = {p} \X (1 .. holds[p]) /\ Connections' \subseteq Connections
    BY <1>3 DEF Connections, IInv, Shapes
  <2>2. holds[p] \in 0 .. 2
    BY DEF IInv, Shapes
  <2>3. IsFiniteSet({p} \X (1 .. holds[p])) /\ Cardinality({p} \X (1 .. holds[p])) = holds[p]
    <3>1. IsFiniteSet(1 .. holds[p]) /\ Cardinality(1 .. holds[p]) = holds[p]
      BY <2>2, FS_Interval
    <3>2. IsFiniteSet({p}) /\ Cardinality({p}) = 1
      BY FS_Singleton
    <3>3. /\ IsFiniteSet({p} \X (1 .. holds[p]))
          /\ Cardinality({p} \X (1 .. holds[p])) = Cardinality({p}) * Cardinality(1 .. holds[p])
      BY <3>1, <3>2, FS_Product
    <3>4. 1 * holds[p] = holds[p]
      BY <2>2
    <3> QED BY <3>1, <3>2, <3>3, <3>4
  <2>4. /\ Connections' \cap (Connections \ Connections') = {}
        /\ Connections' \cup (Connections \ Connections') = Connections
    BY <2>1
  <2>5. IsFiniteSet(Connections')
    BY <2>1, ConnectionsFinite, FS_Subset
  <2>6. Cardinality(Connections) = Cardinality(Connections') + holds[p]
    <3> DEFINE gone == Connections \ Connections'
    <3>1. IsFiniteSet(gone) /\ Cardinality(gone) = holds[p]
      BY <2>1, <2>3
    <3>2. Connections' \cap gone = {} /\ Connections' \cup gone = Connections
      BY <2>4
    <3> HIDE DEF gone
    <3>3. Cardinality(Connections' \cup gone)
            = Cardinality(Connections') + Cardinality(gone) - Cardinality(Connections' \cap gone)
      BY <2>5, <3>1, FS_Union
    <3>4. Cardinality(Connections' \cap gone) = 0
      BY <3>2, FS_EmptySet
    <3>5. Cardinality(Connections') \in Nat
      BY <2>5, FS_CardinalityType
    <3>6. Cardinality(Connections' \cup gone) = Cardinality(Connections)
      BY <3>2
    <3> DEFINE kept == Cardinality(Connections')
               all == Cardinality(Connections' \cup gone)
    <3>7. all = kept + holds[p] - 0
      BY <3>1, <3>3, <3>4, Zenon
    <3>8. kept \in Nat
      BY <3>5
    <3> HIDE DEF kept, all
    <3>9. all = kept + holds[p]
      BY <2>2, <3>7, <3>8
    <3> QED BY <3>6, <3>9, Zenon DEF kept, all
  <2>7. Cardinality(Connections') \in Nat
    BY <2>5, FS_CardinalityType
  <2> QED BY <1>1, <2>2, <2>6, <2>7 DEF IInv, Balance
<1> QED BY <1>2, <1>4, <1>5, <1>6, <1>7 DEF IInv

-------------------------------------------------------------------------------
(* The theorems.                                                           *)

LEMMA InitHolds == Init => IInv
<1> SUFFICES ASSUME Init PROVE IInv
  OBVIOUS
<1>1. Shapes /\ OnScript /\ LockInv
  BY ScriptNames DEF Init, Shapes, OnScript, LockInv
<1>2. InLine
  BY DEF Init, InLine
<1>3. Balance
  <2>1. Connections = {}
    BY DEF Connections, Init
  <2> QED BY <2>1, FS_EmptySet, ConnectionPoolAssumption DEF Init, Balance
<1> QED BY <1>1, <1>2, <1>3 DEF IInv

\* IInv is inductive: one case per action.
LEMMA Inductive == Spec => []IInv
<1>1. IInv /\ [Next]_vars => IInv'
  <2> SUFFICES ASSUME IInv, [Next]_vars PROVE IInv'
    OBVIOUS
  <2>1. ASSUME NEW p \in Procs, Start(p) PROVE IInv'
    <3>1. PICK o \in Operations :
            op[p] = "none" /\ op' = [op EXCEPT ![p] = o]
            /\ UNCHANGED <<at, holds, idle, queue, rowLock>>
      BY <2>1, ScriptNames DEF Start
    <3>2. /\ op'[p] = o /\ \A q \in Procs \ {p} : op'[q] = op[q]
          /\ at'[p] = 1 /\ holds'[p] = 0
      BY <3>1 DEF IInv, Shapes, OnScript
    <3>3. Shapes'
      BY <3>1 DEF IInv, Shapes
    <3>4. OnScript'
      <4>1. 1 <= Len(Script[o]) /\ Held[o][1] = 0
        BY Scripts DEF ScriptOK
      <4> QED BY <3>1, <3>2, <4>1, ScriptNames DEF IInv, OnScript
    <3>5. InLine'
      <4>1. p \notin Waiting
        BY <3>1, QueueMembers DEF IInv, Doing
      <4> QED BY <3>1, <3>2, <4>1, OthersInLine DEF IInv
    <3>6. LockInv'
      <4>1. rowLock # p
        BY <3>1, ConnectionPoolAssumption DEF IInv, LockInv, Doing
      <4> QED BY <3>1, <3>2, <4>1, OthersLocks DEF IInv
    <3>7. Balance'
      BY <3>1 DEF IInv, Balance, Connections
    <3> QED BY <3>3, <3>4, <3>5, <3>6, <3>7 DEF IInv
  <2>2. ASSUME NEW p \in Procs, Continue(p) PROVE IInv'
    BY <2>2, ConnectKeeps, GrantKeeps, AskKeeps, CommitKeeps, ReleaseKeeps DEF Continue
  <2>3. CASE UNCHANGED vars
    BY <2>3 DEF vars, IInv, Shapes, OnScript, InLine, LockInv, Balance, Doing, Connections
  <2> QED BY <2>1, <2>2, <2>3, LockKeeps, FailKeeps DEF Next
<1> QED BY <1>1, InitHolds, PTL DEF Spec

(***************************************************************************)
(* TypeOK holds in every reachable state: on whatever path a handler ends, *)
(* what is idle and what is held is the pool, and the queue holds each     *)
(* handler once.                                                           *)
(***************************************************************************)
THEOREM TypeCorrect == Spec => []TypeOK
<1>1. IInv => TypeOK
  <2> SUFFICES ASSUME IInv PROVE TypeOK
    OBVIOUS
  <2>1. Waiting \subseteq InFlight
    BY QueueMembers DEF IInv
  <2>2. Cardinality(Waiting) = Len(queue)
    <3> DEFINE n == Len(queue)
    <3>1. n \in Nat /\ queue \in [1 .. n -> Procs]
      BY DEF IInv, InLine
    <3>2. Waiting = {queue[i] : i \in 1 .. n}
      BY QueueMembers DEF IInv
    <3>3. queue \in Bijection(1 .. n, Waiting)
      <4>1. queue \in [1 .. n -> Waiting]
        BY <3>1, <3>2
      <4>2. \A i, j \in 1 .. n : queue[i] = queue[j] => i = j
        BY DEF IInv, InLine
      <4>3. \A w \in Waiting : \E i \in 1 .. n : queue[i] = w
        BY <3>2
      <4> QED BY <4>1, <4>2, <4>3 DEF Bijection, Injection, Surjection, IsInjective
    <3>4. IsFiniteSet(1 .. n) /\ Cardinality(1 .. n) = n
      BY <3>1, FS_Interval
    <3> QED BY <3>3, <3>4, FS_Bijection DEF ExistsBijection
  <2>3. op \in [Procs -> DOMAIN Script \cup {"none"}]
    BY ScriptNames DEF IInv, Shapes
  <2> QED BY <2>1, <2>2, <2>3 DEF IInv, Shapes, Balance, TypeOK
<1> QED BY <1>1, Inductive, PTL

(***************************************************************************)
(* StuckOnlyOnReload holds in every reachable state.  If nobody in flight  *)
(* can move, nobody has the row locks, so all wait for a connection of an  *)
(* empty pool; those that hold one are createPosOrder calls, one each, so  *)
(* there are as many as connections.                                       *)
(***************************************************************************)
THEOREM OnlyReloadsBlock == Spec => []StuckOnlyOnReload
<1>1. IInv => StuckOnlyOnReload
  <2> SUFFICES ASSUME IInv, InFlight # {}, \A p \in InFlight : ~ CanMove(p)
               PROVE  Cardinality(Reloading) = PoolSize
    BY DEF StuckOnlyOnReload
  <2>1. rowLock = None
    <3> SUFFICES ASSUME rowLock # None PROVE FALSE
      OBVIOUS
    <3>1. rowLock \in InFlight /\ Doing(rowLock, "commit")
      BY DEF IInv, LockInv, Shapes, InFlight, Doing
    <3>2. rowLock \notin Waiting /\ ~ At(rowLock, "lock")
      BY <3>1, QueueMembers DEF IInv, Doing, At
    <3> QED BY <3>1, <3>2 DEF CanMove
  <2>2. InFlight \subseteq Waiting
    BY <2>1 DEF CanMove
  <2>3. idle = 0
    <3> SUFFICES ASSUME idle # 0 PROVE FALSE
      OBVIOUS
    <3>1. idle > 0
      BY DEF IInv, Balance
    <3>2. queue \in Seq(Procs) /\ Waiting # {} /\ Waiting = {queue[i] : i \in 1 .. Len(queue)}
      BY <2>2, QueueMembers DEF IInv, InLine
    <3>3. 1 \in 1 .. Len(queue)
      BY <3>2
    <3>4. queue[1] \in Waiting
      BY <3>2, <3>3
    <3>5. queue[1] \in InFlight
      BY <3>4, QueueMembers DEF IInv
    <3>6. ~ At(queue[1], "lock")
      BY <3>4 DEF At
    <3> QED BY <3>1, <3>5, <3>6 DEF CanMove, FirstInLine
  <2>4. \A p \in Procs : holds[p] = IF p \in Reloading THEN 1 ELSE 0
    <3> SUFFICES ASSUME NEW p \in Procs PROVE holds[p] = IF p \in Reloading THEN 1 ELSE 0
      OBVIOUS
    <3>1. CASE op[p] = "none"
      BY <3>1 DEF IInv, OnScript, Reloading
    <3>2. CASE op[p] # "none"
      <4>1. p \in Waiting /\ Doing(p, "connect")
        BY <2>2, <3>2, QueueMembers DEF IInv, InFlight
      <4>2. holds[p] \in {0, 1} /\ (holds[p] = 1 => op[p] = "createPosOrder")
        BY <3>2, <4>1, AtStep DEF IInv, Doing, ScriptOK
      <4> QED BY <4>1, <4>2 DEF Reloading
    <3> QED BY <3>1, <3>2
  <2>5. Cardinality(Connections) = PoolSize
    BY <2>3, ConnectionsFinite, FS_CardinalityType DEF IInv, Balance
  <2>6. Cardinality(Reloading) = Cardinality(Connections)
    <3>1. Connections = Reloading \X {1}
      BY <2>4 DEF Connections, Reloading
    <3>2. IsFiniteSet(Reloading)
      BY ConnectionPoolAssumption, FS_Subset DEF Reloading
    <3>3. IsFiniteSet({1}) /\ Cardinality({1}) = 1
      BY FS_Singleton
    <3>4. Cardinality(Reloading \X {1}) = Cardinality(Reloading) * Cardinality({1})
      BY <3>2, <3>3, FS_Product
    <3>5. Cardinality(Reloading) \in Nat
      BY <3>2, FS_CardinalityType
    <3>6. Cardinality(Reloading) * 1 = Cardinality(Reloading)
      BY <3>5
    <3> QED BY <3>1, <3>3, <3>4, <3>6
  <2> QED BY <2>5, <2>6
<1> QED BY <1>1, Inductive, PTL
================================================================================
