---------------------------- MODULE FloorPlanProofs ----------------------------
(***************************************************************************)
(* Theorems about FloorPlan, for any number of handlers, instances, tables *)
(* and sectors: its types, and that a live table stands in a live sector   *)
(* unless a restore or a write beside a deletion has put it there.         *)
(*                                                                         *)
(* The argument rests on Races: while a deletion lies between its count    *)
(* and its commit, every handler and every boot that may still write a     *)
(* table knows that it was beside one; and on Emptied: what stands in the  *)
(* sector then has been written beside the deletion.                       *)
(***************************************************************************)
EXTENDS FloorPlan, TLAPS

TableCalls == [kind : {"table"}, id : Tables \cup {None}, copy : TableRows, raced : BOOLEAN]
SectorCalls == [kind : {"sector"}, id : Sectors, copy : SectorRows, raced : BOOLEAN]
AnyCall == TableCalls \cup SectorCalls
Places == {"idle", "validate", "count", "insert", "save"}
Boots == [at : {"find", "sector", "insert", "place", "up"},
          sector : Sectors \cup {None}, raced : BOOLEAN]

\* A call fits the place where its handler is.
Fits(c, at) ==
  /\ at \in {"validate", "insert"} => c.kind = "table" /\ c.copy.state = "live"
  /\ at = "insert" => c.id = None
  /\ at = "count" => c.kind = "sector" /\ c.copy.state = "deleted"
  /\ at = "save" /\ c.kind = "table" => c.id \in Tables
  /\ c.copy.state # "absent"

RowsOK ==
  /\ tables \in [Tables -> TableRows] /\ sectors \in [Sectors -> SectorRows]
  /\ UniqueNames(sectors)
  /\ unguarded \in SUBSET Tables
  /\ \A t \in Tables : tables[t].state = "absent" => tables[t].sector = None

HandlersOK ==
  /\ pc \in [Procs -> Places] /\ call \in [Procs -> AnyCall \cup {NoCall}]
  /\ \A p \in Procs : IF pc[p] = "idle" THEN call[p] = NoCall
                      ELSE call[p] \in AnyCall /\ Fits(call[p], pc[p])

BootsOK ==
  /\ boot \in [Instances -> Boots]
  /\ \A i \in Instances : boot[i].at = "place" <=> boot[i].sector # None

\* q's deletion has counted.
Counted(q) == pc[q] = "save" /\ call[q].kind = "sector" /\ call[q].copy.state = "deleted"

Standing(s) == s = None \/ s \in Live(sectors)

\* What p may write is in a live sector, or known not to be.
Excused(c) == c.raced \/ Standing(c.copy.sector) \/ c.id \in unguarded
WritesLive == \A p \in Procs :
  pc[p] \in {"save", "insert"} /\ call[p].kind = "table" /\ call[p].copy.state = "live" =>
    Excused(call[p])

PlacesLive == \A i \in Instances :
  boot[i].at = "place" => boot[i].raced \/ boot[i].sector \in Live(sectors)

Races == Deleting =>
  /\ \A p \in Procs : call[p].kind = "table" => call[p].raced
  /\ \A i \in Instances : boot[i].at = "place" => boot[i].raced

Emptied == \A q \in Procs : Counted(q) =>
  \A t \in Live(tables) : tables[t].sector = call[q].id => t \in unguarded

TypeInv == RowsOK /\ HandlersOK /\ BootsOK
SectorInv == LiveTableInLiveSector /\ WritesLive /\ PlacesLive /\ Races /\ Emptied
IInv == TypeInv /\ SectorInv

USE FloorPlanAssumption

-------------------------------------------------------------------------------
(* What the invariant says *)

(***************************************************************************)
(* The invariant implies the types of the model.                           *)
(***************************************************************************)
LEMMA InvTypes == IInv => TypeOK
<1> SUFFICES ASSUME IInv PROVE TypeOK
  OBVIOUS
<1>1. RowsOK /\ HandlersOK /\ BootsOK
  BY DEF IInv, TypeInv
<1>2. \A p \in Procs :
        /\ pc[p] = "idle" <=> call[p] = NoCall
        /\ call[p].kind = "table" => call[p].copy \in TableRows
        /\ call[p].kind = "sector" => call[p].copy \in SectorRows
  <2> SUFFICES ASSUME NEW p \in Procs
               PROVE  /\ pc[p] = "idle" <=> call[p] = NoCall
                      /\ call[p].kind = "table" => call[p].copy \in TableRows
                      /\ call[p].kind = "sector" => call[p].copy \in SectorRows
    OBVIOUS
  <2>1. CASE pc[p] = "idle"
    BY <1>1, <2>1 DEF HandlersOK, NoCall
  <2>2. CASE pc[p] # "idle" /\ call[p] \in TableCalls
    BY <2>2 DEF TableCalls, NoCall
  <2>3. CASE pc[p] # "idle" /\ call[p] \in SectorCalls
    BY <2>3 DEF SectorCalls, NoCall
  <2>4. QED
    BY <1>1, <2>1, <2>2, <2>3 DEF HandlersOK, AnyCall
<1>3. \A i \in Instances : /\ boot[i].at \in {"find", "sector", "insert", "place", "up"}
                           /\ boot[i].at = "place" <=> boot[i].sector # None
  BY <1>1 DEF BootsOK, Boots
<1>4. QED
  BY <1>1, <1>2, <1>3 DEF RowsOK, HandlersOK, Places, TypeOK

(***************************************************************************)
(* A service that has not booted satisfies the invariant.                  *)
(***************************************************************************)
LEMMA InitInv == Init => IInv
<1> SUFFICES ASSUME Init PROVE IInv
  OBVIOUS
<1>1. RowsOK
  <2>1. \A t \in Tables : tables[t] \in TableRows /\ tables[t].sector = None
    BY DEF Init, TableRows, RowStates, Absent
  <2>2. tables \in [Tables -> TableRows]
    BY <2>1 DEF Init
  <2>3. sectors \in [Sectors -> SectorRows]
    BY DEF Init, SectorRows, RowStates
  <2>4. UniqueNames(sectors)
    BY DEF Init, UniqueNames, Existing
  <2>5. QED
    BY <2>1, <2>2, <2>3, <2>4 DEF RowsOK, Init
<1>2. HandlersOK /\ BootsOK
  BY DEF Init, HandlersOK, BootsOK, Places, Boots, NotBooted
<1>3. ~ Deleting /\ Emptied /\ WritesLive /\ PlacesLive
  BY DEF Init, Deleting, Emptied, Counted, WritesLive, PlacesLive, NotBooted
<1>4. LiveTableInLiveSector
  BY DEF Init, LiveTableInLiveSector, Live, Absent
<1>5. QED
  BY <1>1, <1>2, <1>3, <1>4 DEF Races, IInv, TypeInv, SectorInv

(***************************************************************************)
(* A call in flight is about a table or about a sector.                    *)
(***************************************************************************)
LEMMA InFlight ==
  ASSUME HandlersOK, NEW p \in Procs, pc[p] # "idle"
  PROVE  /\ call[p] \in AnyCall /\ Fits(call[p], pc[p])
         /\ call[p].kind \in {"table", "sector"}
         /\ call[p].kind = "table" => call[p] \in TableCalls
         /\ call[p].kind = "sector" => call[p] \in SectorCalls
<1>1. call[p] \in AnyCall /\ Fits(call[p], pc[p])
  BY DEF HandlersOK
<1>2. call[p] \in TableCalls => call[p].kind = "table"
  BY DEF TableCalls
<1>3. call[p] \in SectorCalls => call[p].kind = "sector"
  BY DEF SectorCalls
<1>4. QED
  BY <1>1, <1>2, <1>3 DEF AnyCall

(***************************************************************************)
(* A call about a sector is never "raced", and only such a call deletes.   *)
(***************************************************************************)
LEMMA DeletingIsCounted == Deleting <=> \E q \in Procs : Counted(q)
  BY DEF Deleting, Counted

-------------------------------------------------------------------------------
(* Handlers start and end *)

\* p goes on with the call c.
Started(p, next, c) ==
  /\ Goto(p, "idle", next)
  /\ call' = [call EXCEPT ![p] = c]
  /\ c \in AnyCall /\ Fits(c, next) /\ next \in {"validate", "count", "save"}
  /\ c.kind = "sector" => next = "count" \/ c.copy.state = "live"
  /\ c.kind = "table" /\ Deleting => c.raced

(***************************************************************************)
(* Starting touches one handler, which deletes nothing yet.                *)
(***************************************************************************)
LEMMA StartedFrame ==
  ASSUME HandlersOK, NEW p \in Procs, NEW next, NEW c, Started(p, next, c)
  PROVE  /\ HandlersOK'
         /\ pc'[p] = next /\ call'[p] = c
         /\ \A q \in Procs \ {p} : pc'[q] = pc[q] /\ call'[q] = call[q]
         /\ \A q \in Procs : Counted(q)' => Counted(q) /\ call'[q] = call[q]
<1>1. /\ pc' = [pc EXCEPT ![p] = next] /\ call' = [call EXCEPT ![p] = c]
      /\ pc \in [Procs -> Places] /\ call \in [Procs -> AnyCall \cup {NoCall}]
      /\ c \in AnyCall /\ Fits(c, next) /\ next \in Places \ {"idle"}
  BY DEF Started, Goto, HandlersOK, Places
<1>2. /\ pc'[p] = next /\ call'[p] = c
      /\ \A q \in Procs \ {p} : pc'[q] = pc[q] /\ call'[q] = call[q]
  BY <1>1
<1>3. pc' \in [Procs -> Places] /\ call' \in [Procs -> AnyCall \cup {NoCall}]
  BY <1>1
<1>4. ASSUME NEW q \in Procs
      PROVE  IF pc'[q] = "idle" THEN call'[q] = NoCall
             ELSE call'[q] \in AnyCall /\ Fits(call'[q], pc'[q])
  <2>1. CASE q = p
    BY <1>1, <1>2, <2>1
  <2>2. CASE q # p
    BY <1>2, <2>2 DEF HandlersOK
  <2>3. QED
    BY <2>1, <2>2
<1>5. HandlersOK'
  BY <1>3, <1>4 DEF HandlersOK, Fits
<1>6. ~ Counted(p)'
  BY <1>2 DEF Started, Counted
<1>7. QED
  BY <1>2, <1>5, <1>6 DEF Counted

(***************************************************************************)
(* A handler that starts on a row as it is, edited, keeps the invariant.   *)
(***************************************************************************)
LEMMA StartInv ==
  ASSUME IInv, NEW p \in Procs, NEW next, NEW c, Started(p, next, c),
         UNCHANGED <<tables, sectors, boot>>,
         unguarded' \in SUBSET Tables, unguarded \subseteq unguarded',
         next = "save" /\ c.kind = "table" /\ c.copy.state = "live" => Excused(c)'
  PROVE  IInv'
<1>1. /\ HandlersOK'
      /\ pc'[p] = next /\ call'[p] = c
      /\ \A q \in Procs \ {p} : pc'[q] = pc[q] /\ call'[q] = call[q]
      /\ \A q \in Procs : Counted(q)' => Counted(q) /\ call'[q] = call[q]
  BY StartedFrame DEF IInv, TypeInv
<1>2. RowsOK' /\ BootsOK'
  BY DEF IInv, TypeInv, RowsOK, BootsOK, UniqueNames, Existing
<1>3. LiveTableInLiveSector' /\ PlacesLive'
  BY DEF IInv, SectorInv, LiveTableInLiveSector, PlacesLive, Live
<1>4. Deleting' => Deleting
  BY <1>1 DEF Deleting, Counted
<1>5. Races'
  <2> SUFFICES ASSUME Deleting'
               PROVE  /\ \A q \in Procs : call'[q].kind = "table" => call'[q].raced
                      /\ \A i \in Instances : boot'[i].at = "place" => boot'[i].raced
    BY DEF Races
  <2>1. Deleting
    BY <1>4
  <2>2. c.kind = "table" => c.raced
    BY <2>1 DEF Started
  <2>3. QED
    BY <1>1, <2>1, <2>2 DEF IInv, SectorInv, Races
<1>6. Emptied'
  BY <1>1 DEF IInv, SectorInv, Emptied, Live
<1>7. WritesLive'
  <2> SUFFICES ASSUME NEW q \in Procs, pc'[q] \in {"save", "insert"},
                      call'[q].kind = "table", call'[q].copy.state = "live"
               PROVE  Excused(call[q])'
    BY DEF WritesLive
  <2>1. CASE q = p
    <3>1. next = "save" /\ c.kind = "table" /\ c.copy.state = "live"
      BY <1>1, <2>1 DEF Started
    <3>2. QED
      BY <1>1, <2>1, <3>1 DEF Excused
  <2>2. CASE q # p
    <3>1. Excused(call[q])
      BY <1>1, <2>2 DEF IInv, SectorInv, WritesLive
    <3>2. QED
      BY <1>1, <2>2, <3>1 DEF Excused, Standing, Live
  <2>3. QED
    BY <2>1, <2>2
<1>8. QED
  BY <1>1, <1>2, <1>3, <1>5, <1>6, <1>7 DEF IInv, TypeInv, SectorInv

(***************************************************************************)
(* Every handler that Hold starts, with the copy it read.                  *)
(***************************************************************************)
LEMMA HoldStarts ==
  ASSUME NEW p \in Procs, NEW next, NEW kind \in {"table", "sector"}, NEW id, NEW copy,
         Hold(p, next, kind, id, copy), next \in {"validate", "count", "save"},
         kind = "table" => id \in Tables \cup {None} /\ copy \in TableRows,
         kind = "sector" => id \in Sectors /\ copy \in SectorRows,
         copy.state # "absent",
         next = "validate" => kind = "table" /\ copy.state = "live",
         next = "count" => kind = "sector" /\ copy.state = "deleted",
         next = "save" /\ kind = "table" => id \in Tables,
         kind = "sector" => next = "count" \/ copy.state = "live"
  PROVE  \E c : /\ Started(p, next, c)
                /\ c.kind = kind /\ c.id = id /\ c.copy = copy
                /\ UNCHANGED <<tables, sectors, boot>>
<1> PICK c : c = [kind |-> kind, id |-> id, copy |-> copy,
                  raced |-> kind = "table" /\ Deleting]
  OBVIOUS
<1>1. c.kind = kind /\ c.id = id /\ c.copy = copy
  OBVIOUS
<1>2. c.raced <=> kind = "table" /\ Deleting
  OBVIOUS
<1>3. c.raced \in BOOLEAN
  OBVIOUS
<1>4. c \in AnyCall
  <2>1. CASE kind = "table"
    <3>1. c \in TableCalls
      BY <1>3, <2>1 DEF TableCalls
    <3>2. QED
      BY <3>1 DEF AnyCall
  <2>2. CASE kind = "sector"
    <3>1. c \in SectorCalls
      BY <1>3, <2>2 DEF SectorCalls
    <3>2. QED
      BY <3>1 DEF AnyCall
  <2>3. QED
    BY <2>1, <2>2
<1>5. Fits(c, next)
  BY <1>1 DEF Fits
<1>6. Started(p, next, c)
  <2>1. Goto(p, "idle", next) /\ call' = [call EXCEPT ![p] = c]
    BY DEF Hold
  <2>2. c.kind = "sector" => next = "count" \/ c.copy.state = "live"
    BY <1>1
  <2>3. c.kind = "table" /\ Deleting => c.raced
    BY <1>1, <1>2
  <2>4. QED
    BY <1>4, <1>5, <2>1, <2>2, <2>3 DEF Started
<1>7. QED
  BY <1>1, <1>6 DEF Hold

(***************************************************************************)
(* The handlers that go on to save a table they read.                      *)
(***************************************************************************)
LEMMA SaveStarts ==
  ASSUME NEW p \in Procs, NEW t \in Tables, NEW copy \in TableRows,
         copy.state # "absent", Hold(p, "save", "table", t, copy)
  PROVE  \E c : /\ Started(p, "save", c) /\ c.id = t /\ c.copy = copy
                /\ UNCHANGED <<tables, sectors, boot>>
<1>1. PICK c : /\ Started(p, "save", c)
               /\ c.kind = "table" /\ c.id = t /\ c.copy = copy
               /\ UNCHANGED <<tables, sectors, boot>>
  BY HoldStarts
<1>2. QED
  BY <1>1

(***************************************************************************)
(* The handlers of tables.service start: a table that is read live stands  *)
(* in a live sector, or is known not to.                                   *)
(***************************************************************************)
LEMMA TableHandlersStart ==
  ASSUME IInv, NEW p \in Procs,
         \/ CreateTable(p) \/ MoveTable(p) \/ EditTable(p)
         \/ SoftDeleteTable(p) \/ RestoreTable(p)
  PROVE  IInv'
<1>0. /\ tables \in [Tables -> TableRows] /\ unguarded \in SUBSET Tables
      /\ \A t \in Live(tables) : t \in Tables /\ tables[t].state = "live"
      /\ \A t \in Existing(tables) : t \in Tables /\ tables[t].state # "absent"
  BY DEF IInv, TypeInv, RowsOK, Live, Existing
<1>1. CASE CreateTable(p)
  <2>1. PICK s \in Sectors :
          /\ Hold(p, "validate", "table", None, [state |-> "live", sector |-> s])
          /\ UNCHANGED unguarded
    BY <1>1 DEF CreateTable
  <2>2. [state |-> "live", sector |-> s] \in TableRows
    BY DEF TableRows, RowStates
  <2>3. PICK c : Started(p, "validate", c) /\ UNCHANGED <<tables, sectors, boot>>
    BY <2>1, <2>2, HoldStarts
  <2>4. QED
    BY <1>0, <2>1, <2>3, StartInv
<1>2. CASE MoveTable(p)
  <2>1. PICK t \in Live(tables), s \in Sectors :
          /\ Hold(p, "validate", "table", t, [tables[t] EXCEPT !.sector = s])
          /\ UNCHANGED unguarded
    BY <1>2 DEF MoveTable
  <2>2. /\ [tables[t] EXCEPT !.sector = s] \in TableRows
        /\ [tables[t] EXCEPT !.sector = s].state = "live"
    BY <1>0 DEF TableRows
  <2>3. PICK c : Started(p, "validate", c) /\ UNCHANGED <<tables, sectors, boot>>
    BY <1>0, <2>1, <2>2, HoldStarts
  <2>4. QED
    BY <1>0, <2>1, <2>3, StartInv
<1>3. CASE EditTable(p)
  <2>1. PICK t \in Live(tables) :
          /\ Hold(p, "save", "table", t, tables[t])
          /\ UNCHANGED unguarded
    BY <1>3 DEF EditTable
  <2>2. tables[t] \in TableRows
    BY <1>0
  <2>3. PICK c : /\ Started(p, "save", c) /\ c.id = t /\ c.copy = tables[t]
                 /\ UNCHANGED <<tables, sectors, boot>>
    BY <1>0, <2>1, <2>2, HoldStarts
  <2>4. Standing(tables[t].sector) \/ t \in unguarded
    BY <1>0 DEF IInv, SectorInv, LiveTableInLiveSector, Standing
  <2>5. Excused(c)'
    BY <2>1, <2>3, <2>4 DEF Excused, Standing, Live
  <2>6. QED
    BY <1>0, <2>1, <2>3, <2>5, StartInv
<1>4. CASE SoftDeleteTable(p)
  <2>1. PICK t \in Live(tables) :
          /\ Hold(p, "save", "table", t, [tables[t] EXCEPT !.state = "deleted"])
          /\ UNCHANGED unguarded
    BY <1>4 DEF SoftDeleteTable
  <2>2. PICK copy \in TableRows :
          /\ copy.state = "deleted" /\ copy.state # "absent" /\ t \in Tables
          /\ Hold(p, "save", "table", t, copy)
    BY <1>0, <2>1 DEF TableRows, RowStates
  <2>3. PICK c : /\ Started(p, "save", c) /\ c.id = t /\ c.copy = copy
                 /\ UNCHANGED <<tables, sectors, boot>>
    BY <2>2, SaveStarts
  <2>4. QED
    BY <1>0, <2>1, <2>2, <2>3, StartInv
<1>5. CASE RestoreTable(p)
  <2>1. PICK t \in Existing(tables) \ Live(tables) :
          /\ Hold(p, "save", "table", t, [tables[t] EXCEPT !.state = "live"])
          /\ unguarded' = unguarded \cup {t}
    BY <1>5 DEF RestoreTable
  <2> PICK copy : copy = [tables[t] EXCEPT !.state = "live"]
    OBVIOUS
  <2>2. /\ copy \in TableRows /\ copy.state = "live" /\ copy.state # "absent"
        /\ Hold(p, "save", "table", t, copy) /\ t \in Tables
    BY <1>0, <2>1 DEF TableRows, RowStates
  <2>3. PICK c : /\ Started(p, "save", c) /\ c.id = t
                 /\ UNCHANGED <<tables, sectors, boot>>
    BY <2>2, SaveStarts
  <2>4. Excused(c)'
    BY <2>1, <2>3 DEF Excused
  <2>5. QED
    BY <1>0, <2>1, <2>3, <2>4, StartInv
<1>6. QED
  BY <1>1, <1>2, <1>3, <1>4, <1>5

(***************************************************************************)
(* The handlers of sectors.service start.                                  *)
(***************************************************************************)
LEMMA SectorHandlersStart ==
  ASSUME IInv, NEW p \in Procs,
         UpdateSector(p) \/ SoftDeleteSector(p) \/ RestoreSector(p)
  PROVE  IInv'
<1>0. /\ sectors \in [Sectors -> SectorRows] /\ unguarded \in SUBSET Tables
      /\ \A s \in Live(sectors) : s \in Sectors /\ sectors[s].state = "live"
      /\ \A s \in Existing(sectors) : s \in Sectors
  BY DEF IInv, TypeInv, RowsOK, Live, Existing
<1>1. CASE UpdateSector(p)
  <2>1. PICK s \in Live(sectors), name \in Names :
          /\ Hold(p, "save", "sector", s, [sectors[s] EXCEPT !.name = name])
          /\ UNCHANGED unguarded
    BY <1>1 DEF UpdateSector
  <2>2. /\ [sectors[s] EXCEPT !.name = name] \in SectorRows
        /\ [sectors[s] EXCEPT !.name = name].state = "live"
    BY <1>0 DEF SectorRows
  <2>3. PICK c : /\ Started(p, "save", c) /\ c.kind = "sector"
                 /\ UNCHANGED <<tables, sectors, boot>>
    BY <1>0, <2>1, <2>2, HoldStarts
  <2>4. QED
    BY <1>0, <2>1, <2>3, StartInv
<1>2. CASE SoftDeleteSector(p)
  <2>1. PICK s \in Live(sectors) :
          /\ Hold(p, "count", "sector", s, [sectors[s] EXCEPT !.state = "deleted"])
          /\ UNCHANGED unguarded
    BY <1>2 DEF SoftDeleteSector
  <2>2. /\ [sectors[s] EXCEPT !.state = "deleted"] \in SectorRows
        /\ [sectors[s] EXCEPT !.state = "deleted"].state = "deleted"
    BY <1>0 DEF SectorRows, RowStates
  <2>3. PICK c : /\ Started(p, "count", c) /\ c.kind = "sector"
                 /\ UNCHANGED <<tables, sectors, boot>>
    BY <1>0, <2>1, <2>2, HoldStarts
  <2>4. QED
    BY <1>0, <2>1, <2>3, StartInv
<1>3. CASE RestoreSector(p)
  <2>1. PICK s \in Existing(sectors) \ Live(sectors) :
          /\ Hold(p, "save", "sector", s, [sectors[s] EXCEPT !.state = "live"])
          /\ UNCHANGED unguarded
    BY <1>3 DEF RestoreSector
  <2>2. /\ [sectors[s] EXCEPT !.state = "live"] \in SectorRows
        /\ [sectors[s] EXCEPT !.state = "live"].state = "live"
    BY <1>0 DEF SectorRows, RowStates
  <2>3. PICK c : /\ Started(p, "save", c) /\ c.kind = "sector"
                 /\ UNCHANGED <<tables, sectors, boot>>
    BY <1>0, <2>1, <2>2, HoldStarts
  <2>4. QED
    BY <1>0, <2>1, <2>3, StartInv
<1>4. QED
  BY <1>1, <1>2, <1>3

-------------------------------------------------------------------------------
(* Handlers go on *)

(***************************************************************************)
(* A handler that ends, answered or not, takes nobody with it.             *)
(***************************************************************************)
LEMMA FinishFrame ==
  ASSUME HandlersOK, NEW p \in Procs, Finish(p)
  PROVE  /\ HandlersOK'
         /\ pc'[p] = "idle" /\ call'[p] = NoCall
         /\ \A q \in Procs \ {p} : pc'[q] = pc[q] /\ call'[q] = call[q]
         /\ \A q \in Procs : Counted(q)' => Counted(q) /\ q # p
         /\ Deleting' => Deleting
<1>1. /\ pc' = [pc EXCEPT ![p] = "idle"] /\ call' = [call EXCEPT ![p] = NoCall]
      /\ pc \in [Procs -> Places] /\ call \in [Procs -> AnyCall \cup {NoCall}]
  BY DEF Finish, HandlersOK
<1>2. /\ pc'[p] = "idle" /\ call'[p] = NoCall
      /\ \A q \in Procs \ {p} : pc'[q] = pc[q] /\ call'[q] = call[q]
  BY <1>1
<1>3. pc' \in [Procs -> Places] /\ call' \in [Procs -> AnyCall \cup {NoCall}]
  BY <1>1 DEF Places
<1>4. HandlersOK'
  BY <1>2, <1>3 DEF HandlersOK, Fits, NoCall
<1>5. \A q \in Procs : Counted(q)' => Counted(q) /\ q # p
  BY <1>2 DEF Counted
<1>6. Deleting' => Deleting
  BY <1>5 DEF Deleting, Counted
<1>7. QED
  BY <1>2, <1>4, <1>5, <1>6

(***************************************************************************)
(* Once a handler has ended, what is left to show is what it wrote.        *)
(***************************************************************************)
LEMMA FinishInv ==
  ASSUME IInv, NEW p \in Procs, Finish(p), UNCHANGED boot,
         RowsOK', unguarded \subseteq unguarded',
         LiveTableInLiveSector', Emptied',
         \A s \in Live(sectors) : s \in Live(sectors') \/ (Counted(p) /\ s = call[p].id)
  PROVE  IInv'
<1>1. /\ HandlersOK'
      /\ pc'[p] = "idle" /\ call'[p] = NoCall
      /\ \A q \in Procs \ {p} : pc'[q] = pc[q] /\ call'[q] = call[q]
      /\ Deleting' => Deleting
  BY FinishFrame DEF IInv, TypeInv
<1>2. BootsOK'
  BY DEF IInv, TypeInv, BootsOK
<1>3. Counted(p) => Deleting
  BY DEF Deleting, Counted
<1>4. WritesLive'
  <2> SUFFICES ASSUME NEW q \in Procs, pc'[q] \in {"save", "insert"},
                      call'[q].kind = "table", call'[q].copy.state = "live"
               PROVE  Excused(call[q])'
    BY DEF WritesLive
  <2>1. q # p
    BY <1>1
  <2>2. Excused(call[q])
    BY <1>1, <2>1 DEF IInv, SectorInv, WritesLive
  <2>3. CASE Counted(p)
    BY <1>1, <1>3, <2>1, <2>3 DEF IInv, SectorInv, Races, Excused
  <2>4. CASE ~ Counted(p)
    BY <1>1, <2>1, <2>2, <2>4 DEF Excused, Standing
  <2>5. QED
    BY <2>3, <2>4
<1>5. PlacesLive'
  <2> SUFFICES ASSUME NEW i \in Instances, boot'[i].at = "place"
               PROVE  boot'[i].raced \/ boot'[i].sector \in Live(sectors)'
    BY DEF PlacesLive
  <2>1. CASE Counted(p)
    BY <1>3, <2>1 DEF IInv, SectorInv, Races
  <2>2. CASE ~ Counted(p)
    BY <2>2 DEF IInv, SectorInv, PlacesLive
  <2>3. QED
    BY <2>1, <2>2
<1>6. Races'
  <2> SUFFICES ASSUME Deleting'
               PROVE  /\ \A q \in Procs : call'[q].kind = "table" => call'[q].raced
                      /\ \A i \in Instances : boot'[i].at = "place" => boot'[i].raced
    BY DEF Races
  <2>1. Deleting
    BY <1>1
  <2>2. call'[p].kind # "table"
    BY <1>1 DEF NoCall
  <2>3. QED
    BY <1>1, <2>1, <2>2 DEF IInv, SectorInv, Races
<1>7. QED
  BY <1>1, <1>2, <1>4, <1>5, <1>6 DEF IInv, TypeInv, SectorInv

(***************************************************************************)
(* validateSector found the sector live: what p holds stands in it.        *)
(***************************************************************************)
LEMMA ValidateInv ==
  ASSUME IInv, NEW p \in Procs, ValidateSector(p)
  PROVE  IInv'
<1>1. /\ pc[p] = "validate" /\ Found(call[p].copy.sector)
      /\ pc' = [pc EXCEPT ![p] = IF call[p].id = None THEN "insert" ELSE "save"]
      /\ UNCHANGED <<tables, sectors, call, boot, unguarded>>
  BY DEF ValidateSector
<1>2. /\ call[p] \in TableCalls /\ Fits(call[p], pc[p]) /\ call[p].kind = "table"
      /\ call[p] \in AnyCall
  BY <1>1, InFlight DEF IInv, TypeInv, Fits
<1>3. /\ pc'[p] = IF call[p].id = None THEN "insert" ELSE "save"
      /\ \A q \in Procs \ {p} : pc'[q] = pc[q]
      /\ pc' \in [Procs -> Places]
  BY <1>1 DEF IInv, TypeInv, HandlersOK, Places
<1>4. Fits(call[p], pc'[p])
  BY <1>1, <1>2, <1>3 DEF Fits, TableCalls
<1>5. HandlersOK'
  BY <1>1, <1>2, <1>3, <1>4 DEF IInv, TypeInv, HandlersOK, Fits
<1>6. RowsOK' /\ BootsOK'
  BY <1>1 DEF IInv, TypeInv, RowsOK, BootsOK, UniqueNames, Existing
<1>7. \A q \in Procs : Counted(q)' => Counted(q)
  BY <1>1, <1>2, <1>3 DEF Counted
<1>8. Deleting' => Deleting
  BY <1>7 DEF Deleting, Counted
<1>9. LiveTableInLiveSector' /\ PlacesLive' /\ Races' /\ Emptied'
  BY <1>1, <1>7, <1>8
     DEF IInv, SectorInv, LiveTableInLiveSector, PlacesLive, Races, Emptied, Live
<1>10. WritesLive'
  <2>1. Excused(call[p])'
    BY <1>1 DEF Excused, Standing, Found, Live
  <2>2. QED
    BY <1>1, <1>3, <2>1 DEF IInv, SectorInv, WritesLive, Excused, Standing, Live
<1>11. QED
  BY <1>5, <1>6, <1>9, <1>10 DEF IInv, TypeInv, SectorInv

(***************************************************************************)
(* A row is inserted with the sector that was validated.                   *)
(***************************************************************************)
LEMMA InsertInv ==
  ASSUME IInv, NEW p \in Procs, InsertTable(p)
  PROVE  IInv'
<1>1. PICK t \in Tables :
        /\ pc[p] = "insert" /\ tables[t].state = "absent"
        /\ tables' = [tables EXCEPT ![t] = call[p].copy]
        /\ unguarded' = IF call[p].raced THEN unguarded \cup {t} ELSE unguarded
        /\ Finish(p) /\ UNCHANGED <<sectors, boot>>
  BY DEF InsertTable
<1>2. /\ call[p] \in TableCalls /\ call[p].kind = "table"
      /\ call[p].copy.state = "live" /\ call[p].id = None
      /\ call[p].copy \in TableRows
  <2>1. call[p].kind = "table" /\ call[p].copy.state = "live" /\ call[p].id = None
    BY <1>1, InFlight DEF IInv, TypeInv, Fits
  <2>2. call[p] \in TableCalls
    BY <1>1, <2>1, InFlight DEF IInv, TypeInv
  <2>3. QED
    BY <2>1, <2>2 DEF TableCalls
<1>3. /\ tables' \in [Tables -> TableRows] /\ tables'[t] = call[p].copy
      /\ \A u \in Tables \ {t} : tables'[u] = tables[u]
  BY <1>1, <1>2 DEF IInv, TypeInv, RowsOK
<1>4. unguarded \subseteq unguarded' /\ unguarded' \in SUBSET Tables
  BY <1>1 DEF IInv, TypeInv, RowsOK
<1>5. RowsOK'
  BY <1>1, <1>2, <1>3, <1>4 DEF IInv, TypeInv, RowsOK, UniqueNames, Existing
<1>6. \A u \in Live(tables)' \ {t} : u \in Live(tables) /\ tables'[u] = tables[u]
  BY <1>3 DEF Live, IInv, TypeInv, RowsOK
<1>7. Live(sectors)' = Live(sectors)
  BY <1>1 DEF Live
<1>8. t \in unguarded' \/ Standing(call[p].copy.sector)
  <2>1. Excused(call[p])
    BY <1>1, <1>2 DEF IInv, SectorInv, WritesLive
  <2>2. call[p].id \notin unguarded
    BY <1>2 DEF IInv, TypeInv, RowsOK
  <2>3. QED
    BY <1>1, <2>1, <2>2 DEF Excused
<1>9. LiveTableInLiveSector'
  BY <1>3, <1>4, <1>6, <1>7, <1>8
     DEF IInv, SectorInv, LiveTableInLiveSector, Standing
<1>10. Emptied'
  <2> SUFFICES ASSUME NEW q \in Procs, Counted(q)', NEW u \in Live(tables)',
                      tables'[u].sector = call'[q].id
               PROVE  u \in unguarded'
    BY DEF Emptied
  <2>1. Counted(q) /\ call'[q] = call[q] /\ Deleting
    BY <1>1, FinishFrame, DeletingIsCounted DEF IInv, TypeInv
  <2>2. CASE u = t
    BY <1>1, <1>2, <2>1, <2>2 DEF IInv, SectorInv, Races
  <2>3. CASE u # t
    BY <1>4, <1>6, <2>1, <2>3 DEF IInv, SectorInv, Emptied
  <2>4. QED
    BY <2>2, <2>3
<1>11. \A s \in Live(sectors) : s \in Live(sectors') \/ (Counted(p) /\ s = call[p].id)
  BY <1>1
<1>12. Finish(p) /\ UNCHANGED boot
  BY <1>1
<1>13. QED
  BY <1>4, <1>5, <1>9, <1>10, <1>11, <1>12, FinishInv

(***************************************************************************)
(* A table is written as its handler read and edited it.                   *)
(***************************************************************************)
LEMMA SaveTableInv ==
  ASSUME IInv, NEW p \in Procs, SaveTable(p)
  PROVE  IInv'
<1>1. /\ pc[p] = "save" /\ call[p].kind = "table"
      /\ tables' = [tables EXCEPT ![call[p].id] = call[p].copy]
      /\ unguarded' = IF call[p].raced THEN unguarded \cup {call[p].id} ELSE unguarded
      /\ Finish(p) /\ UNCHANGED <<sectors, boot>>
  BY DEF SaveTable
<1>2. /\ call[p].id \in Tables /\ call[p].copy \in TableRows
      /\ call[p].copy.state # "absent"
  <2>1. call[p] \in TableCalls /\ Fits(call[p], pc[p])
    BY <1>1, InFlight DEF IInv, TypeInv
  <2>2. QED
    BY <1>1, <2>1 DEF TableCalls, Fits
<1> PICK t \in Tables : t = call[p].id
  BY <1>2
<1>3. /\ tables' \in [Tables -> TableRows] /\ tables'[t] = call[p].copy
      /\ \A u \in Tables \ {t} : tables'[u] = tables[u]
  BY <1>1, <1>2 DEF IInv, TypeInv, RowsOK
<1>4. unguarded \subseteq unguarded' /\ unguarded' \in SUBSET Tables
  BY <1>1, <1>2 DEF IInv, TypeInv, RowsOK
<1>5. RowsOK'
  BY <1>1, <1>2, <1>3, <1>4 DEF IInv, TypeInv, RowsOK, UniqueNames, Existing
<1>6. /\ \A u \in Live(tables)' \ {t} : u \in Live(tables) /\ tables'[u] = tables[u]
      /\ t \in Live(tables)' => call[p].copy.state = "live"
  BY <1>3 DEF Live, IInv, TypeInv, RowsOK
<1>7. Live(sectors)' = Live(sectors)
  BY <1>1 DEF Live
<1>8. t \in Live(tables)' => t \in unguarded' \/ Standing(call[p].copy.sector)
  BY <1>1, <1>6 DEF IInv, SectorInv, WritesLive, Excused
<1>9. LiveTableInLiveSector'
  BY <1>3, <1>4, <1>6, <1>7, <1>8
     DEF IInv, SectorInv, LiveTableInLiveSector, Standing
<1>10. Emptied'
  <2> SUFFICES ASSUME NEW q \in Procs, Counted(q)', NEW u \in Live(tables)',
                      tables'[u].sector = call'[q].id
               PROVE  u \in unguarded'
    BY DEF Emptied
  <2>1. Counted(q) /\ call'[q] = call[q] /\ Deleting
    BY <1>1, FinishFrame, DeletingIsCounted DEF IInv, TypeInv
  <2>2. CASE u = t
    BY <1>1, <2>1, <2>2 DEF IInv, SectorInv, Races
  <2>3. CASE u # t
    BY <1>4, <1>6, <2>1, <2>3 DEF IInv, SectorInv, Emptied
  <2>4. QED
    BY <2>2, <2>3
<1>11. \A s \in Live(sectors) : s \in Live(sectors') \/ (Counted(p) /\ s = call[p].id)
  BY <1>1
<1>12. Finish(p) /\ UNCHANGED boot
  BY <1>1
<1>13. QED
  BY <1>4, <1>5, <1>9, <1>10, <1>11, <1>12, FinishInv

(***************************************************************************)
(* The rows are what they were, and so is what is said of them.            *)
(***************************************************************************)
LEMMA FailInv ==
  ASSUME IInv, NEW p \in Procs, Fail(p)
  PROVE  IInv'
<1>1. Finish(p) /\ UNCHANGED <<tables, sectors, boot, unguarded>>
  BY DEF Fail
<1>2. RowsOK' /\ LiveTableInLiveSector' /\ Live(sectors)' = Live(sectors)
  BY <1>1 DEF IInv, TypeInv, SectorInv, RowsOK, UniqueNames, Existing,
              LiveTableInLiveSector, Live
<1>3. \A q \in Procs : Counted(q)' => Counted(q) /\ call'[q] = call[q]
  BY <1>1, FinishFrame DEF IInv, TypeInv
<1>4. Emptied'
  BY <1>1, <1>3 DEF IInv, SectorInv, Emptied, Live
<1>5. /\ \A s \in Live(sectors) : s \in Live(sectors') \/ (Counted(p) /\ s = call[p].id)
      /\ unguarded \subseteq unguarded' /\ Finish(p) /\ UNCHANGED boot
  BY <1>1, <1>2
<1>6. RowsOK' /\ LiveTableInLiveSector'
  BY <1>2
<1>7. QED
  BY <1>4, <1>5, <1>6, FinishInv

(***************************************************************************)
(* A sector is written.  Deleting it strands no table: the count had found *)
(* none, and whatever was put there since is in unguarded (Emptied).       *)
(***************************************************************************)
LEMMA SaveSectorInv ==
  ASSUME IInv, NEW p \in Procs, SaveSector(p)
  PROVE  IInv'
<1>1. /\ pc[p] = "save" /\ call[p].kind = "sector"
      /\ sectors' = [sectors EXCEPT ![call[p].id] = call[p].copy]
      /\ UniqueNames(sectors')
      /\ Finish(p) /\ UNCHANGED <<tables, boot, unguarded>>
  BY DEF SaveSector
<1>2. /\ call[p].id \in Sectors /\ call[p].copy \in SectorRows
      /\ call[p].copy.state \in {"live", "deleted"}
  <2>1. call[p] \in SectorCalls /\ Fits(call[p], pc[p])
    BY <1>1, InFlight DEF IInv, TypeInv
  <2>2. call[p].id \in Sectors /\ call[p].copy \in SectorRows
        /\ call[p].copy.state # "absent"
    BY <2>1 DEF SectorCalls, Fits
  <2>3. QED
    BY <2>2 DEF SectorRows, RowStates
<1>3. /\ sectors' \in [Sectors -> SectorRows] /\ sectors'[call[p].id] = call[p].copy
      /\ \A s \in Sectors \ {call[p].id} : sectors'[s] = sectors[s]
  BY <1>1, <1>2 DEF IInv, TypeInv, RowsOK
<1>4. RowsOK'
  BY <1>1, <1>3 DEF IInv, TypeInv, RowsOK
<1>5. \A s \in Live(sectors) : s \in Live(sectors') \/ (Counted(p) /\ s = call[p].id)
  <2> SUFFICES ASSUME NEW s \in Live(sectors), s \notin Live(sectors')
               PROVE  Counted(p) /\ s = call[p].id
    OBVIOUS
  <2>1. s \in Sectors /\ sectors[s].state = "live" /\ DOMAIN sectors' = Sectors
    BY <1>3 DEF IInv, TypeInv, RowsOK, Live
  <2>2. sectors'[s].state # "live"
    BY <2>1 DEF Live
  <2>3. s = call[p].id
    BY <1>3, <2>1, <2>2
  <2>4. call[p].copy.state = "deleted"
    BY <1>2, <1>3, <2>2, <2>3
  <2>5. QED
    BY <1>1, <2>3, <2>4 DEF Counted
<1>6. Live(tables)' = Live(tables)
  BY <1>1 DEF Live
<1>7. LiveTableInLiveSector'
  BY <1>1, <1>5, <1>6 DEF IInv, SectorInv, LiveTableInLiveSector, Emptied
<1>8. \A q \in Procs : Counted(q)' => Counted(q) /\ call'[q] = call[q]
  BY <1>1, FinishFrame DEF IInv, TypeInv
<1>9. Emptied'
  BY <1>1, <1>6, <1>8 DEF IInv, SectorInv, Emptied
<1>10. QED
  BY <1>1, <1>4, <1>5, <1>7, <1>9, FinishInv

(***************************************************************************)
(* A deletion has counted no table: whoever may write one from now on      *)
(* knows that he is beside it.                                             *)
(***************************************************************************)
LEMMA CountInv ==
  ASSUME IInv, NEW p \in Procs, CountTables(p)
  PROVE  IInv'
<1>1. /\ pc[p] = "count" /\ pc' = [pc EXCEPT ![p] = "save"]
      /\ StandingIn(call[p].id) = {}
      /\ call' = [q \in Procs |-> IF call[q].kind = "table"
                    THEN [call[q] EXCEPT !.raced = TRUE] ELSE call[q]]
      /\ boot' = [i \in Instances |-> [boot[i] EXCEPT !.raced = @ \/ boot[i].at = "place"]]
      /\ UNCHANGED <<tables, sectors, unguarded>>
  BY DEF CountTables, Goto
<1>2. \A q \in Procs :
        /\ call[q].kind # "table" => call'[q] = call[q]
        /\ call[q].kind = "table" => call'[q] = [call[q] EXCEPT !.raced = TRUE]
  BY <1>1
<1>3. \A q \in Procs : pc[q] # "idle" => /\ call'[q] \in AnyCall
                                         /\ call'[q].kind = call[q].kind
                                         /\ call'[q].copy = call[q].copy
                                         /\ call'[q].id = call[q].id
                                         /\ call'[q].kind = "table" => call'[q].raced
  <2> SUFFICES ASSUME NEW q \in Procs, pc[q] # "idle"
               PROVE  /\ call'[q] \in AnyCall
                      /\ call'[q].kind = call[q].kind
                      /\ call'[q].copy = call[q].copy
                      /\ call'[q].id = call[q].id
                      /\ call'[q].kind = "table" => call'[q].raced
    OBVIOUS
  <2>1. CASE call[q].kind = "table"
    <3>1. call[q] \in TableCalls
      BY <2>1, InFlight DEF IInv, TypeInv
    <3>2. call'[q] = [call[q] EXCEPT !.raced = TRUE]
      BY <1>2, <2>1
    <3>3. /\ call'[q] \in TableCalls /\ call'[q].kind = call[q].kind
          /\ call'[q].copy = call[q].copy /\ call'[q].id = call[q].id
          /\ call'[q].raced
      BY <3>1, <3>2 DEF TableCalls
    <3>4. QED
      BY <3>3 DEF AnyCall
  <2>2. CASE call[q].kind # "table"
    BY <1>2, <2>2, InFlight DEF IInv, TypeInv
  <2>3. QED
    BY <2>1, <2>2
<1>4. \A q \in Procs : pc[q] = "idle" => call'[q] = NoCall /\ call'[q].kind # "table"
  BY <1>2 DEF IInv, TypeInv, HandlersOK, NoCall
<1>5. /\ pc'[p] = "save" /\ \A q \in Procs \ {p} : pc'[q] = pc[q]
      /\ pc' \in [Procs -> Places]
  BY <1>1 DEF IInv, TypeInv, HandlersOK, Places
<1>6. call[p].kind = "sector" /\ call[p].copy.state = "deleted"
  BY <1>1, InFlight DEF IInv, TypeInv, Fits
<1>7. HandlersOK'
  <2>1. call' \in [Procs -> AnyCall \cup {NoCall}]
    BY <1>1, <1>3, <1>4
  <2>2. ASSUME NEW q \in Procs, pc'[q] # "idle"
        PROVE  call'[q] \in AnyCall /\ Fits(call'[q], pc'[q])
    <3>1. pc[q] # "idle" /\ Fits(call[q], pc[q])
      BY <1>1, <1>5, <2>2, InFlight DEF IInv, TypeInv
    <3>2. CASE q = p
      BY <1>3, <1>5, <1>6, <3>1, <3>2 DEF Fits
    <3>3. CASE q # p
      BY <1>3, <1>5, <3>1, <3>3 DEF Fits
    <3>4. QED
      BY <3>2, <3>3
  <2>3. \A q \in Procs : pc'[q] = "idle" => call'[q] = NoCall
    BY <1>1, <1>4, <1>5
  <2>4. QED
    BY <1>5, <2>1, <2>2, <2>3 DEF HandlersOK, Fits
<1>8. \A i \in Instances : /\ boot'[i] \in Boots
                           /\ boot'[i].at = boot[i].at /\ boot'[i].sector = boot[i].sector
                           /\ boot'[i].at = "place" => boot'[i].raced
  <2> SUFFICES ASSUME NEW i \in Instances
               PROVE  /\ boot'[i] \in Boots
                      /\ boot'[i].at = boot[i].at /\ boot'[i].sector = boot[i].sector
                      /\ boot'[i].at = "place" => boot'[i].raced
    OBVIOUS
  <2>1. boot[i] \in Boots
    BY DEF IInv, TypeInv, BootsOK
  <2>2. boot'[i] = [boot[i] EXCEPT !.raced = boot[i].raced \/ boot[i].at = "place"]
    BY <1>1
  <2>3. QED
    BY <2>1, <2>2 DEF Boots
<1>9. BootsOK'
  BY <1>1, <1>8 DEF IInv, TypeInv, BootsOK
<1>10. RowsOK' /\ LiveTableInLiveSector'
  BY <1>1 DEF IInv, TypeInv, SectorInv, RowsOK, UniqueNames, Existing,
              LiveTableInLiveSector, Live
<1>11. \A q \in Procs : call'[q].kind = "table" => call'[q].raced
  BY <1>3, <1>4
<1>12. WritesLive' /\ PlacesLive' /\ Races'
  BY <1>8, <1>11 DEF WritesLive, PlacesLive, Races, Excused
<1>13. Emptied'
  <2> SUFFICES ASSUME NEW q \in Procs, Counted(q)', NEW t \in Live(tables),
                      tables[t].sector = call'[q].id
               PROVE  t \in unguarded
    BY <1>1 DEF Emptied, Live
  <2>1. pc[q] # "idle" /\ call'[q].id = call[q].id /\ call'[q].kind = call[q].kind
        /\ call'[q].copy = call[q].copy
    BY <1>1, <1>3, <1>5 DEF Counted
  <2>2. CASE q = p
    BY <1>1, <2>1, <2>2 DEF StandingIn
  <2>3. CASE q # p
    <3>1. Counted(q)
      BY <1>5, <2>1, <2>3 DEF Counted
    <3>2. QED
      BY <2>1, <3>1 DEF IInv, SectorInv, Emptied
  <2>4. QED
    BY <2>2, <2>3
<1>14. QED
  BY <1>7, <1>9, <1>10, <1>12, <1>13 DEF IInv, TypeInv, SectorInv

-------------------------------------------------------------------------------
(* Rows appear; instances boot *)

(***************************************************************************)
(* Steps that no handler takes part in: the live sectors only grow, and    *)
(* what becomes a live table, or is placed, is accounted for.              *)
(***************************************************************************)
LEMMA NoHandlerInv ==
  ASSUME IInv, UNCHANGED <<pc, call>>, RowsOK', BootsOK',
         Live(sectors) \subseteq Live(sectors'), unguarded \subseteq unguarded',
         LiveTableInLiveSector', PlacesLive', Emptied',
         \A i \in Instances : Deleting /\ boot'[i].at = "place" => boot'[i].raced
  PROVE  IInv'
<1>1. HandlersOK'
  BY DEF IInv, TypeInv, HandlersOK, Fits
<1>2. Deleting' <=> Deleting
  BY DEF Deleting
<1>3. Races'
  BY <1>2 DEF IInv, SectorInv, Races
<1>4. \A q \in Procs : Excused(call[q]) => Excused(call[q])'
  BY DEF Excused, Standing, Live
<1>5. WritesLive'
  BY <1>4 DEF IInv, SectorInv, WritesLive
<1>6. QED
  BY <1>1, <1>3, <1>5 DEF IInv, TypeInv, SectorInv

(***************************************************************************)
(* A new sector strands nothing.                                           *)
(***************************************************************************)
LEMMA NewSector ==
  ASSUME IInv, NEW s \in Sectors, NEW name \in Names, sectors[s].state = "absent",
         sectors' = [sectors EXCEPT ![s] = [state |-> "live", name |-> name]],
         UniqueNames(sectors'), UNCHANGED <<tables, pc, call, unguarded>>
  PROVE  /\ RowsOK' /\ LiveTableInLiveSector' /\ Emptied'
         /\ Live(sectors) \subseteq Live(sectors') /\ s \in Live(sectors')
<1>1. [state |-> "live", name |-> name] \in SectorRows
  BY DEF SectorRows, RowStates
<1>2. /\ sectors' \in [Sectors -> SectorRows] /\ sectors'[s].state = "live"
      /\ \A r \in Sectors \ {s} : sectors'[r] = sectors[r]
  BY <1>1 DEF IInv, TypeInv, RowsOK
<1>3. RowsOK'
  BY <1>2 DEF IInv, TypeInv, RowsOK
<1>4. Live(sectors) \subseteq Live(sectors') /\ s \in Live(sectors')
  BY <1>2 DEF Live, IInv, TypeInv, RowsOK
<1>5. LiveTableInLiveSector' /\ Emptied'
  BY <1>4 DEF IInv, SectorInv, LiveTableInLiveSector, Emptied, Counted, Live
<1>6. QED
  BY <1>3, <1>4, <1>5

(***************************************************************************)
(* create of a sector.                                                     *)
(***************************************************************************)
LEMMA CreateSectorInv == IInv /\ CreateSector => IInv'
<1> SUFFICES ASSUME IInv, CreateSector PROVE IInv'
  OBVIOUS
<1>1. PICK s \in Sectors, name \in Names :
        /\ sectors[s].state = "absent"
        /\ sectors' = [sectors EXCEPT ![s] = [state |-> "live", name |-> name]]
        /\ UniqueNames(sectors')
        /\ UNCHANGED <<tables, pc, call, boot, unguarded>>
  BY DEF CreateSector
<1>2. /\ RowsOK' /\ LiveTableInLiveSector' /\ Emptied'
      /\ Live(sectors) \subseteq Live(sectors')
  BY <1>1, NewSector
<1>3. BootsOK' /\ PlacesLive'
  BY <1>1, <1>2 DEF IInv, TypeInv, SectorInv, BootsOK, PlacesLive, Live
<1>4. \A i \in Instances : Deleting /\ boot'[i].at = "place" => boot'[i].raced
  BY <1>1 DEF IInv, SectorInv, Races
<1>5. QED
  BY <1>1, <1>2, <1>3, <1>4, NoHandlerInv

(***************************************************************************)
(* An instance of the old version inserts a table without a sector.        *)
(***************************************************************************)
LEMMA LegacyCreateInv == IInv /\ LegacyCreate => IInv'
<1> SUFFICES ASSUME IInv, LegacyCreate PROVE IInv'
  OBVIOUS
<1>1. PICK t \in Tables :
        /\ tables[t].state = "absent"
        /\ tables' = [tables EXCEPT ![t].state = "live"]
        /\ UNCHANGED <<sectors, pc, call, boot, unguarded>>
  BY DEF LegacyCreate
<1>2. tables[t].sector = None /\ tables[t] \in TableRows
  BY <1>1 DEF IInv, TypeInv, RowsOK
<1>3. PICK row \in TableRows : /\ row.state = "live" /\ row.sector = None
                               /\ tables' = [tables EXCEPT ![t] = row]
  <2> PICK row : row = [tables[t] EXCEPT !.state = "live"]
    OBVIOUS
  <2>1. row \in TableRows /\ row.state = "live" /\ row.sector = None
    BY <1>2 DEF TableRows, RowStates
  <2>2. QED
    BY <1>1, <2>1
<1>4. /\ tables' \in [Tables -> TableRows] /\ tables'[t] = row
      /\ \A u \in Tables \ {t} : tables'[u] = tables[u]
  BY <1>3 DEF IInv, TypeInv, RowsOK
<1>5. RowsOK'
  BY <1>1, <1>3, <1>4 DEF IInv, TypeInv, RowsOK, UniqueNames, Existing
<1>6. \A u \in Live(tables') \ {t} : u \in Live(tables) /\ tables'[u] = tables[u]
  BY <1>4 DEF Live, IInv, TypeInv, RowsOK
<1>7. LiveTableInLiveSector'
  BY <1>1, <1>3, <1>4, <1>6 DEF IInv, SectorInv, LiveTableInLiveSector, Live
<1>8. Emptied'
  <2> SUFFICES ASSUME NEW q \in Procs, Counted(q), NEW u \in Live(tables'),
                      tables'[u].sector = call[q].id
               PROVE  u \in unguarded
    BY <1>1 DEF Emptied, Counted
  <2>1. call[q].id \in Sectors
    BY InFlight DEF Counted, IInv, TypeInv, SectorCalls
  <2>2. u # t
    BY <1>3, <1>4, <2>1
  <2>3. QED
    BY <1>6, <2>2 DEF IInv, SectorInv, Emptied
<1>9. BootsOK' /\ PlacesLive' /\ Live(sectors) \subseteq Live(sectors')
  BY <1>1 DEF IInv, TypeInv, SectorInv, BootsOK, PlacesLive, Live
<1>10. \A i \in Instances : Deleting /\ boot'[i].at = "place" => boot'[i].raced
  BY <1>1 DEF IInv, SectorInv, Races
<1>11. QED
  BY <1>1, <1>5, <1>7, <1>8, <1>9, <1>10, NoHandlerInv

\* i comes to b; nothing is written.
Reaches(i, b) ==
  /\ boot' = [boot EXCEPT ![i] = b]
  /\ b \in Boots /\ (b.at = "place" <=> b.sector # None)
  /\ UNCHANGED <<pc, call>>

(***************************************************************************)
(* What the boots are after one of them went on.                           *)
(***************************************************************************)
LEMMA ReachesFrame ==
  ASSUME IInv, NEW i \in Instances, NEW b, Reaches(i, b),
         Live(sectors) \subseteq Live(sectors'),
         b.at = "place" => b.raced \/ b.sector \in Live(sectors'),
         Deleting /\ b.at = "place" => b.raced
  PROVE  /\ BootsOK' /\ PlacesLive'
         /\ \A j \in Instances : Deleting /\ boot'[j].at = "place" => boot'[j].raced
<1>1. /\ boot' \in [Instances -> Boots] /\ boot'[i] = b
      /\ \A j \in Instances \ {i} : boot'[j] = boot[j]
  BY DEF Reaches, IInv, TypeInv, BootsOK
<1>2. BootsOK'
  BY <1>1 DEF Reaches, IInv, TypeInv, BootsOK
<1>3. PlacesLive'
  BY <1>1 DEF IInv, SectorInv, PlacesLive, Live
<1>4. QED
  BY <1>1, <1>2, <1>3 DEF IInv, SectorInv, Races

(***************************************************************************)
(* A boot that only read keeps the invariant.                              *)
(***************************************************************************)
LEMMA ReadInv ==
  ASSUME IInv, NEW i \in Instances, NEW b, Reaches(i, b),
         UNCHANGED <<tables, sectors, unguarded>>,
         b.at = "place" => b.sector \in Live(sectors),
         Deleting /\ b.at = "place" => b.raced
  PROVE  IInv'
<1>1. /\ RowsOK' /\ LiveTableInLiveSector'
      /\ Live(sectors) \subseteq Live(sectors') /\ unguarded \subseteq unguarded'
  BY DEF IInv, TypeInv, SectorInv, RowsOK, UniqueNames, Existing,
         LiveTableInLiveSector, Live
<1>2. Emptied'
  BY DEF Reaches, IInv, SectorInv, Emptied, Counted, Live
<1>3. b.at = "place" => b.raced \/ b.sector \in Live(sectors')
  BY <1>1
<1>4. /\ BootsOK' /\ PlacesLive'
      /\ \A j \in Instances : Deleting /\ boot'[j].at = "place" => boot'[j].raced
  BY <1>1, <1>3, ReachesFrame
<1>5. UNCHANGED <<pc, call>>
  BY DEF Reaches
<1>6. QED
  BY <1>1, <1>2, <1>4, <1>5, NoHandlerInv

(***************************************************************************)
(* A boot reads, is refused, or starts again.                              *)
(***************************************************************************)
LEMMA BootReads ==
  ASSUME IInv, NEW i \in Instances,
         FindOrphans(i) \/ FindSector(i) \/ InsertRefused(i) \/ Crash(i)
  PROVE  IInv'
<1>0. /\ boot[i] \in Boots /\ (boot[i].at = "place" <=> boot[i].sector # None)
      /\ boot \in [Instances -> Boots]
  BY DEF IInv, TypeInv, BootsOK
<1>1. ASSUME NEW at \in {"find", "sector", "insert", "up"}, BootTo(i, at),
             boot[i].at # "place", UNCHANGED <<tables, sectors, pc, call, unguarded>>
      PROVE  IInv'
  <2> PICK b : b = [boot[i] EXCEPT !.at = at]
    OBVIOUS
  <2>1. b \in Boots /\ b.at = at /\ b.sector = None
    BY <1>0, <1>1 DEF Boots
  <2>2. boot' = [boot EXCEPT ![i] = b]
    BY <1>1 DEF BootTo
  <2>3. Reaches(i, b) /\ b.at # "place"
    BY <1>1, <2>1, <2>2 DEF Reaches
  <2>4. QED
    BY <1>1, <2>3, ReadInv
<1>2. CASE FindOrphans(i)
  BY <1>1, <1>2 DEF FindOrphans
<1>3. CASE InsertRefused(i)
  BY <1>1, <1>3 DEF InsertRefused
<1>4. CASE FindSector(i)
  <2>1. CASE Candidates(sectors) = {} /\ BootTo(i, "insert")
    BY <1>1, <1>4, <2>1 DEF FindSector
  <2>2. ASSUME NEW s \in Candidates(sectors),
               boot' = [boot EXCEPT ![i] = [at |-> "place", sector |-> s, raced |-> Deleting]]
        PROVE  IInv'
    <3> PICK b : b = [at |-> "place", sector |-> s, raced |-> Deleting]
      OBVIOUS
    <3>1. s \in Live(sectors) /\ s \in Sectors
      BY DEF Candidates, Live, IInv, TypeInv, RowsOK
    <3>2. Deleting \in BOOLEAN
      BY DEF Deleting
    <3>3. b \in Boots /\ b.at = "place" /\ b.sector = s
      BY <3>1, <3>2 DEF Boots
    <3>4. b.raced <=> Deleting
      OBVIOUS
    <3>5. Reaches(i, b) /\ UNCHANGED <<tables, sectors, unguarded>>
      BY <1>4, <2>2, <3>1, <3>3 DEF Reaches, FindSector
    <3>6. QED
      BY <3>1, <3>3, <3>4, <3>5, ReadInv
  <2>3. QED
    BY <1>4, <2>1, <2>2 DEF FindSector
<1>5. CASE Crash(i)
  <2>1. NotBooted \in Boots /\ NotBooted.at = "find" /\ NotBooted.sector = None
    BY DEF NotBooted, Boots
  <2>2. Reaches(i, NotBooted) /\ UNCHANGED <<tables, sectors, unguarded>>
    BY <1>5, <2>1 DEF Crash, Reaches
  <2>3. QED
    BY <2>1, <2>2, ReadInv
<1>6. QED
  BY <1>2, <1>3, <1>4, <1>5

(***************************************************************************)
(* A boot inserts General.                                                 *)
(***************************************************************************)
LEMMA InsertGeneralInv ==
  ASSUME IInv, NEW i \in Instances, InsertGeneral(i)
  PROVE  IInv'
<1>1. PICK s \in Sectors :
        /\ sectors[s].state = "absent" /\ ~ NameTaken(General)
        /\ sectors' = [sectors EXCEPT ![s] = [state |-> "live", name |-> General]]
        /\ boot' = [boot EXCEPT ![i] = [at |-> "place", sector |-> s, raced |-> Deleting]]
        /\ UNCHANGED <<tables, pc, call, unguarded>>
  BY DEF InsertGeneral
<1>2. UniqueNames(sectors')
  <2>1. /\ sectors'[s].name = General
        /\ \A r \in Sectors \ {s} : sectors'[r] = sectors[r]
        /\ DOMAIN sectors' = Sectors /\ DOMAIN sectors = Sectors
    BY <1>1 DEF IInv, TypeInv, RowsOK
  <2>2. \A r \in Existing(sectors') \ {s} : r \in Existing(sectors) /\ sectors'[r].name # General
    BY <1>1, <2>1 DEF Existing, NameTaken
  <2>3. QED
    BY <2>1, <2>2 DEF IInv, TypeInv, RowsOK, UniqueNames, Existing
<1>3. /\ RowsOK' /\ LiveTableInLiveSector' /\ Emptied'
      /\ Live(sectors) \subseteq Live(sectors') /\ s \in Live(sectors')
  BY <1>1, <1>2, NewSector
<1> PICK b : b = [at |-> "place", sector |-> s, raced |-> Deleting]
  OBVIOUS
<1>4. Deleting \in BOOLEAN
  BY DEF Deleting
<1>5. b \in Boots /\ b.at = "place" /\ b.sector = s
  BY <1>4 DEF Boots
<1>6. b.raced <=> Deleting
  OBVIOUS
<1>7. Reaches(i, b)
  BY <1>1, <1>5 DEF Reaches
<1>8. /\ BootsOK' /\ PlacesLive'
      /\ \A j \in Instances : Deleting /\ boot'[j].at = "place" => boot'[j].raced
  BY <1>3, <1>5, <1>6, <1>7, ReachesFrame
<1>9. QED
  BY <1>1, <1>3, <1>8, NoHandlerInv

(***************************************************************************)
(* A boot places every table without a sector, deleted ones too.           *)
(***************************************************************************)
LEMMA PlaceInv ==
  ASSUME IInv, NEW i \in Instances, PlaceOrphans(i)
  PROVE  IInv'
<1>1. /\ boot[i].at = "place"
      /\ tables' = [t \in Tables |-> IF t \in Orphans
                     THEN [tables[t] EXCEPT !.sector = boot[i].sector] ELSE tables[t]]
      /\ unguarded' = IF boot[i].raced THEN unguarded \cup Orphans ELSE unguarded
      /\ boot' = [boot EXCEPT ![i] = [NotBooted EXCEPT !.at = "up"]]
      /\ UNCHANGED <<sectors, pc, call>>
  BY DEF PlaceOrphans
<1>2. boot[i].sector \in Sectors
  BY <1>1 DEF IInv, TypeInv, BootsOK, Boots
<1>3. /\ Orphans \subseteq Tables
      /\ \A t \in Orphans : tables[t].state # "absent"
  BY DEF Orphans, Existing, IInv, TypeInv, RowsOK
<1>4. \A t \in Tables : /\ tables'[t] \in TableRows
                        /\ tables'[t].state = tables[t].state
                        /\ t \in Orphans => tables'[t].sector = boot[i].sector
                        /\ t \notin Orphans => tables'[t] = tables[t]
  <2> SUFFICES ASSUME NEW t \in Tables
               PROVE  /\ tables'[t] \in TableRows
                      /\ tables'[t].state = tables[t].state
                      /\ t \in Orphans => tables'[t].sector = boot[i].sector
                      /\ t \notin Orphans => tables'[t] = tables[t]
    OBVIOUS
  <2>1. tables[t] \in TableRows
    BY DEF IInv, TypeInv, RowsOK
  <2>2. CASE t \in Orphans
    <3>1. tables'[t] = [tables[t] EXCEPT !.sector = boot[i].sector]
      BY <1>1, <2>2
    <3>2. QED
      BY <1>2, <2>1, <2>2, <3>1 DEF TableRows
  <2>3. CASE t \notin Orphans
    BY <1>1, <2>1, <2>3
  <2>4. QED
    BY <2>2, <2>3
<1>5. tables' \in [Tables -> TableRows]
  BY <1>1, <1>4
<1>6. unguarded \subseteq unguarded' /\ unguarded' \in SUBSET Tables
  BY <1>1, <1>3 DEF IInv, TypeInv, RowsOK
<1>7. RowsOK'
  BY <1>1, <1>3, <1>4, <1>5, <1>6 DEF IInv, TypeInv, RowsOK, UniqueNames, Existing
<1>8. Live(tables') = Live(tables) /\ Live(tables) \subseteq Tables
  BY <1>4, <1>5 DEF Live, IInv, TypeInv, RowsOK
<1>9. Orphans \subseteq unguarded' \/ boot[i].sector \in Live(sectors)
  BY <1>1 DEF IInv, SectorInv, PlacesLive
<1>10. Live(sectors') = Live(sectors)
  BY <1>1 DEF Live
<1>11. LiveTableInLiveSector'
  <2> SUFFICES ASSUME NEW t \in Live(tables')
               PROVE  \/ tables'[t].sector = None
                      \/ tables'[t].sector \in Live(sectors')
                      \/ t \in unguarded'
    BY DEF LiveTableInLiveSector
  <2>1. CASE t \in Orphans
    BY <1>4, <1>8, <1>9, <1>10, <2>1
  <2>2. CASE t \notin Orphans
    BY <1>4, <1>6, <1>8, <1>10, <2>2 DEF IInv, SectorInv, LiveTableInLiveSector
  <2>3. QED
    BY <2>1, <2>2
<1>12. Emptied'
  <2> SUFFICES ASSUME NEW q \in Procs, Counted(q), NEW t \in Live(tables'),
                      tables'[t].sector = call[q].id
               PROVE  t \in unguarded'
    BY <1>1 DEF Emptied, Counted
  <2>1. boot[i].raced
    BY <1>1, DeletingIsCounted DEF IInv, SectorInv, Races
  <2>2. CASE t \in Orphans
    BY <1>1, <2>1, <2>2
  <2>3. CASE t \notin Orphans
    BY <1>4, <1>6, <1>8, <2>3 DEF IInv, SectorInv, Emptied
  <2>4. QED
    BY <2>2, <2>3
<1> PICK b : b = [NotBooted EXCEPT !.at = "up"]
  OBVIOUS
<1>13. b \in Boots /\ b.at = "up" /\ b.sector = None
  BY DEF NotBooted, Boots
<1>14. Reaches(i, b) /\ UNCHANGED <<pc, call>>
  BY <1>1, <1>13 DEF Reaches
<1>15. /\ BootsOK' /\ PlacesLive' /\ Live(sectors) \subseteq Live(sectors')
       /\ \A j \in Instances : Deleting /\ boot'[j].at = "place" => boot'[j].raced
  BY <1>10, <1>13, <1>14, ReachesFrame
<1>16. QED
  BY <1>6, <1>7, <1>11, <1>12, <1>14, <1>15, NoHandlerInv

-------------------------------------------------------------------------------
(* Theorems *)

(***************************************************************************)
(* Every step keeps the invariant.                                         *)
(***************************************************************************)
LEMMA StepInv == IInv /\ [Next]_vars => IInv'
<1> SUFFICES ASSUME IInv, [Next]_vars PROVE IInv'
  OBVIOUS
<1>1. ASSUME NEW p \in Procs,
             \/ CreateTable(p) \/ MoveTable(p) \/ EditTable(p)
             \/ SoftDeleteTable(p) \/ RestoreTable(p)
      PROVE  IInv'
  BY <1>1, TableHandlersStart
<1>2. ASSUME NEW p \in Procs, UpdateSector(p) \/ SoftDeleteSector(p) \/ RestoreSector(p)
      PROVE  IInv'
  BY <1>2, SectorHandlersStart
<1>3. ASSUME NEW p \in Procs, ValidateSector(p) \/ InsertTable(p) \/ SaveTable(p)
      PROVE  IInv'
  BY <1>3, ValidateInv, InsertInv, SaveTableInv
<1>4. ASSUME NEW p \in Procs, CountTables(p) \/ SaveSector(p) \/ Fail(p)
      PROVE  IInv'
  BY <1>4, CountInv, SaveSectorInv, FailInv
<1>5. ASSUME NEW i \in Instances, Boot(i) \/ Crash(i)
      PROVE  IInv'
  BY <1>5, BootReads, InsertGeneralInv, PlaceInv DEF Boot
<1>6. CASE CreateSector \/ LegacyCreate
  BY <1>6, CreateSectorInv, LegacyCreateInv
<1>7. CASE UNCHANGED vars
  <2>1. RowsOK' /\ HandlersOK' /\ BootsOK'
    BY <1>7 DEF vars, IInv, TypeInv, RowsOK, HandlersOK, BootsOK, UniqueNames, Existing, Fits
  <2>2. LiveTableInLiveSector' /\ PlacesLive'
    BY <1>7 DEF vars, IInv, SectorInv, LiveTableInLiveSector, PlacesLive, Live
  <2>3. WritesLive'
    BY <1>7 DEF vars, IInv, SectorInv, WritesLive, Excused, Standing, Live
  <2>4. Races' /\ Emptied'
    BY <1>7 DEF vars, IInv, SectorInv, Races, Deleting, Emptied, Counted, Live
  <2>5. QED
    BY <2>1, <2>2, <2>3, <2>4 DEF IInv, TypeInv, SectorInv
<1>8. TableHandlers \subseteq Procs /\ SectorHandlers \subseteq Procs
  BY DEF Procs
<1>9. QED
  BY <1>1, <1>2, <1>3, <1>4, <1>5, <1>6, <1>7, <1>8 DEF Next

(***************************************************************************)
(* IInv is an invariant of the sectors and tables of an organization.      *)
(***************************************************************************)
LEMMA Inductive == Spec => []IInv
<1>1. QED
  BY InitInv, StepInv, PTL DEF Spec

(***************************************************************************)
(* Every variable keeps its shape; no two sectors share a name.            *)
(***************************************************************************)
THEOREM Typing == Spec => []TypeOK
<1>1. QED
  BY Inductive, InvTypes, PTL

(***************************************************************************)
(* A live table stands in a live sector, or restore brought it back, or it *)
(* was written between the count and the commit of a sector's deletion     *)
(* (sectors.service.ts softDelete, tables.service.ts validateSector).      *)
(***************************************************************************)
THEOREM Housed == Spec => []LiveTableInLiveSector
<1>1. IInv => LiveTableInLiveSector
  BY DEF IInv, SectorInv
<1>2. QED
  BY Inductive, <1>1, PTL
================================================================================
