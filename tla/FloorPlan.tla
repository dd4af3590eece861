------------------------------- MODULE FloorPlan -------------------------------
(***************************************************************************)
(* The sectors of one organization and the tables that stand in them       *)
(* (sectors.service.ts; tables.service.ts create, update, updatePositions, *)
(* softDelete, restore and onModuleInit).  Handlers check, then save what  *)
(* they read, without a transaction around the two; instances of the       *)
(* service may boot while they and others serve calls.                     *)
(*                                                                         *)
(* Names of tables are left out: whether validateUniqueName refuses one or *)
(* the unique index does, the call fails and nothing is written (Fail).    *)
(***************************************************************************)
EXTENDS Integers, FiniteSets

CONSTANTS TableHandlers,    \* handlers of tables that may be in flight at once
          SectorHandlers,   \* handlers of sectors
          Instances,        \* processes of the service that boot
          Tables, Sectors,  \* ids (bounds on the rows ever inserted)
          Names,            \* the names of sectors
          General,          \* the name that onModuleInit gives
          None              \* no sector, no name, no id yet

ASSUME FloorPlanAssumption ==
  /\ General \in Names
  /\ None \notin TableHandlers \cup SectorHandlers \cup Instances
                 \cup Tables \cup Sectors \cup Names

VARIABLES tables,    \* rows of tables: sectorId, isDeleted
          sectors,   \* rows of sectors: name, isDeleted
          pc, call,  \* the handlers in flight
          boot,      \* how far an instance has come, and the sector it found
          unguarded  \* history: tables restored, or written while a sector was
                     \* being deleted

vars == <<tables, sectors, pc, call, boot, unguarded>>

\* The handlers in flight.
Procs == TableHandlers \cup SectorHandlers

RowStates == {"absent", "live", "deleted"}
TableRows == [state : RowStates, sector : Sectors \cup {None}]
SectorRows == [state : RowStates, name : Names \cup {None}]

Live(rows) == {x \in DOMAIN rows : rows[x].state = "live"}
Existing(rows) == {x \in DOMAIN rows : rows[x].state # "absent"}
Orphans == {t \in Existing(tables) : tables[t].sector = None}
StandingIn(s) == {t \in Live(tables) : tables[t].sector = s}

\* Unique (organizationId, name), on deleted rows too.
LiveNameTaken(name) == \E s \in Live(sectors) : sectors[s].name = name
NameTaken(name) == \E s \in Existing(sectors) : sectors[s].name = name
UniqueNames(rows) == \A s, r \in Existing(rows) : rows[s].name = rows[r].name => s = r

Absent == [state |-> "absent", sector |-> None]
NoCall == [kind |-> "none"]

NotBooted == [at |-> "find", sector |-> None, raced |-> FALSE]

\* Before the first boot: tables of the version that knew no sectors.
Init ==
  /\ \E legacy \in SUBSET Tables :
       tables = [t \in Tables |-> IF t \in legacy THEN [state |-> "live", sector |-> None]
                                                  ELSE Absent]
  /\ sectors = [s \in Sectors |-> [state |-> "absent", name |-> None]]
  /\ pc = [p \in Procs |-> "idle"]
  /\ call = [p \in Procs |-> NoCall]
  /\ boot = [i \in Instances |-> NotBooted]
  /\ unguarded = {}

Goto(p, from, to) == pc[p] = from /\ pc' = [pc EXCEPT ![p] = to]

Finish(p) ==
  /\ pc' = [pc EXCEPT ![p] = "idle"]
  /\ call' = [call EXCEPT ![p] = NoCall]

\* A sector's deletion has counted its tables and is not committed yet.
Deleting == \E q \in Procs : /\ pc[q] = "save"
                             /\ call[q].kind = "sector" /\ call[q].copy.state = "deleted"

\* A handler goes on with a row it read, edited; a new row has no id yet.
Hold(p, next, kind, id, copy) ==
  /\ Goto(p, "idle", next)
  /\ call' = [call EXCEPT ![p] = [kind |-> kind, id |-> id, copy |-> copy,
                                  raced |-> kind = "table" /\ Deleting]]
  /\ UNCHANGED <<tables, sectors, boot>>

-------------------------------------------------------------------------------
(* tables.service.ts *)

CreateTable(p) == \E s \in Sectors :
  /\ Hold(p, "validate", "table", None, [state |-> "live", sector |-> s])
  /\ UNCHANGED unguarded

\* update with a sector.
MoveTable(p) == \E t \in Live(tables), s \in Sectors :
  /\ Hold(p, "validate", "table", t, [tables[t] EXCEPT !.sector = s])
  /\ UNCHANGED unguarded

\* update without one, updatePositions.
EditTable(p) == \E t \in Live(tables) :
  /\ Hold(p, "save", "table", t, tables[t])
  /\ UNCHANGED unguarded

\* An occupied table is refused (Fail).
SoftDeleteTable(p) == \E t \in Live(tables) :
  /\ Hold(p, "save", "table", t, [tables[t] EXCEPT !.state = "deleted"])
  /\ UNCHANGED unguarded

RestoreTable(p) == \E t \in Existing(tables) \ Live(tables) :
  /\ Hold(p, "save", "table", t, [tables[t] EXCEPT !.state = "live"])
  /\ unguarded' = unguarded \cup {t}

FoundAny(s) == s \in Existing(sectors)
Found(s) == s \in Live(sectors)

ValidateSector(p) ==
  /\ pc[p] = "validate"
  /\ Found(call[p].copy.sector)
  /\ pc' = [pc EXCEPT ![p] = IF call[p].id = None THEN "insert" ELSE "save"]
  /\ UNCHANGED <<tables, sectors, call, boot, unguarded>>

InsertTable(p) == \E t \in Tables :
  /\ pc[p] = "insert"
  /\ tables[t].state = "absent"
  /\ tables' = [tables EXCEPT ![t] = call[p].copy]
  /\ unguarded' = IF call[p].raced THEN unguarded \cup {t} ELSE unguarded
  /\ Finish(p)
  /\ UNCHANGED <<sectors, boot>>

\* save writes every column that differs from the copy.
SaveTable(p) ==
  LET c == call[p] IN
  /\ pc[p] = "save" /\ c.kind = "table"
  /\ tables' = [tables EXCEPT ![c.id] = c.copy]
  /\ unguarded' = IF c.raced THEN unguarded \cup {c.id} ELSE unguarded
  /\ Finish(p)
  /\ UNCHANGED <<sectors, boot>>
-------------------------------------------------------------------------------
(* sectors.service.ts *)

\* create: one INSERT, nothing is checked before it.
CreateSector == \E s \in Sectors, name \in Names :
  /\ sectors[s].state = "absent"
  /\ sectors' = [sectors EXCEPT ![s] = [state |-> "live", name |-> name]]
  /\ UniqueNames(sectors')
  /\ UNCHANGED <<tables, pc, call, boot, unguarded>>

UpdateSector(p) == \E s \in Live(sectors), name \in Names :
  /\ Hold(p, "save", "sector", s, [sectors[s] EXCEPT !.name = name])
  /\ UNCHANGED unguarded

SoftDeleteSector(p) == \E s \in Live(sectors) :
  /\ Hold(p, "count", "sector", s, [sectors[s] EXCEPT !.state = "deleted"])
  /\ UNCHANGED unguarded

RestoreSector(p) == \E s \in Existing(sectors) \ Live(sectors) :
  /\ Hold(p, "save", "sector", s, [sectors[s] EXCEPT !.state = "live"])
  /\ UNCHANGED unguarded

\* Refused while live tables stand in the sector (Fail).
CountTables(p) ==
  /\ Goto(p, "count", "save")
  /\ StandingIn(call[p].id) = {}
  /\ call' = [q \in Procs |-> IF call[q].kind = "table"
                THEN [call[q] EXCEPT !.raced = TRUE] ELSE call[q]]
  /\ boot' = [i \in Instances |-> [boot[i] EXCEPT !.raced = @ \/ boot[i].at = "place"]]
  /\ UNCHANGED <<tables, sectors, unguarded>>

SaveSector(p) ==
  LET c == call[p] IN
  /\ pc[p] = "save" /\ c.kind = "sector"
  /\ sectors' = [sectors EXCEPT ![c.id] = c.copy]
  /\ UniqueNames(sectors')
  /\ Finish(p)
  /\ UNCHANGED <<tables, boot, unguarded>>
-------------------------------------------------------------------------------
\* A refused check, a violated index, a failed statement, a crash.
Fail(p) ==
  /\ pc[p] # "idle"
  /\ Finish(p)
  /\ UNCHANGED <<tables, sectors, boot, unguarded>>
-------------------------------------------------------------------------------
(* onModuleInit.  main.ts starts the microservices before it listens, and  *)
(* only listen runs the hook: an instance serves calls while it boots.     *)

BootTo(i, at) == boot' = [boot EXCEPT ![i].at = at]

\* Deleted tables too.
FindOrphans(i) ==
  /\ boot[i].at = "find"
  /\ BootTo(i, IF Orphans = {} THEN "up" ELSE "sector")
  /\ UNCHANGED <<tables, sectors, pc, call, unguarded>>

GeneralOnly(rows) == {s \in Live(rows) : rows[s].name = General}
Candidates(rows) == Live(rows)

FindSector(i) ==
  /\ boot[i].at = "sector"
  /\ \/ /\ Candidates(sectors) = {}
        /\ BootTo(i, "insert")
     \/ \E s \in Candidates(sectors) :
          boot' = [boot EXCEPT ![i] = [at |-> "place", sector |-> s, raced |-> Deleting]]
  /\ UNCHANGED <<tables, sectors, pc, call, unguarded>>

InsertGeneral(i) == \E s \in Sectors :
  /\ boot[i].at = "insert"
  /\ sectors[s].state = "absent" /\ ~ NameTaken(General)
  /\ sectors' = [sectors EXCEPT ![s] = [state |-> "live", name |-> General]]
  /\ boot' = [boot EXCEPT ![i] = [at |-> "place", sector |-> s, raced |-> Deleting]]
  /\ UNCHANGED <<tables, pc, call, unguarded>>

\* The unique index refuses the insert: the instance exits and starts again.
InsertRefused(i) ==
  /\ boot[i].at = "insert"
  /\ NameTaken(General)
  /\ BootTo(i, "find")
  /\ UNCHANGED <<tables, sectors, pc, call, unguarded>>

PlaceOrphans(i) ==
  /\ boot[i].at = "place"
  /\ tables' = [t \in Tables |-> IF t \in Orphans
                 THEN [tables[t] EXCEPT !.sector = boot[i].sector] ELSE tables[t]]
  /\ unguarded' = IF boot[i].raced THEN unguarded \cup Orphans ELSE unguarded
  /\ boot' = [boot EXCEPT ![i] = [NotBooted EXCEPT !.at = "up"]]
  /\ UNCHANGED <<sectors, pc, call>>

\* Between the insert and the UPDATE; elsewhere a boot has left nothing behind.
Crash(i) ==
  /\ boot[i].at = "place"
  /\ boot' = [boot EXCEPT ![i] = NotBooted]
  /\ UNCHANGED <<tables, sectors, pc, call, unguarded>>

\* An instance of the version before sectors, not replaced yet.
LegacyCreate == \E t \in Tables :
  /\ tables[t].state = "absent"
  /\ \E i \in Instances : boot[i].at # "up"
  /\ tables' = [tables EXCEPT ![t].state = "live"]
  /\ UNCHANGED <<sectors, pc, call, boot, unguarded>>

Boot(i) == FindOrphans(i) \/ FindSector(i) \/ InsertGeneral(i) \/ InsertRefused(i)
           \/ PlaceOrphans(i)

Next ==
  \/ \E p \in TableHandlers :
       \/ CreateTable(p) \/ MoveTable(p) \/ EditTable(p)
       \/ SoftDeleteTable(p) \/ RestoreTable(p)
       \/ ValidateSector(p) \/ InsertTable(p) \/ SaveTable(p)
  \/ \E p \in SectorHandlers :
       \/ UpdateSector(p) \/ SoftDeleteSector(p) \/ RestoreSector(p)
       \/ CountTables(p) \/ SaveSector(p)
  \/ \E p \in Procs : Fail(p)
  \/ \E i \in Instances : Boot(i) \/ Crash(i)
  \/ CreateSector \/ LegacyCreate

Spec == Init /\ [][Next]_vars

\* An instance that is down is started, and its continuations run.
FairSpec == Spec /\ \A i \in Instances : WF_vars(Boot(i))

-------------------------------------------------------------------------------
(***************************************************************************)
(* The shape of every variable.                                            *)
(***************************************************************************)
TypeOK ==
  /\ tables \in [Tables -> TableRows] /\ sectors \in [Sectors -> SectorRows]
  /\ UniqueNames(sectors)
  /\ pc \in [Procs -> {"idle", "validate", "count", "insert", "save"}]
  /\ \A p \in Procs : pc[p] = "idle" <=> call[p] = NoCall
  /\ \A p \in Procs :
       /\ call[p].kind = "table" => call[p].copy \in TableRows
       /\ call[p].kind = "sector" => call[p].copy \in SectorRows
  /\ \A i \in Instances : boot[i].at \in {"find", "sector", "insert", "place", "up"}
                           /\ (boot[i].at = "place" <=> boot[i].sector # None)
  /\ unguarded \subseteq Tables

(***************************************************************************)
(* softDelete of a sector: "Sector has active tables. Reassign or remove   *)
(* all tables before deleting this sector."  A live table stands in a      *)
(* deleted sector only if restore brought it back without looking, or if   *)
(* it was written by a handler or a boot that was in flight between the    *)
(* count and the commit of a deletion.                                     *)
(***************************************************************************)
LiveTableInLiveSector == \A t \in Live(tables) :
  tables[t].sector = None \/ tables[t].sector \in Live(sectors) \/ t \in unguarded

(***************************************************************************)
(* onModuleInit: when the staff have stopped editing sectors every         *)
(* instance comes up, whatever other instances and handlers of tables do   *)
(* meanwhile, unless there are tables to place, no live sector to place    *)
(* them in, and the name General belongs to a deleted one: then the insert *)
(* is refused at every start.                                              *)
(***************************************************************************)
GeneralIsDeleted ==
  Orphans # {} /\ Live(sectors) = {} /\ NameTaken(General)

StaffDone == <>[](\A p \in Procs : call[p].kind # "sector")
CrashesEnd == <>[][\A i \in Instances : ~ Crash(i)]_vars

EveryInstanceBoots == StaffDone /\ CrashesEnd =>
  \A i \in Instances : boot[i].at = "find" ~> boot[i].at = "up" \/ GeneralIsDeleted
================================================================================
