----------------------------- MODULE DiningRoom ------------------------------
(***************************************************************************)
(* The zones and tables of a branch, as the API keeps them: what each      *)
(* request reads, what it refuses and what it writes.                      *)
(* Source: apps/api/src/modules/operations/dining.service.ts and           *)
(* dining.repository.ts.                                                   *)
(*                                                                         *)
(* Every statement commits by itself, so a request is a list of statements *)
(* that others may come between.  No index keeps names and numbers apart   *)
(* (migration 20260619085845 drops the unique ones): the service does.     *)
(* Names and numbers are counted; what else a row holds - waiter, opening  *)
(* time, reservation, order of the zones - goes the way of the seats.      *)
(***************************************************************************)
EXTENDS Integers, FiniteSets, Sequences

CONSTANTS
  Workers,   \* requests the server may serve at the same time
  Zones,     \* ids of zones
  Tables,    \* ids of tables
  NoId

ASSUME NoIdAssumption == NoId \notin Zones \cup Tables
ASSUME IdsAssumption == Zones \cap Tables = {}

VARIABLES
  zone,     \* zone[z]: the row of zone z
  table,    \* table[t]: the row of table t
  req,      \* req[w]: the request that w serves
  (* History, read by no action: *)
  strayed,  \* zones whose removal failed half-way or overlapped a table's arrival
  raced     \* names and numbers that overlapping requests wanted

roomVars == <<zone, table, req, strayed, raced>>

-----------------------------------------------------------------------------
(* Rows and requests *)

Statuses == {"FREE", "OCCUPIED", "PENDING_BILL", "RESERVED"}

NoRow == [life |-> "none"]
Removed == [life |-> "removed"]
ZoneRow(name) == [life |-> "live", name |-> name, active |-> TRUE]
TableRow(z, number, seats) ==
  [life |-> "live", zone |-> z, number |-> number, seats |-> seats, status |-> "FREE"]

LiveZones == {z \in Zones : zone[z].life = "live"}
LiveTables == {t \in Tables : table[t].life = "live"}
OfZone(z) == {t \in LiveTables : table[t].zone = z}

\* findZonesWithTables: the zones that are in use, and their tables.
ListedZones == {z \in LiveZones : zone[z].active}
ListedTables == {t \in LiveTables : table[t].zone \in ListedZones}

ZoneOps == {"createZone", "updateZone", "deleteZone"}
TableOps == {"createTable", "updateTable", "setStatus", "deleteTable"}

NoData == [none |-> TRUE]
NoRequest == [op |-> "idle", id |-> NoId, data |-> NoData, todo |-> <<>>,
              row |-> NoRow, result |-> "none"]

\* What a request names: the zone or table it wants to be called so.
Wanted(op, data) ==
  CASE op \in ZoneOps /\ "name" \in DOMAIN data -> {<<"zone", data.name>>}
    [] op \in TableOps /\ "number" \in DOMAIN data -> {<<"table", data.number>>}
    [] OTHER -> {}

Under(w) == req[w] # NoRequest /\ req[w].result = "none"
WantedBy(w) == IF Under(w) THEN Wanted(req[w].op, req[w].data) ELSE {}

\* The zones that requests remove, and those that they put a table into.
Removing(op, i) == IF op = "deleteZone" THEN {i} ELSE {}
Entering(op, data) == IF op \in TableOps /\ "zone" \in DOMAIN data THEN {data.zone} ELSE {}
RemovedBy(w) == IF Under(w) THEN Removing(req[w].op, req[w].id) ELSE {}
EnteredBy(w) == IF Under(w) THEN Entering(req[w].op, req[w].data) ELSE {}

\* The statements of a request.  What an update has to check depends on the row found.
FirstSteps(op) ==
  CASE op = "createZone" -> <<"clash", "write">>
    [] op = "createTable" -> <<"zone", "clash", "write">>
    [] OTHER -> <<"find">>

Changes(data, r, field) == field \in DOMAIN data /\ data[field] # r[field]
If(condition, step) == IF condition THEN <<step>> ELSE <<>>

StepsOn(op, data, r) ==
  CASE op = "updateZone" -> If(Changes(data, r, "name"), "clash") \o <<"write", "read">>
    [] op = "updateTable" -> If(Changes(data, r, "number"), "clash")
                               \o If(Changes(data, r, "zone"), "zone") \o <<"write", "read">>
    [] op = "setStatus" -> <<"write", "read">>
    [] op = "deleteZone" -> <<"write", "tables">>
    [] op = "deleteTable" -> <<"write">>

Arrive(w, op, i, data) ==
  /\ req[w] = NoRequest
  /\ req' = [req EXCEPT ![w] = [NoRequest EXCEPT !.op = op, !.id = i, !.data = data,
                                                 !.todo = FirstSteps(op)]]
  /\ raced' = raced \cup (Wanted(op, data) \cap UNION {WantedBy(v) : v \in Workers \ {w}})
  /\ strayed' = strayed \cup (Removing(op, i) \cap UNION {EnteredBy(v) : v \in Workers \ {w}})
                        \cup (Entering(op, data) \cap UNION {RemovedBy(v) : v \in Workers \ {w}})
  /\ UNCHANGED <<zone, table>>

-----------------------------------------------------------------------------
(* Statements *)

Row(w) == IF req[w].op \in ZoneOps THEN zone[req[w].id] ELSE table[req[w].id]

At(w, step) == Under(w) /\ Head(req[w].todo) = step
Next1(w) == req' = [req EXCEPT ![w].todo = Tail(@)]
Refuse(w) == req' = [req EXCEPT ![w] = [@ EXCEPT !.todo = <<>>, !.result = "refused"]]
Finish(w, i, r) ==
  req' = [req EXCEPT ![w] = [@ EXCEPT !.todo = <<>>, !.result = "done", !.id = i, !.row = r]]

\* findZoneById, findTableById.
Find(w) ==
  /\ At(w, "find")
  /\ IF Row(w).life = "live"
       THEN req' = [req EXCEPT ![w].todo = StepsOn(req[w].op, req[w].data, Row(w))]
       ELSE Refuse(w)
  /\ UNCHANGED <<zone, table, strayed, raced>>

\* Mutant: a zone that was removed is good enough.
RequireAnyZone(w) ==
  /\ At(w, "zone")
  /\ Next1(w)
  /\ UNCHANGED <<zone, table, strayed, raced>>

RequireZone(w) ==
  /\ At(w, "zone")
  /\ IF req[w].data.zone \in ListedZones THEN Next1(w) ELSE Refuse(w)
  /\ UNCHANGED <<zone, table, strayed, raced>>

\* findZoneByName, findTableByNumber: any one of the rows that are called so.
Namesakes(w) ==
  IF req[w].op \in ZoneOps THEN {z \in LiveZones : zone[z].name = req[w].data.name}
                           ELSE {t \in LiveTables : table[t].number = req[w].data.number}

CheckClash(w) ==
  /\ At(w, "clash")
  /\ \/ (Namesakes(w) = {} \/ req[w].id \in Namesakes(w)) /\ Next1(w)
     \/ Namesakes(w) \ {req[w].id} # {} /\ Refuse(w)
  /\ UNCHANGED <<zone, table, strayed, raced>>

Unused(rows) == {i \in DOMAIN rows : rows[i] = NoRow}

Create(w) ==
  LET data == req[w].data IN
  /\ At(w, "write")
  /\ \/ /\ req[w].op = "createZone"
        /\ \E z \in Unused(zone) :
             /\ zone' = [zone EXCEPT ![z] = ZoneRow(data.name)]
             /\ Finish(w, z, zone'[z])
        /\ UNCHANGED table
     \/ /\ req[w].op = "createTable"
        /\ \E t \in Unused(table) :
             /\ table' = [table EXCEPT ![t] = TableRow(data.zone, data.number, data.seats)]
             /\ Finish(w, t, table'[t])
        /\ UNCHANGED zone
  /\ UNCHANGED <<strayed, raced>>

Merged(r, data) == [f \in DOMAIN r |-> IF f \in DOMAIN data THEN data[f] ELSE r[f]]

\* updateMany of the row, if it is still there.
Update(w) ==
  LET i == req[w].id IN
  /\ At(w, "write") /\ req[w].op \in {"updateZone", "updateTable", "setStatus"}
  /\ IF Row(w).life # "live"
       THEN Refuse(w) /\ UNCHANGED <<zone, table>>
       ELSE /\ Next1(w)
            /\ IF req[w].op = "updateZone"
                 THEN zone' = [zone EXCEPT ![i] = Merged(@, req[w].data)] /\ table' = table
                 ELSE table' = [table EXCEPT ![i] = Merged(@, req[w].data)] /\ zone' = zone
  /\ UNCHANGED <<strayed, raced>>

\* The row as it is by now: it may have been removed since.
Reread(w) ==
  /\ At(w, "read")
  /\ IF Row(w).life = "live" THEN Finish(w, req[w].id, Row(w)) ELSE Refuse(w)
  /\ UNCHANGED <<zone, table, strayed, raced>>

Remove(w) ==
  LET i == req[w].id IN
  /\ At(w, "write") /\ req[w].op \in {"deleteZone", "deleteTable"}
  /\ IF Row(w).life # "live"
       THEN Refuse(w) /\ UNCHANGED <<zone, table>>
       ELSE IF req[w].op = "deleteZone"
         THEN zone' = [zone EXCEPT ![i] = Removed] /\ table' = table /\ Next1(w)
         ELSE table' = [table EXCEPT ![i] = Removed] /\ zone' = zone /\ Finish(w, i, Removed)
  /\ UNCHANGED <<strayed, raced>>

\* The second statement of softDeleteZone.
RemoveTables(w) ==
  /\ At(w, "tables")
  /\ table' = [t \in Tables |-> IF t \in OfZone(req[w].id) THEN Removed ELSE table[t]]
  /\ Finish(w, req[w].id, Removed)
  /\ UNCHANGED <<zone, strayed, raced>>

\* The database fails between the two: the zone is gone, its tables stay.
RemoveTablesFails(w) ==
  /\ At(w, "tables")
  /\ Refuse(w)
  /\ strayed' = strayed \cup {req[w].id}
  /\ UNCHANGED <<zone, table, raced>>

ServeRoom(w) ==
  \/ Find(w) \/ RequireZone(w) \/ CheckClash(w) \/ Create(w)
  \/ Update(w) \/ Reread(w) \/ Remove(w) \/ RemoveTables(w)

Dismiss(w) ==
  /\ req' = [req EXCEPT ![w] = NoRequest]
  /\ UNCHANGED <<zone, table, strayed, raced>>

\* An account was opened or charged on table t (table-accounts.repository.ts).
AccountSets(t, status) ==
  /\ table' = [table EXCEPT ![t] = IF @.life = "live" THEN [@ EXCEPT !.status = status] ELSE @]
  /\ UNCHANGED <<zone, req, strayed, raced>>

-----------------------------------------------------------------------------
(* Properties *)

ZoneRows == {NoRow, Removed} \cup [life : {"live"}, name : Nat \ {0}, active : BOOLEAN]
TableRows == {NoRow, Removed} \cup
  [life : {"live"}, zone : Zones, number : Nat, seats : Nat \ {0}, status : Statuses]

RoomTypeOK ==
  /\ zone \in [Zones -> ZoneRows] /\ table \in [Tables -> TableRows]
  /\ \A w \in Workers :
       /\ DOMAIN req[w] = DOMAIN NoRequest
       /\ req[w].op \in ZoneOps \cup TableOps \cup {"idle"}
       /\ req[w].result \in {"none", "done", "refused"}
       /\ Under(w) <=> req[w].todo # <<>>
       /\ req[w].result = "done" => req[w].id \in Zones \cup Tables
  /\ strayed \subseteq Zones

\* A zone that is gone has taken its tables along, or its removal still has to.
TablesHaveZones ==
  \A t \in LiveTables :
    \/ table[t].zone \in LiveZones \cup strayed
    \/ \E w \in Workers : At(w, "tables") /\ req[w].id = table[t].zone

NamesApart ==
  /\ \A y, z \in LiveZones : zone[y].name = zone[z].name => y = z \/ <<"zone", zone[z].name>> \in raced
  /\ \A s, t \in LiveTables : table[s].number = table[t].number =>
       s = t \/ <<"table", table[t].number>> \in raced

(* A table that can be found belongs to a zone that can be found, and no   *)
(* two zones of a branch have one name nor two tables one number - unless  *)
(* requests for the same name overlapped, a table was put into a zone that *)
(* was being removed, or the removal of a zone failed after its first      *)
(* statement (dining.service.ts:35, dining.repository.ts:159).             *)
RoomInOrder == TablesHaveZones /\ NamesApart

-----------------------------------------------------------------------------
\* A room as requests that did not overlap left it, and nobody at work.
RoomInit ==
  /\ zone \in [Zones -> ZoneRows] /\ table \in [Tables -> TableRows]
  /\ req = [w \in Workers |-> NoRequest]
  /\ strayed = {} /\ raced = {}
  /\ RoomInOrder

=============================================================================
