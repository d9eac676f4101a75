----------------------------- MODULE FloorEditor -----------------------------
(***************************************************************************)
(* The floor as the desktop application shows it: a list of zones with     *)
(* their tables that is fetched now and then, and patched by hand with     *)
(* the answer to every change; and the page in which a manager changes it, *)
(* while others change it too.                                             *)
(* Source: apps/desktop/src/renderer/src/hooks/operations/useDiningRoom.ts *)
(* and components/floor/FloorWorkspace.tsx.                                *)
(***************************************************************************)
EXTENDS DiningRoom, FiniteSetsExt

CONSTANTS
  Names,       \* names and numbers that are typed
  MaxEdits,    \* bound: changes the manager asks for, and visits of the page
  MaxOthers,   \* bound: requests of others
  MaxFaults    \* bound: failures of the database and the network

ASSUME FiniteAssumption == IsFiniteSet(Zones) /\ IsFiniteSet(Tables)
ASSUME BoundsAssumption ==
  Names \subseteq Nat \ {0} /\ MaxEdits \in Nat /\ MaxOthers \in Nat /\ MaxFaults \in Nat

VARIABLES
  shown,      \* [zones, tables, again]: the list in the cache; again: ids it lists twice
  fetch,      \* [step, list, muddled, failed]: the fetch of the list; failed: an error is shown
  asked,      \* asked[w]: who sent the request of w
  page,       \* the page that is open: "floor", "tables" or "pos"
  deleting,   \* the zone or table that the delete dialog is open for
  used,       \* [edits, others, faults]: how much of the bounds is used up
  (* History, read by no action: *)
  before,     \* before[w]: requests answered by the server before that of w, and not here yet
  crossed,    \* answers and fetches crossed, or a fetch was dropped after it had read,
              \* since the last fetch that met none
  foreign     \* somebody else changed the room since it was last read

floorVars == <<shown, fetch, asked, page, deleting, used, before, crossed, foreign>>

-----------------------------------------------------------------------------
(* The cache *)

\* A zone is shown by its name, a table by its row.  Names are counted from 1.
NotShown == 0

Listing ==
  [zones  |-> [z \in Zones |-> IF z \in ListedZones THEN zone[z].name ELSE NotShown],
   tables |-> [t \in Tables |-> IF t \in ListedTables THEN table[t] ELSE NoRow],
   again  |-> {}]

Empty == [zones |-> [z \in Zones |-> NotShown], tables |-> [t \in Tables |-> NoRow], again |-> {}]

ShownZones(list) == {z \in Zones : list.zones[z] # NotShown}
ShownTables(list) == {t \in Tables : list.tables[t] # NoRow}

\* Mutant: the tables of a zone stay.
WithoutAlone(list, i) ==
  [list EXCEPT !.zones = [z \in Zones |-> IF z = i THEN NotShown ELSE @[z]],
               !.tables = [t \in Tables |-> IF t = i THEN NoRow ELSE @[t]]]

\* A zone goes with the tables that are listed in it.
Without(list, i) ==
  LET gone == {i} \cup {t \in ShownTables(list) : list.tables[t].zone = i} IN
  [zones  |-> [z \in Zones |-> IF z \in gone THEN NotShown ELSE list.zones[z]],
   tables |-> [t \in Tables |-> IF t \in gone THEN NoRow ELSE list.tables[t]],
   again  |-> list.again \ gone]

\* A row is appended, although a fetch may have brought it already.
WithZone(list, z, r) ==
  [list EXCEPT !.zones[z] = r.name,
               !.again = IF z \in ShownZones(list) THEN @ \cup {z} ELSE @]

WithTable(list, t, r) ==
  IF r.zone \notin ShownZones(list) THEN list
  ELSE [list EXCEPT !.tables[t] = r,
                    !.again = IF t \in ShownTables(list) THEN @ \cup {t} ELSE @]

\* Removed from every zone, added to the one it belongs to now.
ReplaceTable(list, t, r) == WithTable(Without(list, t), t, r)

RenameZoneIn(list, z, r) ==
  IF z \in ShownZones(list) THEN [list EXCEPT !.zones[z] = r.name] ELSE list

\* What the answer to request q makes of the list.
Patched(list, q) ==
  CASE q.op = "createZone" -> WithZone(list, q.id, q.row)
    [] q.op = "updateZone" -> RenameZoneIn(list, q.id, q.row)
    [] q.op = "createTable" -> WithTable(list, q.id, q.row)
    [] q.op \in {"updateTable", "setStatus"} -> ReplaceTable(list, q.id, q.row)
    [] OTHER -> Without(list, q.id)

-----------------------------------------------------------------------------
(* Fetches *)

Mine(w) == asked[w] \in {"page", "earlier"}
Mutations == {w \in Workers : Mine(w)}

\* The request of w has changed the room, and its answer is not here.
Took(w) == req[w].result = "done" \/ (Under(w) /\ Head(req[w].todo) \in {"read", "tables"})

Fetching == [fetch EXCEPT !.step = "asked"]

FetchReads ==
  /\ fetch.step = "asked"
  /\ fetch' = [fetch EXCEPT !.step = "arriving", !.list = Listing,
                            !.muddled = \E w \in Mutations : Took(w)]
  /\ foreign' = FALSE
  /\ UNCHANGED <<roomVars, shown, asked, page, deleting, used, before, crossed>>

FetchArrives ==
  /\ fetch.step = "arriving"
  /\ shown' = fetch.list
  /\ fetch' = [fetch EXCEPT !.step = "idle", !.list = Empty, !.failed = FALSE, !.muddled = FALSE]
  /\ crossed' = fetch.muddled
  /\ UNCHANGED <<roomVars, asked, page, deleting, used, before, foreign>>

\* It failed twice: the list stays, and the page offers to try again.
FetchFails ==
  /\ fetch.step = "asked" /\ used.faults < MaxFaults
  /\ fetch' = [fetch EXCEPT !.step = "idle", !.failed = TRUE]
  /\ used' = [used EXCEPT !.faults = @ + 1]
  /\ UNCHANGED <<roomVars, shown, asked, page, deleting, before, crossed, foreign>>

\* A page that shows the list is opened: a fetch, unless one is under way.  The
\* page that is left forgets which requests it was waiting for.
GoTo(p) ==
  /\ deleting = NoId /\ page # p
  /\ page' = p
  /\ fetch' = IF fetch.step = "idle" THEN Fetching ELSE fetch
  /\ asked' = [w \in Workers |-> IF Mine(w) THEN "earlier" ELSE asked[w]]
  /\ UNCHANGED <<roomVars, shown, deleting, before, crossed, foreign>>

\* The button of the page that could not load.
Retry ==
  /\ page \in {"floor", "tables"} /\ fetch.failed /\ fetch.step = "idle"
  /\ fetch' = Fetching
  /\ UNCHANGED <<roomVars, shown, asked, page, deleting, used, before, crossed, foreign>>

-----------------------------------------------------------------------------
(* The page *)

Saving == \E w \in Workers : asked[w] = "page"

\* The page is shown, and no dialog covers it.
Editable == page = "floor" /\ deleting = NoId /\ ~fetch.failed /\ used.edits < MaxEdits

\* A hook waits for the last of its requests only.
Sends(w, op, i, data) ==
  /\ Arrive(w, op, i, data)
  /\ asked' = [v \in Workers |->
       IF v = w THEN "page"
       ELSE IF asked[v] = "page" /\ req[v].op = op THEN "earlier" ELSE asked[v]]
  /\ before' = [before EXCEPT ![w] = {}]
  /\ UNCHANGED <<shown, fetch, page, crossed, foreign>>

Edits(w, op, i, data) ==
  /\ Editable
  /\ Sends(w, op, i, data)
  /\ used' = [used EXCEPT !.edits = @ + 1]
  /\ UNCHANGED deleting

\* Bounds: ids are left for the rows that are created.
ZoneLeft == Cardinality(Unused(zone)) > Cardinality({w \in Workers : req[w].op = "createZone"})
TableLeft == Cardinality(Unused(table)) > Cardinality({w \in Workers : req[w].op = "createTable"})

\* nextZoneName: "Zona n", counted on from the zones that are shown.
NextZoneName ==
  LET names == {shown.zones[z] : z \in ShownZones(shown)}
      n == Cardinality(ShownZones(shown)) + 1
  IN Min({k \in n .. n + Cardinality(Zones) : k \notin names})

NextTableNumber == Max({0} \cup {shown.tables[t].number : t \in ShownTables(shown)}) + 1

CreateZone(w) ==
  /\ ~Saving /\ ZoneLeft
  /\ Edits(w, "createZone", NoId, [name |-> NextZoneName])

CreateTable(w, z) ==
  /\ ~Saving /\ TableLeft /\ z \in ShownZones(shown)
  /\ Edits(w, "createTable", NoId, [zone |-> z, number |-> NextTableNumber, seats |-> 4])

\* Names and numbers are edited in place, whatever is being saved.
RenameZone(w, z, name) ==
  /\ z \in ShownZones(shown) /\ name # shown.zones[z]
  /\ Edits(w, "updateZone", z, [name |-> name])

RenameTable(w, t, number) ==
  /\ t \in ShownTables(shown) /\ number # shown.tables[t].number
  /\ Edits(w, "updateTable", t, [number |-> number])

ChangeSeats(w, t, by) ==
  /\ ~Saving /\ t \in ShownTables(shown)
  /\ shown.tables[t].seats + by \in 3..5
  /\ Edits(w, "updateTable", t, [seats |-> shown.tables[t].seats + by])

AskDelete(i) ==
  /\ Editable /\ ~Saving /\ i \in ShownZones(shown) \cup ShownTables(shown)
  /\ deleting' = i
  /\ UNCHANGED <<roomVars, shown, fetch, asked, page, used, before, crossed, foreign>>

CancelDelete ==
  /\ deleting # NoId
  /\ deleting' = NoId
  /\ UNCHANGED <<roomVars, shown, fetch, asked, page, used, before, crossed, foreign>>

ConfirmDelete(w) ==
  /\ deleting # NoId
  /\ Sends(w, IF deleting \in Zones THEN "deleteZone" ELSE "deleteTable", deleting, NoData)
  /\ deleting' = NoId
  /\ used' = [used EXCEPT !.edits = @ + 1]

-----------------------------------------------------------------------------
(* Requests under way, and their answers *)

\* A statement of w; who changes what for whom is remembered.
Noted(w) ==
  /\ before' = IF Mine(w) /\ req'[w].result # "none"
                 THEN [before EXCEPT ![w] = {v \in Mutations \ {w} : req[v].result # "none"}]
                 ELSE before
  /\ foreign' = (foreign \/ (~Mine(w) /\ <<zone, table>>' # <<zone, table>>))

Served(w) ==
  /\ ServeRoom(w)
  /\ Noted(w)
  /\ UNCHANGED <<shown, fetch, asked, page, deleting, used, crossed>>

RemovalFails(w) ==
  /\ used.faults < MaxFaults
  /\ RemoveTablesFails(w)
  /\ used' = [used EXCEPT !.faults = @ + 1]
  /\ crossed' = (crossed \/ Mine(w))
  /\ fetch' = [fetch EXCEPT !.muddled = @ \/ Mine(w)]
  /\ Noted(w)
  /\ UNCHANGED <<shown, asked, page, deleting>>

Answered(w) ==
  /\ Dismiss(w)
  /\ asked' = [asked EXCEPT ![w] = "nobody"]
  /\ before' = [v \in Workers |-> IF v = w THEN {} ELSE before[v] \ {w}]

AnswerDone(w) ==
  /\ Mine(w) /\ req[w].result = "done"
  /\ Answered(w)
  /\ shown' = Patched(shown, req[w])
  /\ crossed' = (crossed \/ before[w] # {})
  /\ fetch' = [fetch EXCEPT !.muddled = @ \/ fetch.step = "arriving", !.failed = FALSE]
  /\ UNCHANGED <<page, deleting, used, foreign>>

\* A refusal, or an answer that is lost on its way: an error is shown, and no more.
AnswerRefused(w) ==
  /\ Mine(w) /\ req[w].result = "refused"
  /\ Answered(w)
  /\ UNCHANGED <<shown, fetch, page, deleting, used, crossed, foreign>>

AnswerLost(w) ==
  /\ Mine(w) /\ req[w].result = "done" /\ used.faults < MaxFaults
  /\ Answered(w)
  /\ used' = [used EXCEPT !.faults = @ + 1]
  /\ crossed' = TRUE
  /\ fetch' = [fetch EXCEPT !.muddled = TRUE]
  /\ UNCHANGED <<shown, page, deleting, foreign>>

-----------------------------------------------------------------------------
(* Other managers, waiters who set the status of a table, callers of the API *)

OtherRequest(w) ==
  \/ \E z \in Zones :
       \/ \E n \in Names : Arrive(w, "updateZone", z, [name |-> n])
       \/ Arrive(w, "updateZone", z, [active |-> FALSE])
       \/ Arrive(w, "deleteZone", z, NoData)
       \/ \E n \in Names :
            TableLeft /\ Arrive(w, "createTable", NoId, [zone |-> z, number |-> n, seats |-> 4])
  \/ \E t \in LiveTables :
       \/ \E z \in Zones : Arrive(w, "updateTable", t, [zone |-> z])
       \/ \E n \in Names : Arrive(w, "updateTable", t, [number |-> n])
       \/ \E s \in {"FREE", "RESERVED"} : Arrive(w, "setStatus", t, [status |-> s])
       \/ Arrive(w, "deleteTable", t, NoData)
  \/ \E n \in Names : ZoneLeft /\ Arrive(w, "createZone", NoId, [name |-> n])

OtherSends(w) ==
  /\ used.others < MaxOthers
  /\ OtherRequest(w)
  /\ asked' = [asked EXCEPT ![w] = "other"]
  /\ used' = [used EXCEPT !.others = @ + 1]
  /\ UNCHANGED <<shown, fetch, page, deleting, before, crossed, foreign>>

OtherDone(w) ==
  /\ asked[w] = "other" /\ req[w].result # "none"
  /\ Answered(w)
  /\ UNCHANGED <<shown, fetch, page, deleting, used, crossed, foreign>>

-----------------------------------------------------------------------------
\* A page that has just shown what is stored.
FloorInit ==
  /\ RoomInit
  /\ shown = Listing
  /\ fetch = [step |-> "idle", list |-> Empty, muddled |-> FALSE, failed |-> FALSE]
  /\ asked = [w \in Workers |-> "nobody"] /\ deleting = NoId
  /\ page \in {"floor", "tables", "pos"}
  /\ used \in [edits : 0..MaxEdits, others : 0..MaxOthers, faults : 0..MaxFaults]
  /\ before = [w \in Workers |-> {}] /\ crossed = FALSE /\ foreign = FALSE

FloorStep ==
  \/ FetchReads \/ FetchArrives \/ FetchFails \/ Retry \/ CancelDelete
  \/ \E i \in Zones \cup Tables : AskDelete(i)
  \/ \E w \in Workers :
       \/ CreateZone(w) \/ ConfirmDelete(w)
       \/ \E z \in Zones : CreateTable(w, z)
       \/ \E z \in Zones, n \in Names : RenameZone(w, z, n)
       \/ \E t \in Tables, n \in Names : RenameTable(w, t, n)
       \/ \E t \in Tables, by \in {-1, 1} : ChangeSeats(w, t, by)
       \/ Served(w) \/ RemovalFails(w) \/ AnswerDone(w) \/ AnswerRefused(w) \/ AnswerLost(w)
       \/ OtherSends(w) \/ OtherDone(w)

-----------------------------------------------------------------------------
(* Properties *)

FloorTypeOK ==
  /\ DOMAIN shown = {"zones", "tables", "again"}
  /\ shown.zones \in [Zones -> Nat] /\ DOMAIN shown.tables = Tables
  /\ shown.again \subseteq ShownZones(shown) \cup ShownTables(shown)
  /\ \A t \in ShownTables(shown) : shown.tables[t].zone \in ShownZones(shown)
  /\ fetch.step \in {"idle", "asked", "arriving"} /\ fetch.failed \in BOOLEAN
  /\ asked \in [Workers -> {"nobody", "page", "earlier", "other"}]
  /\ \A w \in Workers : asked[w] = "nobody" <=> req[w] = NoRequest
  /\ page \in {"floor", "tables", "pos"} /\ deleting \in Zones \cup Tables \cup {NoId}

FloorQuiet == fetch.step = "idle" /\ Mutations = {}

\* The list is the room as it is, each of its rows once.
FloorSettles ==
  FloorQuiet /\ ~crossed /\ ~foreign => shown = Listing

=============================================================================
