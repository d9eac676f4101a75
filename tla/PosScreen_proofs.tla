-------------------------- MODULE PosScreen_proofs --------------------------
(***************************************************************************)
(* What holds of the zones and tables of a branch, and of the screens that *)
(* show them and an account, however many of them there are and however    *)
(* many requests and calls are at work: proofs of RoomInOrder and TypeOK.  *)
(* ScreenSettles_proofs builds on them.                                    *)
(*                                                                         *)
(* The service finds out that a zone is there and that a name is free in   *)
(* statements of their own, so what was found must still be so when the    *)
(* row is written (ZoneChecked, NameChecked).  It is, because whoever else *)
(* could have changed it was under way at the same time, which raced and   *)
(* strayed remember (Overlaps).                                            *)
(*                                                                         *)
(* The types need more than types: what a request asks for and what its    *)
(* answer brings (DataTyped, ResultTyped), that a list has the zone of     *)
(* every table it has (ListTyped), and that one handler of the screen at a *)
(* time may turn its dialog into another (ActsAlone).                      *)
(***************************************************************************)
EXTENDS PosScreen, SequenceTheorems, SumTheorems, TLAPS

-----------------------------------------------------------------------------
(* The invariant *)

RowsShape ==
  /\ DOMAIN zone = Zones /\ DOMAIN table = Tables
  /\ \A z \in LiveZones : DOMAIN zone[z] = {"life", "name", "active"}
  /\ \A t \in LiveTables : DOMAIN table[t] = {"life", "zone", "number", "seats", "status"}

\* What a request may bring along, and what it is about.
Carried(op) ==
  CASE op \in {"createZone", "updateZone"} -> {"name", "active"}
    [] op \in {"createTable", "updateTable"} -> {"zone", "number", "seats"}
    [] op = "setStatus" -> {"status"}
    [] OTHER -> {"none"}

WellSent(op, i, data) ==
  /\ op \in ZoneOps \cup TableOps
  /\ DOMAIN data \subseteq Carried(op)
  /\ op = "createZone" => "name" \in DOMAIN data
  /\ op = "createTable" => {"zone", "number", "seats"} \subseteq DOMAIN data
  /\ op \in {"createZone", "createTable"} => i = NoId
  /\ op \in {"updateZone", "deleteZone"} => i \in Zones
  /\ op \in {"updateTable", "setStatus", "deleteTable"} => i \in Tables

\* What may be left to do of a request.
Left(op) ==
  CASE op = "createZone" -> {<<"clash", "write">>, <<"write">>}
    [] op = "createTable" -> {<<"zone", "clash", "write">>, <<"clash", "write">>, <<"write">>}
    [] op = "updateZone" -> {<<"find">>, <<"clash", "write", "read">>, <<"write", "read">>, <<"read">>}
    [] op = "updateTable" -> {<<"find">>, <<"clash", "zone", "write", "read">>,
                              <<"clash", "write", "read">>, <<"zone", "write", "read">>,
                              <<"write", "read">>, <<"read">>}
    [] op = "setStatus" -> {<<"find">>, <<"write", "read">>, <<"read">>}
    [] op = "deleteZone" -> {<<"find">>, <<"write", "tables">>, <<"tables">>}
    [] op = "deleteTable" -> {<<"find">>, <<"write">>}

RequestsShape ==
  /\ DOMAIN req = Workers
  /\ \A w \in Workers :
       /\ DOMAIN req[w] = {"op", "id", "data", "todo", "row", "result"}
       /\ Under(w) => /\ WellSent(req[w].op, req[w].id, req[w].data)
                      /\ req[w].todo \in Left(req[w].op)

\* Two requests that are under way and concern each other are remembered.
Overlaps ==
  \A v, w \in Workers : v # w =>
    /\ RemovedBy(v) \cap EnteredBy(w) \subseteq strayed
    /\ WantedBy(v) \cap WantedBy(w) \subseteq raced

\* The zone that a table is put into was there when it was looked for.
ZoneFound(todo) ==
  todo \in {<<"clash", "write">>, <<"clash", "write", "read">>, <<"write", "read">>, <<"write">>}

ZoneChecked ==
  \A w \in Workers :
    Under(w) /\ ZoneFound(req[w].todo) => EnteredBy(w) \subseteq LiveZones \cup strayed

\* Nobody else was called so when the name was looked for.
Called(n) == {z \in LiveZones : n = <<"zone", zone[z].name>>}
               \cup {t \in LiveTables : n = <<"table", table[t].number>>}

NameFound(todo) == todo \in {<<"zone", "write", "read">>, <<"write", "read">>, <<"write">>}

NameChecked ==
  \A w \in Workers :
    Under(w) /\ NameFound(req[w].todo) =>
      \A n \in WantedBy(w) \ raced : Called(n) \subseteq {req[w].id}

RoomInv ==
  /\ RowsShape /\ RequestsShape /\ Overlaps /\ ZoneChecked /\ NameChecked
  /\ TablesHaveZones /\ NamesApart

DeletingShape == deleting \in Zones \cup Tables \cup {NoId}

IInv == RoomInv /\ DeletingShape

-----------------------------------------------------------------------------
(* Requests *)

\* A request that is under way has somebody to serve it.
LEMMA UnderIs ==
  ASSUME NEW w \in Workers, req[w].op \in ZoneOps \cup TableOps
  PROVE  Under(w) <=> req[w].result = "none"
  BY DEF Under, NoRequest, ZoneOps, TableOps

\* How the rest of a request begins, and what is left after it.
LEMMA Ahead ==
  ASSUME NEW op \in ZoneOps \cup TableOps, NEW todo \in Left(op)
  PROVE  /\ Head(todo) = "find" => todo = <<"find">>
         /\ Head(todo) = "zone" =>
              /\ Tail(todo) \in Left(op) /\ op \in TableOps
              /\ NameFound(Tail(todo)) => NameFound(todo)
              /\ Head(Tail(todo)) # "tables"
         /\ Head(todo) = "clash" =>
              /\ Tail(todo) \in Left(op) /\ op \in {"createZone", "createTable", "updateZone", "updateTable"}
              /\ ZoneFound(Tail(todo)) => ZoneFound(todo)
              /\ Head(Tail(todo)) # "tables"
         /\ Head(todo) = "write" =>
              /\ op # "deleteZone" => NameFound(todo) /\ ZoneFound(todo)
              /\ op \in {"updateZone", "updateTable", "setStatus"} => Tail(todo) = <<"read">>
              /\ op = "deleteZone" => Tail(todo) = <<"tables">>
         /\ Head(todo) = "tables" => op = "deleteZone"
         /\ Head(todo) = "read" => op \in {"updateZone", "updateTable", "setStatus"}
  <1>1. CASE op = "createZone"
    <2>1. CASE todo = <<"clash", "write">>
      BY <1>1, <2>1 DEF Left, NameFound, ZoneFound, ZoneOps, TableOps
    <2>2. CASE todo = <<"write">>
      BY <1>1, <2>2 DEF Left, NameFound, ZoneFound, ZoneOps, TableOps
    <2>3. QED BY <1>1, <2>1, <2>2 DEF Left
  <1>2. CASE op = "createTable"
    <2>1. CASE todo = <<"zone", "clash", "write">>
      BY <1>2, <2>1 DEF Left, NameFound, ZoneFound, ZoneOps, TableOps
    <2>2. CASE todo = <<"clash", "write">>
      BY <1>2, <2>2 DEF Left, NameFound, ZoneFound, ZoneOps, TableOps
    <2>3. CASE todo = <<"write">>
      BY <1>2, <2>3 DEF Left, NameFound, ZoneFound, ZoneOps, TableOps
    <2>4. QED BY <1>2, <2>1, <2>2, <2>3 DEF Left
  <1>3. CASE op = "updateZone"
    <2>1. CASE todo = <<"find">>
      BY <1>3, <2>1 DEF Left, NameFound, ZoneFound, ZoneOps, TableOps
    <2>2. CASE todo = <<"clash", "write", "read">>
      BY <1>3, <2>2 DEF Left, NameFound, ZoneFound, ZoneOps, TableOps
    <2>3. CASE todo = <<"write", "read">>
      BY <1>3, <2>3 DEF Left, NameFound, ZoneFound, ZoneOps, TableOps
    <2>4. CASE todo = <<"read">>
      BY <1>3, <2>4 DEF Left, NameFound, ZoneFound, ZoneOps, TableOps
    <2>5. QED BY <1>3, <2>1, <2>2, <2>3, <2>4 DEF Left
  <1>4. CASE op = "updateTable"
    <2>1. CASE todo = <<"find">>
      BY <1>4, <2>1 DEF Left, NameFound, ZoneFound, ZoneOps, TableOps
    <2>2. CASE todo = <<"clash", "zone", "write", "read">>
      BY <1>4, <2>2 DEF Left, NameFound, ZoneFound, ZoneOps, TableOps
    <2>3. CASE todo = <<"clash", "write", "read">>
      BY <1>4, <2>3 DEF Left, NameFound, ZoneFound, ZoneOps, TableOps
    <2>4. CASE todo = <<"zone", "write", "read">>
      BY <1>4, <2>4 DEF Left, NameFound, ZoneFound, ZoneOps, TableOps
    <2>5. CASE todo = <<"write", "read">>
      BY <1>4, <2>5 DEF Left, NameFound, ZoneFound, ZoneOps, TableOps
    <2>6. CASE todo = <<"read">>
      BY <1>4, <2>6 DEF Left, NameFound, ZoneFound, ZoneOps, TableOps
    <2>7. QED BY <1>4, <2>1, <2>2, <2>3, <2>4, <2>5, <2>6 DEF Left
  <1>5. CASE op = "setStatus"
    <2>1. CASE todo = <<"find">>
      BY <1>5, <2>1 DEF Left, NameFound, ZoneFound, ZoneOps, TableOps
    <2>2. CASE todo = <<"write", "read">>
      BY <1>5, <2>2 DEF Left, NameFound, ZoneFound, ZoneOps, TableOps
    <2>3. CASE todo = <<"read">>
      BY <1>5, <2>3 DEF Left, NameFound, ZoneFound, ZoneOps, TableOps
    <2>4. QED BY <1>5, <2>1, <2>2, <2>3 DEF Left
  <1>6. CASE op = "deleteZone"
    <2>1. CASE todo = <<"find">>
      BY <1>6, <2>1 DEF Left, NameFound, ZoneFound, ZoneOps, TableOps
    <2>2. CASE todo = <<"write", "tables">>
      BY <1>6, <2>2 DEF Left, NameFound, ZoneFound, ZoneOps, TableOps
    <2>3. CASE todo = <<"tables">>
      BY <1>6, <2>3 DEF Left, NameFound, ZoneFound, ZoneOps, TableOps
    <2>4. QED BY <1>6, <2>1, <2>2, <2>3 DEF Left
  <1>7. CASE op = "deleteTable"
    <2>1. CASE todo = <<"find">>
      BY <1>7, <2>1 DEF Left, NameFound, ZoneFound, ZoneOps, TableOps
    <2>2. CASE todo = <<"write">>
      BY <1>7, <2>2 DEF Left, NameFound, ZoneFound, ZoneOps, TableOps
    <2>3. QED BY <1>7, <2>1, <2>2 DEF Left
  <1>8. QED BY <1>1, <1>2, <1>3, <1>4, <1>5, <1>6, <1>7 DEF ZoneOps, TableOps

\* One statement and another one.
LEMMA JoinOneOne ==
  ASSUME NEW S, NEW a \in S, NEW b \in S
  PROVE  <<a>> \o <<b>> = <<a, b>>
  <1> DEFINE s == <<a>> \o <<b>>
             t == <<a, b>>
  <1>1. s \in Seq(S) /\ Len(s) = 2 /\ s[1] = a /\ s[2] = b
    BY ConcatProperties
  <1>2. t \in Seq(S) /\ Len(t) = 2 /\ t[1] = a /\ t[2] = b
    OBVIOUS
  <1> HIDE DEF s, t
  <1>3. \A i \in 1..Len(s) : s[i] = t[i]
    BY <1>1, <1>2
  <1>4. s = t
    BY <1>1, <1>2, <1>3, SeqEqual
  <1>5. QED BY <1>4 DEF s, t

\* One statement and two others.
LEMMA JoinOneTwo ==
  ASSUME NEW S, NEW a \in S, NEW b \in S, NEW c \in S
  PROVE  <<a>> \o <<b, c>> = <<a, b, c>>
  <1> DEFINE s == <<a>> \o <<b, c>>
             t == <<a, b, c>>
  <1>1. s \in Seq(S) /\ Len(s) = 3 /\ s[1] = a /\ s[2] = b /\ s[3] = c
    BY ConcatProperties
  <1>2. t \in Seq(S) /\ Len(t) = 3 /\ t[1] = a /\ t[2] = b /\ t[3] = c
    OBVIOUS
  <1> HIDE DEF s, t
  <1>3. \A i \in 1..Len(s) : s[i] = t[i]
    BY <1>1, <1>2
  <1>4. s = t
    BY <1>1, <1>2, <1>3, SeqEqual
  <1>5. QED BY <1>4 DEF s, t

\* Two statements and two others.
LEMMA JoinTwoTwo ==
  ASSUME NEW S, NEW a \in S, NEW b \in S, NEW c \in S, NEW d \in S
  PROVE  <<a, b>> \o <<c, d>> = <<a, b, c, d>>
  <1> DEFINE s == <<a, b>> \o <<c, d>>
             t == <<a, b, c, d>>
  <1>1. s \in Seq(S) /\ Len(s) = 4 /\ s[1] = a /\ s[2] = b /\ s[3] = c /\ s[4] = d
    BY ConcatProperties
  <1>2. t \in Seq(S) /\ Len(t) = 4 /\ t[1] = a /\ t[2] = b /\ t[3] = c /\ t[4] = d
    OBVIOUS
  <1> HIDE DEF s, t
  <1>3. \A i \in 1..Len(s) : s[i] = t[i]
    BY <1>1, <1>2
  <1>4. s = t
    BY <1>1, <1>2, <1>3, SeqEqual
  <1>5. QED BY <1>4 DEF s, t

\* The lists of statements that an update is put together of.
LEMMA Joins ==
  /\ <<"clash">> \o <<"write", "read">> = <<"clash", "write", "read">>
  /\ <<"zone">> \o <<"write", "read">> = <<"zone", "write", "read">>
  /\ <<"clash">> \o <<"zone">> = <<"clash", "zone">>
  /\ <<"clash", "zone">> \o <<"write", "read">> = <<"clash", "zone", "write", "read">>
  /\ <<>> \o <<>> = <<>>
  /\ <<"clash">> \o <<>> = <<"clash">> /\ <<>> \o <<"zone">> = <<"zone">>
  <1> DEFINE S == {"clash", "zone", "write", "read"}
  <1>1. "clash" \in S /\ "zone" \in S /\ "write" \in S /\ "read" \in S
    OBVIOUS
  <1> HIDE DEF S
  <1>2. <<"clash">> \o <<"write", "read">> = <<"clash", "write", "read">>
    BY <1>1, JoinOneTwo
  <1>3. <<"zone">> \o <<"write", "read">> = <<"zone", "write", "read">>
    BY <1>1, JoinOneTwo
  <1>4. <<"clash">> \o <<"zone">> = <<"clash", "zone">>
    BY <1>1, JoinOneOne
  <1>5. <<"clash", "zone">> \o <<"write", "read">> = <<"clash", "zone", "write", "read">>
    BY <1>1, JoinTwoTwo
  <1>6. <<>> \o <<>> = <<>> /\ <<"clash">> \o <<>> = <<"clash">> /\ <<>> \o <<"zone">> = <<"zone">>
    OBVIOUS
  <1>7. QED BY <1>2, <1>3, <1>4, <1>5, <1>6

\* What an update still has to do, once its row is found.
LEMMA StepsAhead ==
  ASSUME NEW op \in {"updateZone", "updateTable", "setStatus", "deleteZone", "deleteTable"},
         NEW data, NEW r
  PROVE  LET todo == StepsOn(op, data, r) IN
         /\ todo \in Left(op)
         /\ Head(todo) # "tables"
         /\ NameFound(todo) => /\ op = "updateZone" => ~Changes(data, r, "name")
                               /\ op = "updateTable" => ~Changes(data, r, "number")
         /\ ZoneFound(todo) /\ op = "updateTable" => ~Changes(data, r, "zone")
  <1>1. CASE op = "updateZone"
    <2>1. CASE Changes(data, r, "name")
      BY <1>1, <2>1, Joins DEF StepsOn, If, Left, NameFound, ZoneFound
    <2>2. CASE ~Changes(data, r, "name")
      BY <1>1, <2>2 DEF StepsOn, If, Left, NameFound, ZoneFound
    <2>3. QED BY <2>1, <2>2
  <1>2. CASE op = "updateTable"
    <2>1. CASE Changes(data, r, "number") /\ Changes(data, r, "zone")
      <3>1. StepsOn(op, data, r) = (<<"clash">> \o <<"zone">>) \o <<"write", "read">>
        BY <1>2, <2>1 DEF StepsOn, If
      <3>2. StepsOn(op, data, r) = <<"clash", "zone", "write", "read">>
        BY <3>1, Joins
      <3>3. QED BY <1>2, <3>2 DEF Left, NameFound, ZoneFound
    <2>2. CASE ~Changes(data, r, "number") /\ Changes(data, r, "zone")
      BY <1>2, <2>2, Joins DEF StepsOn, If, Left, NameFound, ZoneFound
    <2>3. CASE Changes(data, r, "number") /\ ~Changes(data, r, "zone")
      BY <1>2, <2>3, Joins DEF StepsOn, If, Left, NameFound, ZoneFound
    <2>4. CASE ~Changes(data, r, "number") /\ ~Changes(data, r, "zone")
      BY <1>2, <2>4 DEF StepsOn, If, Left, NameFound, ZoneFound
    <2>5. QED BY <2>1, <2>2, <2>3, <2>4
  <1>3. CASE op \in {"setStatus", "deleteZone", "deleteTable"}
    BY <1>3 DEF StepsOn, Left, NameFound, ZoneFound
  <1>4. QED BY <1>1, <1>2, <1>3

\* The requests of all others stay as they are.
OthersStay(w) ==
  /\ DOMAIN req' = Workers
  /\ \A v \in Workers \ {w} : req'[v] = req[v]

\* A request goes on with todo.
Continues(w, todo) ==
  /\ OthersStay(w)
  /\ DOMAIN req'[w] = DOMAIN req[w]
  /\ req'[w].op = req[w].op /\ req'[w].id = req[w].id /\ req'[w].data = req[w].data
  /\ req'[w].result = "none" /\ req'[w].todo = todo

\* A request is over, or forgotten.
Ended(w) ==
  /\ OthersStay(w)
  /\ DOMAIN req'[w] = {"op", "id", "data", "todo", "row", "result"}
  /\ ~Under(w)'

\* A statement that leaves todo behind continues with it.
LEMMA TodoContinues ==
  ASSUME RequestsShape, NEW w \in Workers, Under(w), NEW todo,
         req' = [req EXCEPT ![w].todo = todo]
  PROVE  Continues(w, todo)
  BY DEF RequestsShape, Under, Continues, OthersStay

\* A refusal is the end of a request.
LEMMA RefuseEnds ==
  ASSUME RequestsShape, NEW w \in Workers, Refuse(w)
  PROVE  Ended(w)
  BY DEF RequestsShape, Refuse, Ended, OthersStay, Under

\* So is a result.
LEMMA FinishEnds ==
  ASSUME RequestsShape, NEW w \in Workers, NEW i, NEW r, Finish(w, i, r)
  PROVE  Ended(w)
  BY DEF RequestsShape, Finish, Ended, OthersStay, Under

\* So is an answer that was taken note of.
LEMMA DismissEnds ==
  ASSUME RequestsShape, NEW w \in Workers, Dismiss(w)
  PROVE  Ended(w)
  BY DEF RequestsShape, Dismiss, Ended, OthersStay, Under, NoRequest

\* Nothing is wanted, removed or entered that was not before.
LEMMA OverlapsKept ==
  ASSUME Overlaps, strayed \subseteq strayed', raced \subseteq raced',
         \A v \in Workers : /\ WantedBy(v)' \subseteq WantedBy(v)
                            /\ RemovedBy(v)' \subseteq RemovedBy(v)
                            /\ EnteredBy(v)' \subseteq EnteredBy(v)
  PROVE  Overlaps'
  BY DEF Overlaps

\* The request of another is the same afterwards.
LEMMA OtherSame ==
  ASSUME NEW w \in Workers, OthersStay(w), NEW v \in Workers \ {w}
  PROVE  /\ Under(v)' = Under(v) /\ WantedBy(v)' = WantedBy(v)
         /\ RemovedBy(v)' = RemovedBy(v) /\ EnteredBy(v)' = EnteredBy(v)
         /\ req'[v] = req[v]
  BY DEF OthersStay, Under, WantedBy, RemovedBy, EnteredBy

\* A request that goes on is about the same.
LEMMA ContinuesSame ==
  ASSUME RequestsShape, NEW w \in Workers, Under(w), NEW todo, Continues(w, todo)
  PROVE  /\ Under(w)' /\ WantedBy(w)' = WantedBy(w)
         /\ RemovedBy(w)' = RemovedBy(w) /\ EnteredBy(w)' = EnteredBy(w)
  <1>1. Under(w)'
    BY DEF RequestsShape, WellSent, Continues, Under, NoRequest, ZoneOps, TableOps
  <1>2. QED
    BY <1>1 DEF Continues, WantedBy, RemovedBy, EnteredBy

\* A request that is over wants, removes and enters nothing.
LEMMA EndedNothing ==
  ASSUME NEW w \in Workers, Ended(w)
  PROVE  WantedBy(w)' = {} /\ RemovedBy(w)' = {} /\ EnteredBy(w)' = {}
  BY DEF Ended, WantedBy, RemovedBy, EnteredBy

\* A request that goes on is still well formed, and meets nobody new.
LEMMA ContinuesKeeps ==
  ASSUME RequestsShape, Overlaps, NEW w \in Workers, Under(w), NEW todo, Continues(w, todo),
         todo \in Left(req[w].op), UNCHANGED <<strayed, raced>>
  PROVE  RequestsShape' /\ Overlaps'
  <1>1. RequestsShape'
    <2> SUFFICES ASSUME NEW v \in Workers
                 PROVE  /\ DOMAIN req'[v] = {"op", "id", "data", "todo", "row", "result"}
                        /\ Under(v)' => /\ WellSent(req'[v].op, req'[v].id, req'[v].data)
                                        /\ req'[v].todo \in Left(req'[v].op)
      BY DEF RequestsShape, Continues, OthersStay, WellSent, Carried, ZoneOps, TableOps, Left
    <2>1. CASE v = w
      BY <2>1 DEF RequestsShape, Continues
    <2>2. CASE v # w
      BY <2>2, OtherSame DEF RequestsShape, Continues
    <2>3. QED BY <2>1, <2>2
  <1>2. Overlaps'
    BY OtherSame, ContinuesSame, OverlapsKept DEF Continues
  <1>3. QED BY <1>1, <1>2

\* A request that is over meets nobody any more.
LEMMA EndedKeeps ==
  ASSUME RequestsShape, Overlaps, NEW w \in Workers, Ended(w),
         strayed \subseteq strayed', raced' = raced
  PROVE  RequestsShape' /\ Overlaps'
  <1>1. RequestsShape'
    <2> SUFFICES ASSUME NEW v \in Workers
                 PROVE  /\ DOMAIN req'[v] = {"op", "id", "data", "todo", "row", "result"}
                        /\ Under(v)' => /\ WellSent(req'[v].op, req'[v].id, req'[v].data)
                                        /\ req'[v].todo \in Left(req'[v].op)
      BY DEF RequestsShape, Ended, OthersStay, WellSent, Carried, ZoneOps, TableOps, Left
    <2>1. CASE v = w
      BY <2>1 DEF Ended
    <2>2. CASE v # w
      BY <2>2, OtherSame DEF RequestsShape, Ended
    <2>3. QED BY <2>1, <2>2
  <1>2. Overlaps'
    BY OtherSame, EndedNothing, OverlapsKept DEF Ended
  <1>3. QED BY <1>1, <1>2


-----------------------------------------------------------------------------
(* Rows *)

UniqueName(n) == \A i, j \in Called(n) : i = j

\* Names are apart when no two rows are called the same.
LEMMA ApartMeans == NamesApart <=> \A n : n \in raced \/ UniqueName(n)
  <1>1. ASSUME NamesApart, NEW n, n \notin raced, NEW i \in Called(n), NEW j \in Called(n)
        PROVE  i = j
    BY <1>1 DEF NamesApart, Called
  <1>2. ASSUME \A n : n \in raced \/ UniqueName(n)
        PROVE  NamesApart
    BY <1>2 DEF NamesApart, Called, UniqueName
  <1>3. QED BY <1>1, <1>2 DEF UniqueName

\* What was live and what was called n is so as long as the rows stay.
LEMMA RowsStay ==
  ASSUME UNCHANGED <<zone, table>>
  PROVE  /\ LiveZones' = LiveZones /\ LiveTables' = LiveTables
         /\ \A n : Called(n)' = Called(n)
         /\ RowsShape' = RowsShape
  BY DEF LiveZones, LiveTables, Called, RowsShape

\* Rows are called what they were, or what w wants to call one.
NamesFrom(w) == \A n : n \notin WantedBy(w) => Called(n)' \subseteq Called(n)

\* What the others have found is still so: w is not in their way.
LEMMA OthersChecked ==
  ASSUME RoomInv, NEW w \in Workers, OthersStay(w), raced \subseteq raced', strayed \subseteq strayed',
         LiveZones \ RemovedBy(w) \subseteq LiveZones', NamesFrom(w),
         NEW v \in Workers \ {w}, Under(v)'
  PROVE  /\ ZoneFound(req'[v].todo) => EnteredBy(v)' \subseteq LiveZones' \cup strayed'
         /\ NameFound(req'[v].todo) =>
              \A n \in WantedBy(v)' \ raced' : Called(n)' \subseteq {req'[v].id}
  <1>1. /\ Under(v) /\ WantedBy(v)' = WantedBy(v) /\ EnteredBy(v)' = EnteredBy(v) /\ req'[v] = req[v]
    BY OtherSame
  <1>2. RemovedBy(w) \cap EnteredBy(v) \subseteq strayed /\ WantedBy(w) \cap WantedBy(v) \subseteq raced
    BY DEF RoomInv, Overlaps
  <1>3. ZoneFound(req[v].todo) => EnteredBy(v) \subseteq LiveZones \cup strayed
    BY <1>1 DEF RoomInv, ZoneChecked
  <1>4. NameFound(req[v].todo) => \A n \in WantedBy(v) \ raced : Called(n) \subseteq {req[v].id}
    BY <1>1 DEF RoomInv, NameChecked
  <1>5. ZoneFound(req'[v].todo) => EnteredBy(v)' \subseteq LiveZones' \cup strayed'
    BY <1>1, <1>2, <1>3
  <1>6. ASSUME NameFound(req'[v].todo), NEW n \in WantedBy(v)' \ raced'
        PROVE  Called(n)' \subseteq {req'[v].id}
    <2>1. n \in WantedBy(v) \ raced /\ n \notin WantedBy(w)
      BY <1>1, <1>2, <1>6
    <2>2. Called(n) \subseteq {req[v].id} /\ Called(n)' \subseteq Called(n)
      BY <1>1, <1>4, <1>6, <2>1 DEF NamesFrom
    <2>3. QED BY <1>1, <2>2
  <1>7. QED BY <1>5, <1>6

\* w is over: what was found is found.
LEMMA EndedChecked ==
  ASSUME RoomInv, NEW w \in Workers, Ended(w), raced \subseteq raced', strayed \subseteq strayed',
         LiveZones \ RemovedBy(w) \subseteq LiveZones', NamesFrom(w)
  PROVE  ZoneChecked' /\ NameChecked'
  <1>1. ASSUME NEW v \in Workers, Under(v)'
        PROVE  /\ ZoneFound(req'[v].todo) => EnteredBy(v)' \subseteq LiveZones' \cup strayed'
               /\ NameFound(req'[v].todo) =>
                    \A n \in WantedBy(v)' \ raced' : Called(n)' \subseteq {req'[v].id}
    <2>1. v \in Workers \ {w}
      BY <1>1 DEF Ended
    <2>2. QED BY <1>1, <2>1, OthersChecked DEF Ended
  <1>2. ZoneChecked'
    BY <1>1 DEF ZoneChecked, ZoneFound
  <1>3. NameChecked'
    BY <1>1 DEF NameChecked, NameFound
  <1>4. QED BY <1>2, <1>3

\* w goes on, and has found what it must find by then.
LEMMA ContinuesChecked ==
  ASSUME RoomInv, NEW w \in Workers, Under(w), NEW todo, Continues(w, todo),
         UNCHANGED <<strayed, raced>>,
         LiveZones \ RemovedBy(w) \subseteq LiveZones', NamesFrom(w),
         ZoneFound(todo) => EnteredBy(w) \subseteq LiveZones' \cup strayed,
         NameFound(todo) => \A n \in WantedBy(w) \ raced : Called(n)' \subseteq {req[w].id}
  PROVE  ZoneChecked' /\ NameChecked'
  <1>1. ASSUME NEW v \in Workers, Under(v)'
        PROVE  /\ ZoneFound(req'[v].todo) => EnteredBy(v)' \subseteq LiveZones' \cup strayed'
               /\ NameFound(req'[v].todo) =>
                    \A n \in WantedBy(v)' \ raced' : Called(n)' \subseteq {req'[v].id}
    <2>1. CASE v = w
      <3>1. WantedBy(w)' = WantedBy(w) /\ EnteredBy(w)' = EnteredBy(w)
        BY ContinuesSame DEF RoomInv
      <3>2. req'[w].todo = todo /\ req'[w].id = req[w].id
        BY DEF Continues
      <3>3. QED BY <2>1, <3>1, <3>2
    <2>2. CASE v # w
      BY <1>1, <2>2, OthersChecked DEF Continues
    <2>3. QED BY <2>1, <2>2
  <1>2. ZoneChecked'
    BY <1>1 DEF ZoneChecked, ZoneFound
  <1>3. NameChecked'
    BY <1>1 DEF NameChecked, NameFound
  <1>4. QED BY <1>2, <1>3

\* Tables stay in their zones, or are put into one that is there.
TablesStay(w) ==
  \A t \in LiveTables' :
    \/ t \in LiveTables /\ table'[t].zone = table[t].zone
    \/ table'[t].zone \in LiveZones \cup strayed

\* Tables have zones as long as no zone goes and no table enters one that is not there.
LEMMA TablesKept ==
  ASSUME RoomInv, NEW w \in Workers, OthersStay(w), strayed \subseteq strayed',
         LiveZones \subseteq LiveZones', TablesStay(w),
         At(w, "tables") => req[w].id \in strayed'
  PROVE  TablesHaveZones'
  <1> SUFFICES ASSUME NEW t \in LiveTables'
               PROVE  \/ table'[t].zone \in LiveZones' \cup strayed'
                      \/ \E v \in Workers : At(v, "tables")' /\ req'[v].id = table'[t].zone
    BY DEF TablesHaveZones
  <1>1. CASE table'[t].zone \in LiveZones \cup strayed
    BY <1>1
  <1>2. CASE t \in LiveTables /\ table'[t].zone = table[t].zone
    <2>1. CASE table[t].zone \in LiveZones \cup strayed
      BY <1>2, <2>1
    <2>2. ASSUME NEW v \in Workers, At(v, "tables"), req[v].id = table[t].zone
          PROVE  \/ table'[t].zone \in LiveZones' \cup strayed'
                 \/ \E u \in Workers : At(u, "tables")' /\ req'[u].id = table'[t].zone
      <3>1. CASE v = w
        BY <1>2, <2>2, <3>1
      <3>2. CASE v # w
        <4>1. Under(v)' = Under(v) /\ req'[v] = req[v]
          BY <3>2, OtherSame
        <4>2. At(v, "tables")'
          BY <2>2, <4>1 DEF At
        <4>3. QED BY <1>2, <2>2, <4>1, <4>2
      <3>3. QED BY <3>1, <3>2
    <2>3. QED BY <1>2, <2>1, <2>2 DEF RoomInv, TablesHaveZones
  <1>3. QED BY <1>1, <1>2 DEF TablesStay

\* What w calls a row, nobody else was called.
LEMMA NamesKept ==
  ASSUME RoomInv, NEW w \in Workers, raced \subseteq raced', NamesFrom(w),
         \A n \in WantedBy(w) \ raced : UniqueName(n)'
  PROVE  NamesApart'
  <1>1. ASSUME NEW n, n \notin raced'
        PROVE  UniqueName(n)'
    <2>1. CASE n \in WantedBy(w)
      BY <1>1, <2>1
    <2>2. CASE n \notin WantedBy(w)
      <3>1. Called(n)' \subseteq Called(n)
        BY <2>2 DEF NamesFrom
      <3>2. UniqueName(n)
        BY <1>1, ApartMeans DEF RoomInv
      <3>3. QED BY <3>1, <3>2 DEF UniqueName
    <2>3. QED BY <2>1, <2>2
  <1>2. NamesApart' <=> (\A n : n \in raced \/ UniqueName(n))'
    BY ApartMeans, PTL
  <1>3. QED BY <1>1, <1>2

\* Nothing is written.
LEMMA RowsStayNames ==
  ASSUME RoomInv, NEW w \in Workers, UNCHANGED <<zone, table>>
  PROVE  /\ LiveZones' = LiveZones /\ NamesFrom(w) /\ TablesStay(w) /\ RowsShape'
         /\ \A n : n \notin raced => UniqueName(n)'
  <1>1. ASSUME NEW n, n \notin raced
        PROVE  UniqueName(n)'
    <2>1. UniqueName(n)
      BY <1>1, ApartMeans DEF RoomInv
    <2>2. QED BY <2>1, RowsStay DEF UniqueName
  <1>2. QED BY <1>1, RowsStay DEF NamesFrom, TablesStay, RoomInv

\* A statement that only reads, after which the request goes on.
LEMMA GoesOn ==
  ASSUME RoomInv, NEW w \in Workers, Under(w), NEW todo \in Left(req[w].op), Continues(w, todo),
         UNCHANGED <<zone, table, strayed, raced>>, ~At(w, "tables"),
         ZoneFound(todo) => EnteredBy(w) \subseteq LiveZones \cup strayed,
         NameFound(todo) => \A n \in WantedBy(w) \ raced : Called(n) \subseteq {req[w].id}
  PROVE  RoomInv'
  <1>1. /\ LiveZones' = LiveZones /\ NamesFrom(w) /\ TablesStay(w) /\ RowsShape'
        /\ \A n : n \notin raced => UniqueName(n)'
    BY RowsStayNames
  <1>2. RequestsShape' /\ Overlaps'
    BY ContinuesKeeps DEF RoomInv
  <1>3. ZoneChecked' /\ NameChecked'
    BY <1>1, RowsStay, ContinuesChecked
  <1>4. TablesHaveZones'
    BY <1>1, TablesKept DEF Continues
  <1>5. NamesApart'
    BY <1>1, NamesKept
  <1>6. QED BY <1>1, <1>2, <1>3, <1>4, <1>5 DEF RoomInv

\* A statement that writes nothing, after which the request is over.
LEMMA Stops ==
  ASSUME RoomInv, NEW w \in Workers, Ended(w), UNCHANGED <<zone, table, raced>>,
         strayed \subseteq strayed', At(w, "tables") => req[w].id \in strayed'
  PROVE  RoomInv'
  <1>1. /\ LiveZones' = LiveZones /\ NamesFrom(w) /\ TablesStay(w) /\ RowsShape'
        /\ \A n : n \notin raced => UniqueName(n)'
    BY RowsStayNames
  <1>2. RequestsShape' /\ Overlaps'
    BY EndedKeeps DEF RoomInv
  <1>3. ZoneChecked' /\ NameChecked'
    BY <1>1, EndedChecked
  <1>4. TablesHaveZones'
    BY <1>1, TablesKept DEF Ended
  <1>5. NamesApart'
    BY <1>1, NamesKept
  <1>6. QED BY <1>1, <1>2, <1>3, <1>4, <1>5 DEF RoomInv


-----------------------------------------------------------------------------
(* Statements *)

\* What a request at a statement is.
LEMMA AtIs ==
  ASSUME RoomInv, NEW w \in Workers, NEW step, At(w, step)
  PROVE  /\ Under(w) /\ Head(req[w].todo) = step
         /\ req[w].op \in ZoneOps \cup TableOps /\ req[w].todo \in Left(req[w].op)
         /\ WellSent(req[w].op, req[w].id, req[w].data)
  BY DEF At, RoomInv, RequestsShape, WellSent

\* The row that a request is about is in one table or the other.
LEMMA RowIs ==
  ASSUME NEW w \in Workers, WellSent(req[w].op, req[w].id, req[w].data),
         req[w].op \notin {"createZone", "createTable"}, Row(w).life = "live"
  PROVE  /\ req[w].op \in ZoneOps => req[w].id \in LiveZones /\ Row(w) = zone[req[w].id]
         /\ req[w].op \in TableOps => req[w].id \in LiveTables /\ Row(w) = table[req[w].id]
  BY DEF WellSent, Row, LiveZones, LiveTables, ZoneOps, TableOps

\* A row that is not called otherwise is the only one of that name.
LEMMA OwnName ==
  ASSUME RoomInv, NEW n, n \notin raced, NEW i \in Called(n)
  PROVE  Called(n) \subseteq {i}
  BY ApartMeans DEF RoomInv, UniqueName

\* findZoneById, findTableById: what an update need not check, it has just read.
LEMMA FindKeeps ==
  ASSUME RoomInv, NEW w \in Workers, Find(w)
  PROVE  RoomInv'
  <1>1. /\ At(w, "find") /\ UNCHANGED <<zone, table, strayed, raced>>
    BY DEF Find
  <1>2. /\ Under(w) /\ Head(req[w].todo) = "find" /\ ~At(w, "tables")
        /\ req[w].op \in ZoneOps \cup TableOps /\ req[w].todo = <<"find">>
        /\ WellSent(req[w].op, req[w].id, req[w].data)
    BY <1>1, AtIs, Ahead DEF At
  <1>3. CASE Row(w).life # "live"
    <2>1. Ended(w)
      BY <1>3, RefuseEnds DEF Find, RoomInv
    <2>2. QED BY <1>1, <1>2, <2>1, Stops
  <1>4. CASE Row(w).life = "live"
    <2> DEFINE op == req[w].op
               data == req[w].data
               todo == StepsOn(op, data, Row(w))
    <2>1. op \in {"updateZone", "updateTable", "setStatus", "deleteZone", "deleteTable"}
      <3>1. req[w].todo \in Left(op)
        BY <1>1, AtIs
      <3>2. <<"find">> \notin Left("createZone") /\ <<"find">> \notin Left("createTable")
        BY DEF Left
      <3>3. QED BY <1>2, <3>1, <3>2 DEF ZoneOps, TableOps
    <2>2. /\ op \in ZoneOps => req[w].id \in LiveZones /\ Row(w) = zone[req[w].id]
          /\ op \in TableOps => req[w].id \in LiveTables /\ Row(w) = table[req[w].id]
      BY <1>2, <1>4, <2>1, RowIs
    <2>3. Continues(w, todo)
      BY <1>2, <1>4, TodoContinues DEF Find, RoomInv
    <2>4. /\ todo \in Left(op)
          /\ NameFound(todo) => /\ op = "updateZone" => ~Changes(data, Row(w), "name")
                                /\ op = "updateTable" => ~Changes(data, Row(w), "number")
          /\ ZoneFound(todo) /\ op = "updateTable" => ~Changes(data, Row(w), "zone")
      BY <2>1, StepsAhead
    <2>5. ASSUME ZoneFound(todo), NEW z \in EnteredBy(w)
          PROVE  z \in LiveZones \cup strayed
      <3>1. op \in TableOps /\ "zone" \in DOMAIN data /\ z = data.zone
        BY <2>5 DEF EnteredBy, Entering
      <3>2. op = "updateTable"
        BY <3>1, <2>1, <1>2 DEF WellSent, Carried, TableOps
      <3>3. z = table[req[w].id].zone /\ req[w].id \in LiveTables
        BY <3>1, <3>2, <2>2, <2>4, <2>5 DEF Changes
      <3>4. CASE \E v \in Workers : At(v, "tables") /\ req[v].id = z
        <4>1. PICK v \in Workers : At(v, "tables") /\ req[v].id = z
          BY <3>4
        <4>2. Under(v) /\ req[v].op = "deleteZone"
          BY <4>1, AtIs, Ahead
        <4>3. v # w /\ z \in RemovedBy(v)
          BY <3>2, <4>1, <4>2 DEF RemovedBy, Removing
        <4>4. QED BY <2>5, <4>3 DEF RoomInv, Overlaps
      <3>5. QED BY <3>3, <3>4 DEF RoomInv, TablesHaveZones
    <2>6. ASSUME NameFound(todo), NEW n \in WantedBy(w) \ raced
          PROVE  Called(n) \subseteq {req[w].id}
      <3>1. req[w].id \in Called(n)
        <4>1. CASE op = "updateZone"
          <5>1. n = <<"zone", data.name>> /\ "name" \in DOMAIN data
            BY <4>1, <2>6 DEF WantedBy, Wanted, ZoneOps, TableOps
          <5>2. data.name = zone[req[w].id].name /\ req[w].id \in LiveZones
            BY <4>1, <5>1, <2>2, <2>4, <2>6 DEF Changes, ZoneOps
          <5>3. QED BY <5>1, <5>2 DEF Called
        <4>2. CASE op = "updateTable"
          <5>1. n = <<"table", data.number>> /\ "number" \in DOMAIN data
            BY <4>2, <2>6 DEF WantedBy, Wanted, ZoneOps, TableOps
          <5>2. data.number = table[req[w].id].number /\ req[w].id \in LiveTables
            BY <4>2, <5>1, <2>2, <2>4, <2>6 DEF Changes, TableOps
          <5>3. QED BY <5>1, <5>2 DEF Called
        <4>3. CASE op \in {"setStatus", "deleteZone", "deleteTable"}
          BY <4>3, <2>6, <1>2 DEF WantedBy, Wanted, WellSent, Carried, ZoneOps, TableOps
        <4>4. QED BY <2>1, <4>1, <4>2, <4>3
      <3>2. QED BY <2>6, <3>1, OwnName
    <2>7. QED
      BY <1>1, <1>2, <2>3, <2>4, <2>5, <2>6, GoesOn
  <1>5. QED BY <1>3, <1>4

\* The zone of a table is there, or whoever removes it overlaps.
LEMMA RequireZoneKeeps ==
  ASSUME RoomInv, NEW w \in Workers, RequireZone(w)
  PROVE  RoomInv'
  <1> DEFINE todo == Tail(req[w].todo)
  <1>1. /\ At(w, "zone") /\ UNCHANGED <<zone, table, strayed, raced>>
    BY DEF RequireZone
  <1>2. /\ Under(w) /\ ~At(w, "tables") /\ req[w].op \in TableOps
        /\ todo \in Left(req[w].op)
        /\ NameFound(todo) => NameFound(req[w].todo)
    BY <1>1, AtIs, Ahead DEF At
  <1>3. CASE req[w].data.zone \notin ListedZones
    <2>1. Ended(w)
      BY <1>3, RefuseEnds DEF RequireZone, RoomInv
    <2>2. QED BY <1>1, <1>2, <2>1, Stops
  <1>4. CASE req[w].data.zone \in ListedZones
    <2>1. req' = [req EXCEPT ![w].todo = Tail(@)]
      BY <1>4 DEF RequireZone, Next1
    <2>2. req' = [req EXCEPT ![w].todo = todo]
      BY <2>1
    <2>3. Continues(w, todo)
      BY <1>2, <2>2, TodoContinues DEF RoomInv
    <2>4. EnteredBy(w) \subseteq LiveZones \cup strayed
      BY <1>4 DEF EnteredBy, Entering, ListedZones
    <2>5. NameFound(todo) => \A n \in WantedBy(w) \ raced : Called(n) \subseteq {req[w].id}
      BY <1>2 DEF RoomInv, NameChecked
    <2>6. QED BY <1>1, <1>2, <2>3, <2>4, <2>5, GoesOn
  <1>5. QED BY <1>3, <1>4

\* Nobody else is called so, or whoever wants to be overlaps.
LEMMA CheckClashKeeps ==
  ASSUME RoomInv, NEW w \in Workers, CheckClash(w)
  PROVE  RoomInv'
  <1> DEFINE todo == Tail(req[w].todo)
  <1>1. /\ At(w, "clash") /\ UNCHANGED <<zone, table, strayed, raced>>
    BY DEF CheckClash
  <1>2. /\ Under(w) /\ ~At(w, "tables") /\ todo \in Left(req[w].op)
        /\ req[w].op \in {"createZone", "createTable", "updateZone", "updateTable"}
        /\ ZoneFound(todo) => ZoneFound(req[w].todo)
    BY <1>1, AtIs, Ahead DEF At
  <1>3. CASE Refuse(w)
    <2>1. Ended(w)
      BY <1>3, RefuseEnds DEF RoomInv
    <2>2. QED BY <1>1, <1>2, <2>1, Stops
  <1>4. CASE (Namesakes(w) = {} \/ req[w].id \in Namesakes(w)) /\ Next1(w)
    <2>1. req' = [req EXCEPT ![w].todo = todo]
      BY <1>4 DEF Next1
    <2>2. Continues(w, todo)
      BY <1>2, <2>1, TodoContinues DEF RoomInv
    <2>3. ZoneFound(todo) => EnteredBy(w) \subseteq LiveZones \cup strayed
      BY <1>2 DEF RoomInv, ZoneChecked
    <2>4. ASSUME NEW n \in WantedBy(w) \ raced
          PROVE  Called(n) \subseteq {req[w].id}
      <3>1. Called(n) = Namesakes(w)
        BY <1>2 DEF WantedBy, Wanted, Called, Namesakes, ZoneOps, TableOps
      <3>2. QED BY <1>4, <3>1, OwnName
    <2>5. QED BY <1>1, <1>2, <2>2, <2>3, <2>4, GoesOn
  <1>5. QED BY <1>3, <1>4 DEF CheckClash

\* The row that is read again for the answer.
LEMMA RereadKeeps ==
  ASSUME RoomInv, NEW w \in Workers, Reread(w)
  PROVE  RoomInv'
  <1>1. At(w, "read") /\ UNCHANGED <<zone, table, strayed, raced>> /\ ~At(w, "tables")
    BY DEF Reread, At
  <1>2. Ended(w)
    BY RefuseEnds, FinishEnds DEF Reread, RoomInv
  <1>3. QED BY <1>1, <1>2, Stops

\* The removal of a zone that fails half-way leaves it strayed.
LEMMA RemoveTablesFailsKeeps ==
  ASSUME RoomInv, NEW w \in Workers, RemoveTablesFails(w)
  PROVE  RoomInv'
  <1>1. /\ UNCHANGED <<zone, table, raced>> /\ strayed' = strayed \cup {req[w].id}
        /\ Refuse(w)
    BY DEF RemoveTablesFails
  <1>2. Ended(w)
    BY <1>1, RefuseEnds DEF RoomInv
  <1>3. QED BY <1>1, <1>2, Stops

\* An answer is taken note of.
LEMMA DismissKeeps ==
  ASSUME RoomInv, NEW w \in Workers, req[w].result # "none", Dismiss(w)
  PROVE  RoomInv'
  <1>1. UNCHANGED <<zone, table, strayed, raced>> /\ ~At(w, "tables")
    BY DEF Dismiss, At, Under
  <1>2. Ended(w)
    BY DismissEnds DEF RoomInv
  <1>3. QED BY <1>1, <1>2, Stops


-----------------------------------------------------------------------------
(* Statements that write *)

\* A zone or a table that is called n, and nobody else is.
LEMMA OneCalled ==
  ASSUME NEW n, NEW i, Called(n)' \subseteq {i}
  PROVE  UniqueName(n)'
  BY DEF UniqueName

\* No row has the id that stands for none.
LEMMA NobodyCalled ==
  ASSUME NEW n, Called(n) \subseteq {NoId}
  PROVE  Called(n) = {}
  BY NoIdAssumption DEF Called, LiveZones, LiveTables

\* A row that was not used becomes one: what w wrote is the end of it.
LEMMA CreateZoneKeeps ==
  ASSUME RoomInv, NEW w \in Workers, At(w, "write"), req[w].op = "createZone",
         NEW z \in Unused(zone), zone' = [zone EXCEPT ![z] = ZoneRow(req[w].data.name)],
         Finish(w, z, zone'[z]), UNCHANGED <<table, strayed, raced>>
  PROVE  RoomInv'
  <1> DEFINE name == <<"zone", req[w].data.name>>
  <1>1. /\ Under(w) /\ ~At(w, "tables") /\ NameFound(req[w].todo)
        /\ WellSent("createZone", req[w].id, req[w].data)
    BY AtIs, Ahead DEF At
  <1>2. Ended(w)
    BY FinishEnds DEF RoomInv
  <1>3. /\ z \in Zones /\ z \notin LiveZones /\ DOMAIN zone' = Zones
        /\ zone'[z] = ZoneRow(req[w].data.name)
        /\ \A y \in Zones \ {z} : zone'[y] = zone[y]
    BY DEF RoomInv, RowsShape, Unused, LiveZones, NoRow
  <1>r. /\ zone'[z].life = "live" /\ zone'[z].name = req[w].data.name
        /\ DOMAIN zone'[z] = {"life", "name", "active"}
    BY <1>3 DEF ZoneRow
  <1>4. /\ LiveZones' = LiveZones \cup {z} /\ LiveTables' = LiveTables
    BY <1>3, <1>r DEF LiveZones, LiveTables
  <1>5. WantedBy(w) = {name}
    BY <1>1 DEF WantedBy, Wanted, WellSent, ZoneOps, TableOps
  <1>6. NamesFrom(w)
    BY <1>3, <1>r, <1>4, <1>5 DEF NamesFrom, Called
  <1>7. TablesStay(w)
    BY <1>4 DEF TablesStay
  <1>8. RowsShape'
    <2>1. ASSUME NEW y \in LiveZones'
          PROVE  DOMAIN zone'[y] = {"life", "name", "active"}
      BY <1>3, <1>r, <1>4 DEF RoomInv, RowsShape, LiveZones
    <2>2. QED BY <1>3, <1>4, <2>1 DEF RoomInv, RowsShape
  <1>9. ASSUME NEW n \in WantedBy(w) \ raced
        PROVE  UniqueName(n)'
    <2>1. Called(n) = {}
      BY <1>1, <1>9, NobodyCalled DEF RoomInv, NameChecked, WellSent
    <2>2. Called(n)' \subseteq {z}
      BY <1>3, <1>r, <1>4, <2>1 DEF Called
    <2>3. QED BY <2>2, OneCalled
  <1>10. RequestsShape' /\ Overlaps'
    BY <1>2, EndedKeeps DEF RoomInv
  <1>11. ZoneChecked' /\ NameChecked'
    BY <1>2, <1>4, <1>6, EndedChecked
  <1>12. TablesHaveZones'
    BY <1>1, <1>2, <1>4, <1>7, TablesKept DEF Ended
  <1>13. NamesApart'
    BY <1>6, <1>9, NamesKept
  <1>14. QED BY <1>8, <1>10, <1>11, <1>12, <1>13 DEF RoomInv

\* So does a table, in the zone that was found.
LEMMA CreateTableKeeps ==
  ASSUME RoomInv, NEW w \in Workers, At(w, "write"), req[w].op = "createTable",
         NEW t \in Unused(table),
         table' = [table EXCEPT ![t] = TableRow(req[w].data.zone, req[w].data.number, req[w].data.seats)],
         Finish(w, t, table'[t]), UNCHANGED <<zone, strayed, raced>>
  PROVE  RoomInv'
  <1> DEFINE name == <<"table", req[w].data.number>>
  <1>1. /\ Under(w) /\ ~At(w, "tables") /\ NameFound(req[w].todo) /\ ZoneFound(req[w].todo)
        /\ WellSent("createTable", req[w].id, req[w].data)
    BY AtIs, Ahead DEF At
  <1>2. Ended(w)
    BY FinishEnds DEF RoomInv
  <1>3. /\ t \in Tables /\ t \notin LiveTables /\ DOMAIN table' = Tables
        /\ table'[t] = TableRow(req[w].data.zone, req[w].data.number, req[w].data.seats)
        /\ \A s \in Tables \ {t} : table'[s] = table[s]
    BY DEF RoomInv, RowsShape, Unused, LiveTables, NoRow
  <1>r. /\ table'[t].life = "live" /\ table'[t].number = req[w].data.number
        /\ table'[t].zone = req[w].data.zone
        /\ DOMAIN table'[t] = {"life", "zone", "number", "seats", "status"}
    BY <1>3 DEF TableRow
  <1>4. /\ LiveTables' = LiveTables \cup {t} /\ LiveZones' = LiveZones
    BY <1>3, <1>r DEF LiveZones, LiveTables
  <1>5. WantedBy(w) = {name} /\ EnteredBy(w) = {req[w].data.zone}
    BY <1>1 DEF WantedBy, Wanted, EnteredBy, Entering, WellSent, ZoneOps, TableOps
  <1>6. NamesFrom(w)
    BY <1>3, <1>r, <1>4, <1>5 DEF NamesFrom, Called
  <1>7. TablesStay(w)
    <2>1. req[w].data.zone \in LiveZones \cup strayed
      BY <1>1, <1>5 DEF RoomInv, ZoneChecked
    <2>2. QED BY <1>3, <1>r, <1>4, <2>1 DEF TablesStay, LiveTables
  <1>8. RowsShape'
    <2>1. ASSUME NEW s \in LiveTables'
          PROVE  DOMAIN table'[s] = {"life", "zone", "number", "seats", "status"}
      BY <1>3, <1>r, <1>4 DEF RoomInv, RowsShape, LiveTables
    <2>2. QED BY <1>3, <1>4, <2>1 DEF RoomInv, RowsShape
  <1>9. ASSUME NEW n \in WantedBy(w) \ raced
        PROVE  UniqueName(n)'
    <2>1. Called(n) = {}
      BY <1>1, <1>9, NobodyCalled DEF RoomInv, NameChecked, WellSent
    <2>2. Called(n)' \subseteq {t}
      BY <1>3, <1>r, <1>4, <2>1 DEF Called
    <2>3. QED BY <2>2, OneCalled
  <1>10. RequestsShape' /\ Overlaps'
    BY <1>2, EndedKeeps DEF RoomInv
  <1>11. ZoneChecked' /\ NameChecked'
    BY <1>2, <1>4, <1>6, EndedChecked
  <1>12. TablesHaveZones'
    BY <1>1, <1>2, <1>4, <1>7, TablesKept DEF Ended
  <1>13. NamesApart'
    BY <1>6, <1>9, NamesKept
  <1>14. QED BY <1>8, <1>10, <1>11, <1>12, <1>13 DEF RoomInv

\* A zone or a table is created.
LEMMA CreateKeeps ==
  ASSUME RoomInv, NEW w \in Workers, Create(w)
  PROVE  RoomInv'
  BY CreateZoneKeeps, CreateTableKeeps DEF Create

\* The name that w has found free and writes is called by nobody else.
LEMMA WrittenName ==
  ASSUME RoomInv, NEW w \in Workers, Under(w), NameFound(req[w].todo),
         \A n : Called(n)' \subseteq Called(n) \cup (IF n \in WantedBy(w) THEN {req[w].id} ELSE {})
  PROVE  /\ NamesFrom(w)
         /\ \A n \in WantedBy(w) \ raced : UniqueName(n)'
  <1>1. NamesFrom(w)
    BY DEF NamesFrom
  <1>2. ASSUME NEW n \in WantedBy(w) \ raced
        PROVE  UniqueName(n)'
    <2>1. Called(n) \subseteq {req[w].id}
      BY <1>2 DEF RoomInv, NameChecked
    <2>2. Called(n)' \subseteq {req[w].id}
      BY <1>2, <2>1
    <2>3. QED BY <2>2, OneCalled
  <1>3. QED BY <1>1, <1>2

\* w has written the row it is about, and has it read again.
LEMMA WrittenKeeps ==
  ASSUME RoomInv, NEW w \in Workers, At(w, "write"),
         req[w].op \in {"updateZone", "updateTable", "setStatus"}, Next1(w),
         UNCHANGED <<strayed, raced>>,
         RowsShape', LiveZones' = LiveZones, TablesStay(w),
         \A n : Called(n)' \subseteq Called(n) \cup (IF n \in WantedBy(w) THEN {req[w].id} ELSE {})
  PROVE  RoomInv'
  <1>1. /\ Under(w) /\ ~At(w, "tables") /\ NameFound(req[w].todo)
        /\ Tail(req[w].todo) = <<"read">>
    BY AtIs, Ahead DEF At
  <1>2. req' = [req EXCEPT ![w].todo = <<"read">>]
    BY <1>1 DEF Next1
  <1>3. Continues(w, <<"read">>)
    BY <1>1, <1>2, TodoContinues DEF RoomInv
  <1>4. ~ZoneFound(<<"read">>) /\ ~NameFound(<<"read">>) /\ <<"read">> \in Left(req[w].op)
    BY DEF ZoneFound, NameFound, Left
  <1>5. NamesFrom(w) /\ \A n \in WantedBy(w) \ raced : UniqueName(n)'
    BY <1>1, WrittenName
  <1>6. RequestsShape' /\ Overlaps'
    BY <1>1, <1>3, <1>4, ContinuesKeeps DEF RoomInv
  <1>7. ZoneChecked' /\ NameChecked'
    BY <1>1, <1>3, <1>4, <1>5, ContinuesChecked
  <1>8. TablesHaveZones'
    BY <1>1, <1>3, TablesKept DEF Continues
  <1>9. NamesApart'
    BY <1>5, NamesKept
  <1>10. QED BY <1>6, <1>7, <1>8, <1>9 DEF RoomInv

\* A row that is merged keeps its fields, but for those that data brings.
LEMMA MergedIs ==
  ASSUME NEW r, NEW data
  PROVE  /\ DOMAIN Merged(r, data) = DOMAIN r
         /\ \A f \in DOMAIN r : Merged(r, data)[f] = IF f \in DOMAIN data THEN data[f] ELSE r[f]
  BY DEF Merged

\* A zone or a table is changed, if it is still there.
LEMMA UpdateKeeps ==
  ASSUME RoomInv, NEW w \in Workers, Update(w)
  PROVE  RoomInv'
  <1> DEFINE i == req[w].id
             data == req[w].data
  <1>1. /\ At(w, "write") /\ req[w].op \in {"updateZone", "updateTable", "setStatus"}
        /\ UNCHANGED <<strayed, raced>>
    BY DEF Update
  <1>2. /\ Under(w) /\ ~At(w, "tables") /\ ZoneFound(req[w].todo)
        /\ WellSent(req[w].op, i, data)
    BY <1>1, AtIs, Ahead DEF At
  <1>3. CASE Row(w).life # "live"
    <2>1. Ended(w) /\ UNCHANGED <<zone, table>>
      BY <1>3, RefuseEnds DEF Update, RoomInv
    <2>2. QED BY <1>1, <1>2, <2>1, Stops
  <1>4. CASE Row(w).life = "live" /\ req[w].op = "updateZone"
    <2> DEFINE r == Merged(zone[i], data)
    <2>1. /\ Next1(w) /\ zone' = [zone EXCEPT ![i] = Merged(@, data)] /\ table' = table
      BY <1>4 DEF Update
    <2>2. i \in LiveZones
      BY <1>1, <1>2, <1>4, RowIs DEF ZoneOps
    <2>3. DOMAIN zone[i] = {"life", "name", "active"} /\ "life" \notin DOMAIN data
      BY <1>2, <1>4, <2>2 DEF RoomInv, RowsShape, WellSent, Carried
    <2>4. /\ DOMAIN r = {"life", "name", "active"} /\ r.life = "live"
          /\ r.name = IF "name" \in DOMAIN data THEN data.name ELSE zone[i].name
      BY <2>2, <2>3, MergedIs DEF LiveZones
    <2>5. /\ DOMAIN zone' = Zones /\ zone'[i] = r /\ \A z \in Zones \ {i} : zone'[z] = zone[z]
      BY <2>1, <2>2 DEF RoomInv, RowsShape, LiveZones
    <2> HIDE DEF r
    <2>6. LiveZones' = LiveZones /\ LiveTables' = LiveTables
      BY <2>1, <2>2, <2>4, <2>5 DEF LiveZones, LiveTables
    <2>7. RowsShape'
      BY <2>1, <2>4, <2>5, <2>6 DEF RoomInv, RowsShape, LiveZones
    <2>8. "name" \in DOMAIN data => <<"zone", data.name>> \in WantedBy(w)
      BY <1>2, <1>4 DEF WantedBy, Wanted, ZoneOps, TableOps
    <2>9. ASSUME NEW n, NEW j \in Called(n)'
          PROVE  j \in Called(n) \cup (IF n \in WantedBy(w) THEN {i} ELSE {})
      BY <2>1, <2>4, <2>5, <2>6, <2>8, <2>9 DEF Called, LiveZones
    <2>10. TablesStay(w)
      BY <2>1, <2>6 DEF TablesStay
    <2>11. QED BY <1>1, <2>1, <2>6, <2>7, <2>9, <2>10, WrittenKeeps
  <1>5. CASE Row(w).life = "live" /\ req[w].op # "updateZone"
    <2> DEFINE r == Merged(table[i], data)
    <2>1. /\ Next1(w) /\ table' = [table EXCEPT ![i] = Merged(@, data)] /\ zone' = zone
      BY <1>5 DEF Update
    <2>2. i \in LiveTables
      BY <1>1, <1>2, <1>5, RowIs DEF TableOps
    <2>3. /\ DOMAIN table[i] = {"life", "zone", "number", "seats", "status"}
          /\ "life" \notin DOMAIN data
      BY <1>1, <1>2, <1>5, <2>2 DEF RoomInv, RowsShape, WellSent, Carried
    <2>4. /\ DOMAIN r = {"life", "zone", "number", "seats", "status"} /\ r.life = "live"
          /\ r.zone = IF "zone" \in DOMAIN data THEN data.zone ELSE table[i].zone
          /\ r.number = IF "number" \in DOMAIN data THEN data.number ELSE table[i].number
      <3>1. /\ DOMAIN r = DOMAIN table[i]
            /\ \A f \in DOMAIN table[i] : r[f] = IF f \in DOMAIN data THEN data[f] ELSE table[i][f]
        BY MergedIs
      <3> HIDE DEF r
      <3>2. r.life = "live"
        BY <2>2, <2>3, <3>1 DEF LiveTables
      <3>3. r.zone = IF "zone" \in DOMAIN data THEN data.zone ELSE table[i].zone
        BY <2>3, <3>1
      <3>4. r.number = IF "number" \in DOMAIN data THEN data.number ELSE table[i].number
        BY <2>3, <3>1
      <3>5. QED BY <2>3, <3>1, <3>2, <3>3, <3>4
    <2>5. /\ DOMAIN table' = Tables /\ table'[i] = r /\ \A t \in Tables \ {i} : table'[t] = table[t]
      BY <2>1, <2>2 DEF RoomInv, RowsShape, LiveTables
    <2> HIDE DEF r
    <2>6. LiveZones' = LiveZones /\ LiveTables' = LiveTables
      BY <2>1, <2>2, <2>4, <2>5 DEF LiveZones, LiveTables
    <2>7. RowsShape'
      BY <2>1, <2>4, <2>5, <2>6 DEF RoomInv, RowsShape, LiveTables
    <2>8. /\ "number" \in DOMAIN data => <<"table", data.number>> \in WantedBy(w)
          /\ "zone" \in DOMAIN data => data.zone \in EnteredBy(w)
      BY <1>1, <1>2, <1>5 DEF WantedBy, Wanted, EnteredBy, Entering, ZoneOps, TableOps
    <2>9. ASSUME NEW n, NEW j \in Called(n)'
          PROVE  j \in Called(n) \cup (IF n \in WantedBy(w) THEN {i} ELSE {})
      BY <2>1, <2>4, <2>5, <2>6, <2>8, <2>9 DEF Called, LiveTables
    <2>10. TablesStay(w)
      <3>1. "zone" \in DOMAIN data => data.zone \in LiveZones \cup strayed
        BY <1>2, <2>8 DEF RoomInv, ZoneChecked
      <3>2. QED BY <2>4, <2>5, <2>6, <3>1 DEF TablesStay, LiveTables
    <2>11. QED BY <1>1, <2>1, <2>6, <2>7, <2>9, <2>10, WrittenKeeps
  <1>6. QED BY <1>3, <1>4, <1>5


-----------------------------------------------------------------------------
(* Removals, accounts and arrivals *)

\* Fewer rows are called something: names are apart as before.
LEMMA FewerCalled ==
  ASSUME RoomInv, NEW w \in Workers, \A n : Called(n)' \subseteq Called(n)
  PROVE  NamesFrom(w) /\ \A n \in WantedBy(w) \ raced : UniqueName(n)'
  <1>1. ASSUME NEW n, n \notin raced
        PROVE  UniqueName(n)'
    <2>1. UniqueName(n)
      BY <1>1, ApartMeans DEF RoomInv
    <2>2. QED BY <2>1 DEF UniqueName
  <1>2. QED BY <1>1 DEF NamesFrom

\* A table that is removed is not found any more.
LEMMA RemoveTableKeeps ==
  ASSUME RoomInv, NEW w \in Workers, At(w, "write"), req[w].op = "deleteTable",
         table' = [table EXCEPT ![req[w].id] = Removed], zone' = zone,
         Finish(w, req[w].id, Removed), UNCHANGED <<strayed, raced>>
  PROVE  RoomInv'
  <1> DEFINE i == req[w].id
  <1>1. Ended(w) /\ ~At(w, "tables") /\ i \in Tables
    BY FinishEnds, AtIs DEF RoomInv, WellSent, At
  <1>2. /\ DOMAIN table' = Tables /\ table'[i].life = "removed"
        /\ \A t \in Tables \ {i} : table'[t] = table[t]
    BY <1>1 DEF RoomInv, RowsShape, Removed
  <1>3. LiveZones' = LiveZones /\ LiveTables' = LiveTables \ {i}
    BY <1>1, <1>2 DEF LiveZones, LiveTables
  <1>4. \A n : Called(n)' \subseteq Called(n)
    BY <1>2, <1>3 DEF Called, LiveTables
  <1>5. NamesFrom(w) /\ \A n \in WantedBy(w) \ raced : UniqueName(n)'
    BY <1>4, FewerCalled
  <1>6. RowsShape' /\ TablesStay(w)
    BY <1>2, <1>3 DEF RoomInv, RowsShape, TablesStay, LiveTables
  <1>7. RequestsShape' /\ Overlaps'
    BY <1>1, EndedKeeps DEF RoomInv
  <1>8. ZoneChecked' /\ NameChecked'
    BY <1>1, <1>3, <1>5, EndedChecked
  <1>9. TablesHaveZones'
    BY <1>1, <1>3, <1>6, TablesKept DEF Ended
  <1>10. NamesApart'
    BY <1>5, NamesKept
  <1>11. QED BY <1>6, <1>7, <1>8, <1>9, <1>10 DEF RoomInv

\* A zone that is removed: its tables are left to the next statement.
LEMMA RemoveZoneKeeps ==
  ASSUME RoomInv, NEW w \in Workers, At(w, "write"), req[w].op = "deleteZone",
         zone' = [zone EXCEPT ![req[w].id] = Removed], table' = table,
         Next1(w), UNCHANGED <<strayed, raced>>
  PROVE  RoomInv'
  <1> DEFINE i == req[w].id
             todo == <<"tables">>
  <1>1. Under(w) /\ ~At(w, "tables") /\ i \in Zones /\ Tail(req[w].todo) = todo
    BY AtIs, Ahead DEF WellSent, At
  <1>2. req' = [req EXCEPT ![w].todo = todo]
    BY <1>1 DEF Next1
  <1>3. Continues(w, todo)
    BY <1>1, <1>2, TodoContinues DEF RoomInv
  <1>4. ~ZoneFound(todo) /\ ~NameFound(todo) /\ todo \in Left(req[w].op) /\ Head(todo) = "tables"
    BY DEF ZoneFound, NameFound, Left
  <1> HIDE DEF todo
  <1>5. /\ DOMAIN zone' = Zones /\ zone'[i].life = "removed"
        /\ \A z \in Zones \ {i} : zone'[z] = zone[z]
    BY <1>1 DEF RoomInv, RowsShape, Removed
  <1>6. LiveTables' = LiveTables /\ LiveZones' = LiveZones \ {i}
    BY <1>1, <1>5 DEF LiveZones, LiveTables
  <1>7. \A n : Called(n)' \subseteq Called(n)
    BY <1>5, <1>6 DEF Called, LiveZones
  <1>8. NamesFrom(w) /\ \A n \in WantedBy(w) \ raced : UniqueName(n)'
    BY <1>7, FewerCalled
  <1>9. RowsShape'
    BY <1>5, <1>6 DEF RoomInv, RowsShape, LiveZones
  <1>10. RequestsShape' /\ Overlaps'
    BY <1>1, <1>3, <1>4, ContinuesKeeps DEF RoomInv
  <1>11. RemovedBy(w) = {i}
    BY <1>1 DEF RemovedBy, Removing
  <1>12. ZoneChecked' /\ NameChecked'
    BY <1>1, <1>3, <1>4, <1>6, <1>8, <1>11, ContinuesChecked
  <1>13. TablesHaveZones'
    <2> SUFFICES ASSUME NEW t \in LiveTables'
                 PROVE  \/ table'[t].zone \in LiveZones' \cup strayed'
                        \/ \E v \in Workers : At(v, "tables")' /\ req'[v].id = table'[t].zone
      BY DEF TablesHaveZones
    <2>1. t \in LiveTables /\ table'[t] = table[t]
      BY <1>6
    <2>2. CASE table[t].zone = i
      <3>1. At(w, "tables")' /\ req'[w].id = i
        BY <1>1, <1>3, <1>4, ContinuesSame DEF At, Continues, RoomInv
      <3>2. QED BY <2>1, <2>2, <3>1
    <2>3. CASE table[t].zone \in LiveZones \cup strayed /\ table[t].zone # i
      BY <1>6, <2>1, <2>3
    <2>4. ASSUME NEW v \in Workers, At(v, "tables"), req[v].id = table[t].zone
          PROVE  At(v, "tables")' /\ req'[v].id = table'[t].zone
      <3>1. v # w
        BY <1>1, <2>4
      <3>2. Under(v)' = Under(v) /\ req'[v] = req[v]
        BY <1>3, <3>1, OtherSame DEF Continues
      <3>3. At(v, "tables")'
        BY <2>4, <3>2 DEF At
      <3>4. QED BY <2>1, <2>4, <3>2, <3>3
    <2>5. QED BY <2>1, <2>2, <2>3, <2>4 DEF RoomInv, TablesHaveZones
  <1>14. NamesApart'
    BY <1>8, NamesKept
  <1>15. QED BY <1>9, <1>10, <1>12, <1>13, <1>14 DEF RoomInv

\* A zone or a table is removed, if it is still there.
LEMMA RemoveKeeps ==
  ASSUME RoomInv, NEW w \in Workers, Remove(w)
  PROVE  RoomInv'
  <1>1. CASE Row(w).life # "live"
    <2>1. Ended(w) /\ UNCHANGED <<zone, table, strayed, raced>> /\ ~At(w, "tables")
      BY <1>1, RefuseEnds DEF Remove, RoomInv, At
    <2>2. QED BY <2>1, Stops
  <1>2. CASE Row(w).life = "live"
    BY <1>2, RemoveTableKeeps, RemoveZoneKeeps DEF Remove
  <1>3. QED BY <1>1, <1>2

\* The tables of a removed zone go with it.
LEMMA RemoveTablesKeeps ==
  ASSUME RoomInv, NEW w \in Workers, RemoveTables(w)
  PROVE  RoomInv'
  <1> DEFINE i == req[w].id
  <1>1. /\ At(w, "tables") /\ UNCHANGED <<zone, strayed, raced>>
        /\ table' = [t \in Tables |-> IF t \in OfZone(i) THEN Removed ELSE table[t]]
        /\ Finish(w, i, Removed)
    BY DEF RemoveTables
  <1>2. Ended(w)
    BY <1>1, FinishEnds DEF RoomInv
  <1>3. /\ DOMAIN table' = Tables
        /\ \A t \in Tables : t \in OfZone(i) => table'[t].life = "removed"
        /\ \A t \in Tables \ OfZone(i) : table'[t] = table[t]
    BY <1>1 DEF Removed
  <1>4. LiveZones' = LiveZones /\ LiveTables' = LiveTables \ OfZone(i)
    BY <1>1, <1>3 DEF LiveZones, LiveTables
  <1>5. \A n : Called(n)' \subseteq Called(n)
    BY <1>1, <1>3, <1>4 DEF Called, LiveTables
  <1>6. NamesFrom(w) /\ \A n \in WantedBy(w) \ raced : UniqueName(n)'
    BY <1>5, FewerCalled
  <1>7. RowsShape'
    BY <1>1, <1>3, <1>4 DEF RoomInv, RowsShape, LiveTables
  <1>8. RequestsShape' /\ Overlaps'
    BY <1>1, <1>2, EndedKeeps DEF RoomInv
  <1>9. ZoneChecked' /\ NameChecked'
    BY <1>1, <1>2, <1>4, <1>6, EndedChecked
  <1>10. TablesHaveZones'
    <2> SUFFICES ASSUME NEW t \in LiveTables'
                 PROVE  \/ table'[t].zone \in LiveZones' \cup strayed'
                        \/ \E v \in Workers : At(v, "tables")' /\ req'[v].id = table'[t].zone
      BY DEF TablesHaveZones
    <2>1. t \in LiveTables /\ table'[t] = table[t] /\ table[t].zone # i
      BY <1>3, <1>4 DEF OfZone, LiveTables
    <2>2. CASE table[t].zone \in LiveZones \cup strayed
      BY <1>1, <1>4, <2>1, <2>2
    <2>3. ASSUME NEW v \in Workers, At(v, "tables"), req[v].id = table[t].zone
          PROVE  At(v, "tables")' /\ req'[v].id = table'[t].zone
      <3>1. v # w
        BY <2>1, <2>3
      <3>2. Under(v)' = Under(v) /\ req'[v] = req[v]
        BY <1>2, <3>1, OtherSame DEF Ended
      <3>3. At(v, "tables")'
        BY <2>3, <3>2 DEF At
      <3>4. QED BY <2>1, <2>3, <3>2, <3>3
    <2>4. QED BY <2>1, <2>2, <2>3 DEF RoomInv, TablesHaveZones
  <1>11. NamesApart'
    BY <1>1, <1>6, NamesKept
  <1>12. QED BY <1>7, <1>8, <1>9, <1>10, <1>11 DEF RoomInv

\* Any statement of a request.
LEMMA ServeRoomKeeps ==
  ASSUME RoomInv, NEW w \in Workers, ServeRoom(w)
  PROVE  RoomInv'
  BY FindKeeps, RequireZoneKeeps, CheckClashKeeps, CreateKeeps, UpdateKeeps, RereadKeeps, RemoveKeeps,
     RemoveTablesKeeps
     DEF ServeRoom

\* The room is the same, but for what no check looks at.
LEMMA QuietRoom ==
  ASSUME RoomInv, UNCHANGED <<req, strayed, raced>>, RowsShape',
         LiveZones' = LiveZones, LiveTables' = LiveTables,
         \A t \in LiveTables : table'[t].zone = table[t].zone,
         \A n : Called(n)' = Called(n)
  PROVE  RoomInv'
  <1>1. ASSUME NEW v \in Workers
        PROVE  /\ Under(v)' = Under(v) /\ WantedBy(v)' = WantedBy(v)
               /\ RemovedBy(v)' = RemovedBy(v) /\ EnteredBy(v)' = EnteredBy(v)
               /\ At(v, "tables")' = At(v, "tables")
    BY DEF Under, WantedBy, RemovedBy, EnteredBy, At
  <1>2. RequestsShape'
    BY <1>1 DEF RoomInv, RequestsShape, WellSent, Carried, Left, ZoneOps, TableOps
  <1>3. Overlaps'
    BY <1>1 DEF RoomInv, Overlaps
  <1>4. ZoneChecked'
    BY <1>1 DEF RoomInv, ZoneChecked, ZoneFound
  <1>5. NameChecked'
    BY <1>1 DEF RoomInv, NameChecked, NameFound
  <1>6. TablesHaveZones'
    BY <1>1 DEF RoomInv, TablesHaveZones
  <1>7. NamesApart'
    <2>1. NamesApart' <=> (\A n : n \in raced \/ UniqueName(n))'
      BY ApartMeans, PTL
    <2>2. QED BY <2>1, ApartMeans DEF RoomInv, UniqueName
  <1>8. QED BY <1>2, <1>3, <1>4, <1>5, <1>6, <1>7 DEF RoomInv

\* Nothing happens to the room.
LEMMA SameRoom ==
  ASSUME RoomInv, UNCHANGED roomVars
  PROVE  RoomInv'
  <1>1. UNCHANGED <<req, strayed, raced, zone, table>>
    BY DEF roomVars
  <1>2. /\ LiveZones' = LiveZones /\ LiveTables' = LiveTables /\ RowsShape'
        /\ \A n : Called(n)' = Called(n)
    BY <1>1, RowsStay DEF RoomInv
  <1>3. QED BY <1>1, <1>2, QuietRoom

\* An account changes the status of its table only.
LEMMA AccountKeeps ==
  ASSUME RoomInv, NEW t \in Tables, NEW status, AccountSets(t, status)
  PROVE  RoomInv'
  <1>1. /\ UNCHANGED <<zone, req, strayed, raced>>
        /\ table' = [table EXCEPT ![t] = IF table[t].life = "live"
                                           THEN [table[t] EXCEPT !.status = status] ELSE table[t]]
    BY DEF AccountSets
  <1>2. /\ DOMAIN table' = Tables /\ \A s \in Tables \ {t} : table'[s] = table[s]
        /\ table[t].life # "live" => table'[t] = table[t]
    BY <1>1 DEF RoomInv, RowsShape
  <1>3. ASSUME table[t].life = "live"
        PROVE  /\ DOMAIN table'[t] = DOMAIN table[t] /\ table'[t].life = "live"
               /\ table'[t].zone = table[t].zone /\ table'[t].number = table[t].number
    <2>1. DOMAIN table[t] = {"life", "zone", "number", "seats", "status"}
      BY <1>3 DEF RoomInv, RowsShape, LiveTables
    <2>2. table'[t] = [table[t] EXCEPT !.status = status]
      BY <1>1, <1>3 DEF RoomInv, RowsShape
    <2>3. QED BY <1>3, <2>1, <2>2
  <1>4. LiveZones' = LiveZones /\ LiveTables' = LiveTables
    BY <1>1, <1>2, <1>3 DEF LiveZones, LiveTables
  <1>5. ASSUME NEW s \in LiveTables
        PROVE  /\ DOMAIN table'[s] = DOMAIN table[s]
               /\ table'[s].zone = table[s].zone /\ table'[s].number = table[s].number
    BY <1>2, <1>3 DEF LiveTables
  <1>6. RowsShape'
    BY <1>1, <1>2, <1>4, <1>5 DEF RoomInv, RowsShape
  <1>7. \A n : Called(n)' = Called(n)
    BY <1>1, <1>4, <1>5 DEF Called
  <1>8. QED BY <1>1, <1>4, <1>5, <1>6, <1>7, QuietRoom

\* What a request begins with.
LEMMA FirstLeft ==
  ASSUME NEW op \in ZoneOps \cup TableOps
  PROVE  /\ FirstSteps(op) \in Left(op) /\ ~NameFound(FirstSteps(op))
         /\ op \in TableOps => ~ZoneFound(FirstSteps(op))
  <1>1. CASE op = "createZone"
    BY <1>1 DEF FirstSteps, Left, NameFound, ZoneFound, TableOps
  <1>2. CASE op = "createTable"
    BY <1>2 DEF FirstSteps, Left, NameFound, ZoneFound, TableOps
  <1>3. CASE op \notin {"createZone", "createTable"}
    BY <1>3 DEF FirstSteps, Left, NameFound, ZoneFound, ZoneOps, TableOps
  <1>4. QED BY <1>1, <1>2, <1>3

\* A request arrives: whom it meets is remembered.
LEMMA ArriveKeeps ==
  ASSUME RoomInv, NEW w \in Workers, NEW op, NEW i, NEW data, WellSent(op, i, data),
         Arrive(w, op, i, data)
  PROVE  RoomInv'
  <1> DEFINE q == [NoRequest EXCEPT !.op = op, !.id = i, !.data = data, !.todo = FirstSteps(op)]
             others == Workers \ {w}
  <1>1. /\ req[w] = NoRequest /\ UNCHANGED <<zone, table>>
        /\ req' = [req EXCEPT ![w] = q]
        /\ raced' = raced \cup (Wanted(op, data) \cap UNION {WantedBy(v) : v \in others})
        /\ strayed' = strayed \cup (Removing(op, i) \cap UNION {EnteredBy(v) : v \in others})
                              \cup (Entering(op, data) \cap UNION {RemovedBy(v) : v \in others})
    BY DEF Arrive
  <1>2. /\ q.op = op /\ q.id = i /\ q.data = data /\ q.todo = FirstSteps(op) /\ q.result = "none"
        /\ DOMAIN q = {"op", "id", "data", "todo", "row", "result"}
    BY DEF NoRequest
  <1> HIDE DEF q
  <1>3. OthersStay(w) /\ req'[w] = q
    BY <1>1 DEF RoomInv, RequestsShape, OthersStay
  <1>4. op \in ZoneOps \cup TableOps
    BY DEF WellSent
  <1>5. q # NoRequest
    BY <1>2, <1>4 DEF NoRequest, ZoneOps, TableOps
  <1>6. /\ Under(w)' /\ WantedBy(w)' = Wanted(op, data)
        /\ RemovedBy(w)' = Removing(op, i) /\ EnteredBy(w)' = Entering(op, data)
    BY <1>2, <1>3, <1>5 DEF Under, WantedBy, RemovedBy, EnteredBy
  <1>7. ~Under(w)
    BY <1>1 DEF Under
  <1>8. RequestsShape'
    <2> SUFFICES ASSUME NEW v \in Workers
                 PROVE  /\ DOMAIN req'[v] = {"op", "id", "data", "todo", "row", "result"}
                        /\ Under(v)' => /\ WellSent(req'[v].op, req'[v].id, req'[v].data)
                                        /\ req'[v].todo \in Left(req'[v].op)
      BY <1>3 DEF RequestsShape, OthersStay, WellSent, Carried, ZoneOps, TableOps, Left
    <2>1. CASE v = w
      BY <1>2, <1>3, <1>4, <2>1, FirstLeft
    <2>2. CASE v # w
      BY <1>3, <2>2, OtherSame DEF RoomInv, RequestsShape
    <2>3. QED BY <2>1, <2>2
  <1>9. Overlaps'
    <2> SUFFICES ASSUME NEW u \in Workers, NEW v \in Workers, u # v
                 PROVE  /\ RemovedBy(u)' \cap EnteredBy(v)' \subseteq strayed'
                        /\ WantedBy(u)' \cap WantedBy(v)' \subseteq raced'
      BY DEF Overlaps
    <2>1. CASE u = w
      <3>1. WantedBy(v)' = WantedBy(v) /\ EnteredBy(v)' = EnteredBy(v) /\ v \in others
        BY <1>3, <2>1, OtherSame
      <3>2. QED BY <1>1, <1>6, <2>1, <3>1
    <2>2. CASE v = w
      <3>1. WantedBy(u)' = WantedBy(u) /\ RemovedBy(u)' = RemovedBy(u) /\ u \in others
        BY <1>3, <2>2, OtherSame
      <3>2. QED BY <1>1, <1>6, <2>2, <3>1
    <2>3. CASE u # w /\ v # w
      <3>1. /\ WantedBy(u)' = WantedBy(u) /\ RemovedBy(u)' = RemovedBy(u)
            /\ WantedBy(v)' = WantedBy(v) /\ EnteredBy(v)' = EnteredBy(v)
        BY <1>3, <2>3, OtherSame
      <3>2. QED BY <1>1, <3>1 DEF RoomInv, Overlaps
    <2>4. QED BY <2>1, <2>2, <2>3
  <1>10. /\ LiveZones' = LiveZones /\ NamesFrom(w) /\ TablesStay(w) /\ RowsShape'
         /\ \A n : n \notin raced => UniqueName(n)'
    BY <1>1, RowsStayNames
  <1>11. raced \subseteq raced' /\ strayed \subseteq strayed'
    BY <1>1
  <1>12. ASSUME NEW v \in Workers, Under(v)'
         PROVE  /\ ZoneFound(req'[v].todo) => EnteredBy(v)' \subseteq LiveZones' \cup strayed'
                /\ NameFound(req'[v].todo) =>
                     \A n \in WantedBy(v)' \ raced' : Called(n)' \subseteq {req'[v].id}
    <2>1. CASE v = w
      <3>1. ~NameFound(req'[v].todo) /\ (op \in TableOps => ~ZoneFound(req'[v].todo))
        BY <1>2, <1>3, <1>4, <2>1, FirstLeft
      <3>2. op \notin TableOps => EnteredBy(v)' = {}
        BY <1>6, <2>1 DEF Entering
      <3>3. QED BY <3>1, <3>2
    <2>2. CASE v # w
      BY <1>3, <1>10, <1>11, <1>12, <2>2, OthersChecked
    <2>3. QED BY <2>1, <2>2
  <1>13. ZoneChecked'
    BY <1>12 DEF ZoneChecked, ZoneFound
  <1>14. NameChecked'
    BY <1>12 DEF NameChecked, NameFound
  <1>15. TablesHaveZones'
    BY <1>3, <1>7, <1>10, <1>11, TablesKept DEF At
  <1>16. NamesApart'
    BY <1>10, <1>11, NamesKept
  <1>17. QED BY <1>8, <1>9, <1>10, <1>13, <1>14, <1>15, <1>16 DEF RoomInv


-----------------------------------------------------------------------------
(* The screens, and the room behind them *)

\* A room as it is found.
LEMMA InitRoom == Init => IInv
  <1> SUFFICES ASSUME Init PROVE IInv
    OBVIOUS
  <1>1. /\ zone \in [Zones -> ZoneRows] /\ table \in [Tables -> TableRows]
        /\ req = [w \in Workers |-> NoRequest]
        /\ RoomInOrder /\ deleting = NoId
    BY DEF Init, FloorInit, RoomInit
  <1>2. ASSUME NEW w \in Workers
        PROVE  req[w] = NoRequest /\ ~Under(w) /\ DOMAIN req[w] = {"op", "id", "data", "todo", "row", "result"}
    BY <1>1 DEF Under, NoRequest
  <1>3. RowsShape
    BY <1>1 DEF RowsShape, LiveZones, LiveTables, ZoneRows, TableRows, NoRow, Removed
  <1>4. RequestsShape
    BY <1>1, <1>2 DEF RequestsShape
  <1>5. Overlaps /\ ZoneChecked /\ NameChecked
    BY <1>2 DEF Overlaps, ZoneChecked, NameChecked, WantedBy, RemovedBy, EnteredBy
  <1>6. QED
    BY <1>1, <1>3, <1>4, <1>5 DEF IInv, RoomInv, RoomInOrder, DeletingShape

\* What the page sends is well formed.
LEMMA EditsKeep ==
  ASSUME IInv, NEW w \in Workers, NEW op, NEW i, NEW data, Edits(w, op, i, data), WellSent(op, i, data)
  PROVE  IInv'
  <1>1. Arrive(w, op, i, data) /\ deleting' = deleting
    BY DEF Edits, Sends
  <1>2. QED BY <1>1, ArriveKeeps DEF IInv, DeletingShape

\* All that the page sends, but for the removals.
LEMMA PageSends ==
  ASSUME IInv, NEW w \in Workers,
         \/ CreateZone(w)
         \/ \E z \in Zones : CreateTable(w, z)
         \/ \E z \in Zones, n \in Names : RenameZone(w, z, n)
         \/ \E t \in Tables, n \in Names : RenameTable(w, t, n)
         \/ \E t \in Tables, by \in {-1, 1} : ChangeSeats(w, t, by)
  PROVE  IInv'
  <1>1. ASSUME CreateZone(w)
        PROVE  IInv'
    <2>1. ASSUME NEW name
          PROVE  WellSent("createZone", NoId, [name |-> name])
      BY DEF WellSent, Carried, ZoneOps, TableOps
    <2>2. QED BY <1>1, <2>1, EditsKeep DEF CreateZone
  <1>2. ASSUME NEW z \in Zones, CreateTable(w, z)
        PROVE  IInv'
    <2>1. ASSUME NEW number
          PROVE  WellSent("createTable", NoId, [zone |-> z, number |-> number, seats |-> 4])
      BY DEF WellSent, Carried, ZoneOps, TableOps
    <2>2. QED BY <1>2, <2>1, EditsKeep DEF CreateTable
  <1>3. ASSUME NEW z \in Zones, NEW n \in Names, RenameZone(w, z, n)
        PROVE  IInv'
    <2>1. WellSent("updateZone", z, [name |-> n])
      BY DEF WellSent, Carried, ZoneOps, TableOps
    <2>2. QED BY <1>3, <2>1, EditsKeep DEF RenameZone
  <1>4. ASSUME NEW t \in Tables, NEW n \in Names, RenameTable(w, t, n)
        PROVE  IInv'
    <2>1. WellSent("updateTable", t, [number |-> n])
      BY DEF WellSent, Carried, ZoneOps, TableOps
    <2>2. QED BY <1>4, <2>1, EditsKeep DEF RenameTable
  <1>5. ASSUME NEW t \in Tables, NEW by \in {-1, 1}, ChangeSeats(w, t, by)
        PROVE  IInv'
    <2>1. ASSUME NEW seats
          PROVE  WellSent("updateTable", t, [seats |-> seats])
      BY DEF WellSent, Carried, ZoneOps, TableOps
    <2>2. QED BY <1>5, <2>1, EditsKeep DEF ChangeSeats
  <1>6. QED BY <1>1, <1>2, <1>3, <1>4, <1>5

\* The removal that the dialog confirms is one of a zone or a table.
LEMMA ConfirmDeleteKeeps ==
  ASSUME IInv, NEW w \in Workers, ConfirmDelete(w)
  PROVE  IInv'
  <1> DEFINE op == IF deleting \in Zones THEN "deleteZone" ELSE "deleteTable"
  <1>1. Arrive(w, op, deleting, NoData) /\ deleting # NoId /\ deleting' = NoId
    BY DEF ConfirmDelete, Sends
  <1>2. WellSent(op, deleting, NoData)
    BY <1>1 DEF WellSent, Carried, ZoneOps, TableOps, NoData, IInv, DeletingShape
  <1>3. RoomInv'
    BY <1>1, <1>2, ArriveKeeps DEF IInv
  <1>4. QED BY <1>1, <1>3 DEF IInv, DeletingShape

\* So is what others send.
LEMMA OtherSendsKeeps ==
  ASSUME IInv, NEW w \in Workers, OtherSends(w)
  PROVE  IInv'
  <1>1. OtherRequest(w) /\ deleting' = deleting
    BY DEF OtherSends
  <1>2. PICK op, i, data : WellSent(op, i, data) /\ Arrive(w, op, i, data)
    <2>1. ASSUME NEW z \in Zones, NEW n
          PROVE  /\ WellSent("updateZone", z, [name |-> n])
                 /\ WellSent("updateZone", z, [active |-> FALSE])
                 /\ WellSent("deleteZone", z, NoData)
                 /\ WellSent("createTable", NoId, [zone |-> z, number |-> n, seats |-> 4])
                 /\ WellSent("createZone", NoId, [name |-> n])
      BY DEF WellSent, Carried, ZoneOps, TableOps, NoData
    <2>2. ASSUME NEW t \in LiveTables, NEW v
          PROVE  /\ WellSent("updateTable", t, [zone |-> v])
                 /\ WellSent("updateTable", t, [number |-> v])
                 /\ WellSent("setStatus", t, [status |-> v])
                 /\ WellSent("deleteTable", t, NoData)
      BY DEF WellSent, Carried, ZoneOps, TableOps, NoData, LiveTables
    <2>3. ASSUME NEW n
          PROVE  WellSent("createZone", NoId, [name |-> n])
      BY DEF WellSent, Carried, ZoneOps, TableOps
    <2>4. QED BY <1>1, <2>1, <2>2, <2>3 DEF OtherRequest
  <1>3. QED BY <1>1, <1>2, ArriveKeeps DEF IInv, DeletingShape

\* Pages, dialogs and fetches leave the room alone.
LEMMA RoomAside ==
  ASSUME IInv, UNCHANGED roomVars, DeletingShape'
  PROVE  IInv'
  BY SameRoom DEF IInv

\* What happens on the floor.
LEMMA FloorKeeps ==
  ASSUME IInv, FloorStep
  PROVE  IInv'
  <1>1. ASSUME FetchReads \/ FetchArrives \/ FetchFails \/ Retry \/ CancelDelete
        PROVE  IInv'
    BY <1>1, RoomAside
       DEF FetchReads, FetchArrives, FetchFails, Retry, CancelDelete, IInv, DeletingShape
  <1>2. ASSUME NEW i \in Zones \cup Tables, AskDelete(i)
        PROVE  IInv'
    BY <1>2, RoomAside DEF AskDelete, DeletingShape
  <1>3. ASSUME NEW w \in Workers, ConfirmDelete(w)
        PROVE  IInv'
    BY <1>3, ConfirmDeleteKeeps
  <1>4. ASSUME NEW w \in Workers, Served(w)
        PROVE  IInv'
    BY <1>4, ServeRoomKeeps DEF Served, IInv, DeletingShape
  <1>5. ASSUME NEW w \in Workers, RemovalFails(w)
        PROVE  IInv'
    BY <1>5, RemoveTablesFailsKeeps DEF RemovalFails, IInv, DeletingShape
  <1>6. ASSUME NEW w \in Workers, AnswerDone(w) \/ AnswerRefused(w) \/ AnswerLost(w) \/ OtherDone(w)
        PROVE  IInv'
    <2>1. Dismiss(w) /\ req[w].result # "none" /\ deleting' = deleting
      BY <1>6 DEF AnswerDone, AnswerRefused, AnswerLost, OtherDone, Answered
    <2>2. QED BY <2>1, DismissKeeps DEF IInv, DeletingShape
  <1>7. QED
    BY <1>1, <1>2, <1>3, <1>4, <1>5, <1>6, PageSends, OtherSendsKeeps DEF FloorStep

\* Accounts that are opened or charged change the status of a table.
LEMMA AccountsKeep ==
  ASSUME IInv, NEW status, AccountSets(TheTable, status), deleting' = deleting
  PROVE  IInv'
  BY AccountKeeps, TableAssumption DEF IInv, DeletingShape

\* What happens at the point of sale.
LEMMA PosKeeps ==
  ASSUME IInv, PosStep
  PROVE  IInv'
  <1>a. ASSUME UNCHANGED <<roomVars, deleting>>
        PROVE  IInv'
    BY <1>a, RoomAside DEF IInv, DeletingShape
  <1>1. ASSUME OpenCharge \/ TypeAmount \/ CloseDialog
        PROVE  IInv'
    BY <1>1, <1>a DEF OpenCharge, TypeAmount, CloseDialog, floorVars
  <1>2. ASSUME CloseReceipt \/ \E p \in {"floor", "tables", "pos"} : Visit(p)
        PROVE  IInv'
    BY <1>2, <1>a DEF CloseReceipt, Visit, Turns, GoTo
  <1>3. ASSUME PullReads \/ PullArrives \/ PullFails
        PROVE  IInv'
    BY <1>3, <1>a DEF PullReads, PullArrives, PullFails, floorVars
  <1>4. ASSUME OtherWaiter
        PROVE  IInv'
    <2>1. deleting' = deleting
      BY <1>4 DEF OtherWaiter
    <2>2. UNCHANGED roomVars \/ AccountSets(TheTable, "FREE") \/ AccountSets(TheTable, "OCCUPIED")
      BY <1>4 DEF OtherWaiter
    <2>3. QED BY <2>1, <2>2, <1>a, AccountsKeep
  <1>5. ASSUME NEW k \in Calls, NEW p \in Products,
               Tap(k, p) \/ \E n \in 0..MaxQuantity : ChangeQuantity(k, p, n)
        PROVE  IInv'
    BY <1>5, <1>a DEF Tap, ChangeQuantity, floorVars
  <1>6. ASSUME NEW k \in Calls, SubmitOpen(k) \/ Command(k) \/ SubmitCharge(k)
        PROVE  IInv'
    BY <1>6, <1>a DEF SubmitOpen, Command, SubmitCharge, floorVars
  <1>7. ASSUME NEW k \in Calls, ServeOpen(k)
        PROVE  IInv'
    <2>1. deleting' = deleting /\ (UNCHANGED roomVars \/ AccountSets(TheTable, "OCCUPIED"))
      BY <1>7 DEF ServeOpen
    <2>2. QED BY <2>1, <1>a, AccountsKeep
  <1>8. ASSUME NEW k \in Calls, ServeCharge(k)
        PROVE  IInv'
    BY <1>8, AccountsKeep DEF ServeCharge
  <1>9. ASSUME NEW k \in Calls, ServeAdd(k) \/ ServeChange(k) \/ ServeCommand(k) \/ ServeRefused(k)
        PROVE  IInv'
    BY <1>9, <1>a DEF ServeAdd, ServeChange, ServeCommand, ServeRefused, RoomUntouched, floorVars
  <1>10. ASSUME NEW k \in Calls, CallFails(k)
         PROVE  IInv'
    BY <1>10, <1>a DEF CallFails
  <1>11. ASSUME NEW k \in Calls, AnswerItem(k) \/ AnswerAccount(k)
         PROVE  IInv'
    BY <1>11, <1>a DEF AnswerItem, AnswerAccount, Invalidates
  <1>12. ASSUME NEW k \in Calls, OpenSettled(k) \/ ChargeSettled(k) \/ AnswerCommand(k) \/ AnswerRefusal(k)
         PROVE  IInv'
    BY <1>12, <1>a DEF OpenSettled, ChargeSettled, AnswerCommand, AnswerRefusal, floorVars
  <1>13. QED
    BY <1>1, <1>2, <1>3, <1>4, <1>5, <1>6, <1>7, <1>8, <1>9, <1>10, <1>11, <1>12 DEF PosStep

(* However many zones, tables and requests there are, a table that can be  *)
(* found belongs to a zone that can be found, and no two zones have one    *)
(* name nor two tables one number, unless one of the cases that strayed    *)
(* and raced remember: what dining.service.ts checks in statements of      *)
(* their own is still so when it writes, but for requests that overlapped. *)
THEOREM RoomInOrderHolds == Spec => []RoomInOrder
<1>1. Init => IInv
  BY InitRoom
<1>2. IInv /\ [Next]_vars => IInv'
  <2>1. ASSUME IInv, UNCHANGED vars
        PROVE  IInv'
    BY <2>1, RoomAside DEF vars, floorVars, IInv, DeletingShape
  <2>2. QED
    BY <2>1, FloorKeeps, PosKeeps DEF Next
<1>3. IInv => RoomInOrder
  BY DEF IInv, RoomInv, RoomInOrder
<1>4. QED
  BY <1>1, <1>2, <1>3, PTL DEF Spec

-----------------------------------------------------------------------------
(* The inductive invariant about types *)

LiveZoneRow == [life : {"live"}, name : Nat \ {0}, active : BOOLEAN]
LiveTableRow ==
  [life : {"live"}, zone : Zones, number : Nat, seats : Nat \ {0}, status : Statuses]

\* What a request may ask for.
DataTyped(d) ==
  /\ "name" \in DOMAIN d => d.name \in Nat \ {0}
  /\ "active" \in DOMAIN d => d.active \in BOOLEAN
  /\ "zone" \in DOMAIN d => d.zone \in Zones
  /\ "number" \in DOMAIN d => d.number \in Nat
  /\ "seats" \in DOMAIN d => d.seats \in Nat \ {0}
  /\ "status" \in DOMAIN d => d.status \in Statuses

\* What its answer brings.
ResultTyped(op, i, r) ==
  /\ op \in ZoneOps => i \in Zones
  /\ op \in TableOps => i \in Tables
  /\ op \in {"createZone", "updateZone"} => r \in LiveZoneRow
  /\ op \in {"createTable", "updateTable", "setStatus"} => r \in LiveTableRow

RequestTyped(w) ==
  /\ req[w].op \in ZoneOps \cup TableOps \cup {"idle"}
  /\ req[w].op = "idle" => req[w] = NoRequest
  /\ req[w].result \in {"none", "done", "refused"}
  /\ req[w].result # "none" => req[w].todo = <<>>
  /\ Under(w) => DataTyped(req[w].data)
  /\ req[w].result = "done" => ResultTyped(req[w].op, req[w].id, req[w].row)

RoomTypes ==
  /\ zone \in [Zones -> ZoneRows] /\ table \in [Tables -> TableRows]
  /\ strayed \subseteq Zones
  /\ \A w \in Workers : RequestTyped(w)

\* A list of zones and tables: a table is listed in a zone that is.
ListTyped(l) ==
  /\ DOMAIN l = {"zones", "tables", "again"}
  /\ l.zones \in [Zones -> Nat]
  /\ l.tables \in [Tables -> {NoRow} \cup LiveTableRow]
  /\ l.again \subseteq ShownZones(l) \cup ShownTables(l)
  /\ \A t \in ShownTables(l) : l.tables[t].zone \in ShownZones(l)

FetchTyped ==
  /\ DOMAIN fetch = {"step", "list", "muddled", "failed"}
  /\ fetch.step \in {"idle", "asked", "arriving"} /\ fetch.failed \in BOOLEAN
  /\ ListTyped(fetch.list)

AskedTyped ==
  /\ asked \in [Workers -> {"nobody", "page", "earlier", "other"}]
  /\ \A w \in Workers : asked[w] = "nobody" <=> req[w] = NoRequest

FloorTypes == ListTyped(shown) /\ FetchTyped /\ AskedTyped /\ page \in {"floor", "tables", "pos"}

PullTyped ==
  /\ DOMAIN pull = DOMAIN Fetched
  /\ pull.step \in {"idle", "asked", "arriving"} /\ pull.failed \in BOOLEAN
  /\ pull.data \in Account

CallTyped(k) ==
  /\ DOMAIN call[k] = DOMAIN NoCall /\ call[k].previous \in Account
  /\ call[k].op \in ItemOps \cup {"idle", "open", "command", "charge"}
  /\ call[k].step \in {"none", "sent", "done", "refused", "settling"}
  /\ call[k].step = "none" <=> call[k] = NoCall
  /\ call[k].op = "idle" => call[k] = NoCall
  /\ k \notin call[k].behind
  /\ call[k].op \in ItemOps => call[k].product \in Products
  /\ call[k].op = "open" => call[k].product \in Products \cup {Nothing}
  /\ call[k].quantity \in Nat

CallsTyped == DOMAIN call = Calls /\ \A k \in Calls : CallTyped(k)

\* The calls for which the screen that sent them rests.
Acting(k) == call[k].op \in {"open", "charge", "command"} /\ call[k].here

\* There is one at a time, and it leaves the dialog it came from or none.
ActsAlone ==
  /\ \A j, k \in Calls : Acting(j) /\ Acting(k) => j = k
  /\ \A k \in Calls : Acting(k) =>
       /\ page = "pos"
       /\ call[k].op = "open" => dialog \in {"none", "open"}
       /\ call[k].op = "charge" => dialog \in {"none", "charge"}
       /\ call[k].op = "command" => dialog = "none"

DialogTyped ==
  /\ dialog \in {"none", "open", "charge", "cash", "command", "receipt"}
  /\ dialog # "none" => page = "pos"
  /\ pending \in Products \cup {Nothing}
  /\ pending # Nothing => dialog = "open"

PosTypes ==
  /\ SalesTypeOK
  /\ made \in 0..MaxLine /\ taps \in 0..MaxTaps /\ amount \in Nat
  /\ account \in Account /\ PullTyped
  /\ CallsTyped /\ ActsAlone /\ DialogTyped

-----------------------------------------------------------------------------
(* Rows and requests keep their types *)

\* A live row has all the fields of one.
LEMMA RowsTyped ==
  ASSUME RoomTypes
  PROVE  /\ \A z \in Zones : zone[z].life = "live" <=> zone[z] \in LiveZoneRow
         /\ \A t \in Tables : table[t].life = "live" <=> table[t] \in LiveTableRow
         /\ LiveZoneRow \subseteq ZoneRows /\ LiveTableRow \subseteq TableRows
         /\ Removed \in ZoneRows /\ Removed \in TableRows
  BY DEF RoomTypes, ZoneRows, TableRows, LiveZoneRow, LiveTableRow, NoRow, Removed

\* A request that goes on is typed as before.
LEMMA ContinuesTyped ==
  ASSUME NEW w \in Workers, RequestTyped(w), Under(w), NEW todo, Continues(w, todo)
  PROVE  RequestTyped(w)'
  <1>1. req[w].op # "idle"
    BY DEF RequestTyped, Under
  <1>2. QED
    BY <1>1 DEF RequestTyped, Continues, DataTyped, Under, ResultTyped

\* So is one that is refused.
LEMMA RefuseTyped ==
  ASSUME RequestsShape, NEW w \in Workers, RequestTyped(w), Under(w), Refuse(w)
  PROVE  RequestTyped(w)'
  <1>1. req[w].op # "idle"
    BY DEF RequestTyped, Under
  <1>2. req'[w].op = req[w].op /\ req'[w].todo = <<>> /\ req'[w].result = "refused"
    BY DEF Refuse, RequestsShape
  <1>3. QED
    BY <1>1, <1>2 DEF RequestTyped, DataTyped, Under, ResultTyped

\* And one that has a result, if the result is typed.
LEMMA FinishTyped ==
  ASSUME RequestsShape, NEW w \in Workers, RequestTyped(w), Under(w), NEW i, NEW r,
         Finish(w, i, r), ResultTyped(req[w].op, i, r)
  PROVE  RequestTyped(w)'
  <1>1. req[w].op # "idle"
    BY DEF RequestTyped, Under
  <1>2. /\ req'[w].op = req[w].op /\ req'[w].todo = <<>> /\ req'[w].result = "done"
        /\ req'[w].id = i /\ req'[w].row = r
    BY DEF Finish, RequestsShape
  <1>3. QED
    BY <1>1, <1>2 DEF RequestTyped, DataTyped, Under

\* Only the request of w and the rows it writes change.
LEMMA RoomTypesKept ==
  ASSUME RoomTypes, NEW w \in Workers, OthersStay(w), RequestTyped(w)',
         zone' \in [Zones -> ZoneRows], table' \in [Tables -> TableRows], strayed' \subseteq Zones
  PROVE  RoomTypes'
  <1>1. ASSUME NEW v \in Workers \ {w}
        PROVE  RequestTyped(v)'
    <2>1. req'[v] = req[v] /\ Under(v)' = Under(v)
      BY OtherSame
    <2>2. QED
      BY <2>1 DEF RoomTypes, RequestTyped
  <1>2. QED
    BY <1>1 DEF RoomTypes, ZoneRows, TableRows, NoRow, Removed

\* The statements that write nothing.
LEMMA ReadsTyped ==
  ASSUME RoomInv, RoomTypes, NEW w \in Workers, Find(w) \/ RequireZone(w) \/ CheckClash(w)
  PROVE  RoomTypes'
  <1>1. RequestsShape /\ RequestTyped(w) /\ Under(w) /\ UNCHANGED <<zone, table, strayed>>
    BY DEF RoomInv, RoomTypes, Find, RequireZone, CheckClash, At
  <1>2. \/ Refuse(w)
        \/ req' = [req EXCEPT ![w].todo = StepsOn(req[w].op, req[w].data, Row(w))]
        \/ Next1(w)
    BY DEF Find, RequireZone, CheckClash
  <1>3. CASE Refuse(w)
    BY <1>1, <1>3, RefuseEnds, RefuseTyped, RoomTypesKept DEF Ended, RoomTypes
  <1>4. ASSUME NEW todo, req' = [req EXCEPT ![w].todo = todo]
        PROVE  RoomTypes'
    <2>1. Continues(w, todo)
      BY <1>1, <1>4, TodoContinues
    <2>2. QED
      BY <1>1, <2>1, ContinuesTyped, RoomTypesKept DEF Continues, RoomTypes
  <1>5. Next1(w) => req' = [req EXCEPT ![w].todo = Tail(req[w].todo)]
    BY DEF Next1
  <1>6. QED
    BY <1>2, <1>3, <1>4, <1>5

\* What a request under way is about.
LEMMA UnderTyped ==
  ASSUME RoomInv, RoomTypes, NEW w \in Workers, Under(w)
  PROVE  /\ WellSent(req[w].op, req[w].id, req[w].data)
         /\ DataTyped(req[w].data)
         /\ RequestsShape /\ RequestTyped(w)
  BY DEF RoomInv, RequestsShape, RoomTypes, RequestTyped

\* A row that is created has what the request asks for.
LEMMA CreateTyped ==
  ASSUME RoomInv, RoomTypes, NEW w \in Workers, Create(w)
  PROVE  RoomTypes'
  <1> DEFINE data == req[w].data
  <1>1. Under(w) /\ strayed' = strayed
    BY DEF Create, At
  <1>2. /\ WellSent(req[w].op, req[w].id, data) /\ DataTyped(data)
        /\ RequestsShape /\ RequestTyped(w)
    BY <1>1, UnderTyped
  <1>3. CASE req[w].op = "createZone"
    <2>1. PICK z \in Unused(zone) : /\ zone' = [zone EXCEPT ![z] = ZoneRow(data.name)]
                                    /\ Finish(w, z, zone'[z]) /\ table' = table
      BY <1>3 DEF Create
    <2>2. z \in Zones
      BY <2>1 DEF Unused, RoomTypes
    <2>3. ZoneRow(data.name) \in LiveZoneRow
      BY <1>2, <1>3 DEF WellSent, DataTyped, ZoneRow, LiveZoneRow
    <2>4. zone' \in [Zones -> ZoneRows] /\ zone'[z] \in LiveZoneRow
      BY <2>1, <2>2, <2>3, RowsTyped DEF RoomTypes
    <2>5. ResultTyped(req[w].op, z, zone'[z])
      BY <1>3, <2>2, <2>4 DEF ResultTyped, TableOps
    <2>6. RequestTyped(w)' /\ OthersStay(w)
      BY <1>1, <1>2, <2>1, <2>5, FinishTyped, FinishEnds DEF Ended
    <2>7. QED
      BY <1>1, <2>1, <2>4, <2>6, RoomTypesKept DEF RoomTypes
  <1>4. CASE req[w].op = "createTable"
    <2>1. PICK t \in Unused(table) :
            /\ table' = [table EXCEPT ![t] = TableRow(data.zone, data.number, data.seats)]
            /\ Finish(w, t, table'[t]) /\ zone' = zone
      BY <1>4 DEF Create
    <2>2. t \in Tables
      BY <2>1 DEF Unused, RoomTypes
    <2>3. TableRow(data.zone, data.number, data.seats) \in LiveTableRow
      BY <1>2, <1>4 DEF WellSent, DataTyped, TableRow, LiveTableRow, Statuses
    <2>4. table' \in [Tables -> TableRows] /\ table'[t] \in LiveTableRow
      BY <2>1, <2>2, <2>3, RowsTyped DEF RoomTypes
    <2>5. ResultTyped(req[w].op, t, table'[t])
      BY <1>4, <2>2, <2>4 DEF ResultTyped, ZoneOps
    <2>6. RequestTyped(w)' /\ OthersStay(w)
      BY <1>1, <1>2, <2>1, <2>5, FinishTyped, FinishEnds DEF Ended
    <2>7. QED
      BY <1>1, <2>1, <2>4, <2>6, RoomTypesKept DEF RoomTypes
  <1>5. QED
    BY <1>3, <1>4 DEF Create

\* A row that a change is merged into is still one.
LEMMA MergedTyped ==
  ASSUME NEW data, DataTyped(data)
  PROVE  /\ \A r \in LiveZoneRow : DOMAIN data \subseteq {"name", "active"} =>
              Merged(r, data) \in LiveZoneRow
         /\ \A r \in LiveTableRow : DOMAIN data \subseteq {"zone", "number", "seats", "status"} =>
              Merged(r, data) \in LiveTableRow
  <1>1. ASSUME NEW r \in LiveZoneRow, DOMAIN data \subseteq {"name", "active"}
        PROVE  Merged(r, data) \in LiveZoneRow
    <2>1. Merged(r, data) = [life |-> r.life,
                             name |-> IF "name" \in DOMAIN data THEN data.name ELSE r.name,
                             active |-> IF "active" \in DOMAIN data THEN data.active ELSE r.active]
      BY <1>1 DEF Merged, LiveZoneRow
    <2>2. QED
      BY <2>1 DEF LiveZoneRow, DataTyped
  <1>2. ASSUME NEW r \in LiveTableRow, DOMAIN data \subseteq {"zone", "number", "seats", "status"}
        PROVE  Merged(r, data) \in LiveTableRow
    <2>1. Merged(r, data) = [life |-> r.life,
                             zone |-> IF "zone" \in DOMAIN data THEN data.zone ELSE r.zone,
                             number |-> IF "number" \in DOMAIN data THEN data.number ELSE r.number,
                             seats |-> IF "seats" \in DOMAIN data THEN data.seats ELSE r.seats,
                             status |-> IF "status" \in DOMAIN data THEN data.status ELSE r.status]
      BY <1>2 DEF Merged, LiveTableRow
    <2>2. QED
      BY <2>1 DEF LiveTableRow, DataTyped
  <1>3. QED BY <1>1, <1>2

\* An update, and the row as it is read for the answer.
LEMMA UpdateTyped ==
  ASSUME RoomInv, RoomTypes, NEW w \in Workers, Update(w)
  PROVE  RoomTypes'
  <1> DEFINE i == req[w].id
             data == req[w].data
  <1>1. Under(w) /\ strayed' = strayed /\ req[w].op \in {"updateZone", "updateTable", "setStatus"}
    BY DEF Update, At
  <1>2. /\ WellSent(req[w].op, i, data) /\ DataTyped(data) /\ RequestsShape /\ RequestTyped(w)
    BY <1>1, UnderTyped
  <1>3. CASE Row(w).life # "live"
    <2>1. Refuse(w) /\ UNCHANGED <<zone, table>>
      BY <1>3 DEF Update
    <2>2. QED
      BY <1>1, <1>2, <2>1, RefuseEnds, RefuseTyped, RoomTypesKept DEF Ended, RoomTypes
  <1>4. CASE Row(w).life = "live"
    <2>1. Next1(w)
      BY <1>4 DEF Update
    <2>2. req' = [req EXCEPT ![w].todo = Tail(req[w].todo)]
      BY <2>1 DEF Next1
    <2>3. RequestTyped(w)' /\ OthersStay(w)
      BY <1>1, <1>2, <2>2, TodoContinues, ContinuesTyped DEF Continues
    <2>4. CASE req[w].op = "updateZone"
      <3>1. i \in Zones /\ zone[i] \in LiveZoneRow /\ DOMAIN data \subseteq {"name", "active"}
        BY <1>2, <1>4, <2>4, RowsTyped DEF WellSent, Carried, Row, ZoneOps
      <3>2. Merged(zone[i], data) \in LiveZoneRow
        BY <1>2, <3>1, MergedTyped
      <3>3. zone' = [zone EXCEPT ![i] = Merged(zone[i], data)] /\ table' = table
        BY <1>4, <2>4 DEF Update
      <3>4. zone' \in [Zones -> ZoneRows]
        BY <3>1, <3>2, <3>3, RowsTyped DEF RoomTypes
      <3>5. QED
        BY <1>1, <2>3, <3>3, <3>4, RoomTypesKept DEF RoomTypes
    <2>5. CASE req[w].op # "updateZone"
      <3>1. /\ i \in Tables /\ table[i] \in LiveTableRow
            /\ DOMAIN data \subseteq {"zone", "number", "seats", "status"}
        BY <1>1, <1>2, <1>4, <2>5, RowsTyped DEF WellSent, Carried, Row, ZoneOps
      <3>2. Merged(table[i], data) \in LiveTableRow
        BY <1>2, <3>1, MergedTyped
      <3>3. table' = [table EXCEPT ![i] = Merged(table[i], data)] /\ zone' = zone
        BY <1>4, <2>5 DEF Update
      <3>4. table' \in [Tables -> TableRows]
        BY <3>1, <3>2, <3>3, RowsTyped DEF RoomTypes
      <3>5. QED
        BY <1>1, <2>3, <3>3, <3>4, RoomTypesKept DEF RoomTypes
    <2>6. QED BY <2>4, <2>5
  <1>5. QED BY <1>3, <1>4

\* The row of the answer is live.
LEMMA RereadTyped ==
  ASSUME RoomInv, RoomTypes, NEW w \in Workers, Reread(w)
  PROVE  RoomTypes'
  <1>1. At(w, "read") /\ Under(w) /\ UNCHANGED <<zone, table, strayed>>
    BY DEF Reread, At
  <1>2. /\ WellSent(req[w].op, req[w].id, req[w].data) /\ RequestsShape /\ RequestTyped(w)
    BY <1>1, UnderTyped
  <1>3. CASE Refuse(w)
    BY <1>1, <1>2, <1>3, RefuseEnds, RefuseTyped, RoomTypesKept DEF Ended, RoomTypes
  <1>4. CASE Row(w).life = "live" /\ Finish(w, req[w].id, Row(w))
    <2>1. req[w].op \in {"updateZone", "updateTable", "setStatus"}
      BY <1>1, AtIs, Ahead
    <2>2. ResultTyped(req[w].op, req[w].id, Row(w))
      BY <1>2, <1>4, <2>1, RowsTyped DEF ResultTyped, WellSent, Row, ZoneOps, TableOps
    <2>3. RequestTyped(w)' /\ OthersStay(w)
      BY <1>1, <1>2, <1>4, <2>2, FinishTyped, FinishEnds DEF Ended
    <2>4. QED
      BY <1>1, <2>3, RoomTypesKept DEF RoomTypes
  <1>5. QED BY <1>3, <1>4 DEF Reread

\* A removal.
LEMMA RemoveTyped ==
  ASSUME RoomInv, RoomTypes, NEW w \in Workers, Remove(w)
  PROVE  RoomTypes'
  <1> DEFINE i == req[w].id
  <1>1. Under(w) /\ strayed' = strayed /\ req[w].op \in {"deleteZone", "deleteTable"}
    BY DEF Remove, At
  <1>2. /\ WellSent(req[w].op, i, req[w].data) /\ RequestsShape /\ RequestTyped(w)
    BY <1>1, UnderTyped
  <1>3. CASE Row(w).life # "live"
    <2>1. Refuse(w) /\ UNCHANGED <<zone, table>>
      BY <1>3 DEF Remove
    <2>2. QED
      BY <1>1, <1>2, <2>1, RefuseEnds, RefuseTyped, RoomTypesKept DEF Ended, RoomTypes
  <1>4. CASE Row(w).life = "live" /\ req[w].op = "deleteZone"
    <2>1. zone' = [zone EXCEPT ![i] = Removed] /\ table' = table /\ Next1(w)
      BY <1>4 DEF Remove
    <2>2. req' = [req EXCEPT ![w].todo = Tail(req[w].todo)]
      BY <2>1 DEF Next1
    <2>3. RequestTyped(w)' /\ OthersStay(w)
      BY <1>1, <1>2, <2>2, TodoContinues, ContinuesTyped DEF Continues
    <2>4. zone' \in [Zones -> ZoneRows]
      BY <2>1, RowsTyped DEF RoomTypes
    <2>5. QED
      BY <1>1, <2>1, <2>3, <2>4, RoomTypesKept DEF RoomTypes
  <1>5. CASE Row(w).life = "live" /\ req[w].op = "deleteTable"
    <2>1. table' = [table EXCEPT ![i] = Removed] /\ zone' = zone /\ Finish(w, i, Removed)
      BY <1>5 DEF Remove
    <2>2. ResultTyped(req[w].op, i, Removed)
      BY <1>2, <1>5 DEF ResultTyped, WellSent, ZoneOps
    <2>3. RequestTyped(w)' /\ OthersStay(w)
      BY <1>1, <1>2, <2>1, <2>2, FinishTyped, FinishEnds DEF Ended
    <2>4. table' \in [Tables -> TableRows]
      BY <2>1, RowsTyped DEF RoomTypes
    <2>5. QED
      BY <1>1, <2>1, <2>3, <2>4, RoomTypesKept DEF RoomTypes
  <1>6. QED BY <1>1, <1>3, <1>4, <1>5

\* The tables of a zone go after it, or stay when the database fails.
LEMMA RemoveTablesTyped ==
  ASSUME RoomInv, RoomTypes, NEW w \in Workers, RemoveTables(w) \/ RemoveTablesFails(w)
  PROVE  RoomTypes'
  <1>1. At(w, "tables") /\ Under(w) /\ zone' = zone
    BY DEF RemoveTables, RemoveTablesFails, At
  <1>2. /\ WellSent(req[w].op, req[w].id, req[w].data) /\ RequestsShape /\ RequestTyped(w)
    BY <1>1, UnderTyped
  <1>3. req[w].op = "deleteZone" /\ req[w].id \in Zones
    BY <1>1, <1>2, AtIs, Ahead DEF WellSent
  <1>4. CASE RemoveTables(w)
    <2>1. /\ Finish(w, req[w].id, Removed) /\ strayed' = strayed
          /\ table' = [t \in Tables |-> IF t \in OfZone(req[w].id) THEN Removed ELSE table[t]]
      BY <1>4 DEF RemoveTables
    <2>2. table' \in [Tables -> TableRows]
      BY <2>1, RowsTyped DEF RoomTypes
    <2>3. ResultTyped(req[w].op, req[w].id, Removed)
      BY <1>3 DEF ResultTyped, TableOps
    <2>4. RequestTyped(w)' /\ OthersStay(w)
      BY <1>1, <1>2, <2>1, <2>3, FinishTyped, FinishEnds DEF Ended
    <2>5. QED
      BY <1>1, <2>1, <2>2, <2>4, RoomTypesKept DEF RoomTypes
  <1>5. CASE RemoveTablesFails(w)
    <2>1. Refuse(w) /\ table' = table /\ strayed' = strayed \cup {req[w].id}
      BY <1>5 DEF RemoveTablesFails
    <2>2. strayed' \subseteq Zones
      BY <1>3, <2>1 DEF RoomTypes
    <2>3. QED
      BY <1>1, <1>2, <2>1, <2>2, RefuseEnds, RefuseTyped, RoomTypesKept DEF Ended, RoomTypes
  <1>6. QED BY <1>4, <1>5

\* Every statement of the API.
LEMMA ServeTyped ==
  ASSUME RoomInv, RoomTypes, NEW w \in Workers, ServeRoom(w) \/ RemoveTablesFails(w)
  PROVE  RoomTypes'
  BY ReadsTyped, CreateTyped, UpdateTyped, RereadTyped, RemoveTyped, RemoveTablesTyped DEF ServeRoom

\* A request that arrives asks for what may be stored.
LEMMA ArriveTyped ==
  ASSUME RoomInv, RoomTypes, NEW w \in Workers, NEW op, NEW i, NEW data,
         WellSent(op, i, data), DataTyped(data), Arrive(w, op, i, data)
  PROVE  RoomTypes'
  <1> DEFINE q == [NoRequest EXCEPT !.op = op, !.id = i, !.data = data, !.todo = FirstSteps(op)]
             others == Workers \ {w}
  <1>1. /\ UNCHANGED <<zone, table>> /\ req' = [req EXCEPT ![w] = q]
        /\ strayed' = strayed \cup (Removing(op, i) \cap UNION {EnteredBy(v) : v \in others})
                              \cup (Entering(op, data) \cap UNION {RemovedBy(v) : v \in others})
    BY DEF Arrive
  <1>2. /\ q.op = op /\ q.data = data /\ q.result = "none"
    BY DEF NoRequest
  <1> HIDE DEF q
  <1>3. OthersStay(w) /\ req'[w] = q
    BY <1>1 DEF RoomInv, RequestsShape, OthersStay
  <1>4. op \in ZoneOps \cup TableOps /\ op # "idle"
    BY DEF WellSent, ZoneOps, TableOps
  <1>5. RequestTyped(w)'
    BY <1>2, <1>3, <1>4 DEF RequestTyped, DataTyped
  <1>6. Removing(op, i) \subseteq Zones /\ Entering(op, data) \subseteq Zones
    BY DEF Removing, Entering, WellSent, DataTyped
  <1>7. strayed' \subseteq Zones
    BY <1>1, <1>6 DEF RoomTypes
  <1>8. QED
    BY <1>1, <1>3, <1>5, <1>7, RoomTypesKept DEF RoomTypes

\* An answer that was taken note of leaves nothing behind.
LEMMA DismissTyped ==
  ASSUME RoomInv, RoomTypes, NEW w \in Workers, Dismiss(w)
  PROVE  RoomTypes'
  <1>1. UNCHANGED <<zone, table, strayed>> /\ OthersStay(w) /\ req'[w] = NoRequest
    BY DEF Dismiss, RoomInv, RequestsShape, OthersStay
  <1>2. RequestTyped(w)'
    BY <1>1 DEF RequestTyped, NoRequest, Under
  <1>3. QED
    BY <1>1, <1>2, RoomTypesKept DEF RoomTypes

\* An account sets the status of its table.
LEMMA AccountTyped ==
  ASSUME RoomTypes, NEW t, NEW s \in Statuses, AccountSets(t, s)
  PROVE  RoomTypes'
  <1>1. /\ UNCHANGED <<zone, req, strayed>>
        /\ table' = [table EXCEPT ![t] = IF @.life = "live" THEN [@ EXCEPT !.status = s] ELSE @]
    BY DEF AccountSets
  <1>2. ASSUME NEW u \in Tables
        PROVE  table'[u] \in TableRows
    <2>1. CASE u = t /\ table[t].life = "live"
      <3>1. table[t] \in LiveTableRow /\ table'[u] = [table[t] EXCEPT !.status = s]
        BY <1>1, <2>1, RowsTyped DEF RoomTypes
      <3>2. table'[u] \in LiveTableRow
        BY <3>1 DEF LiveTableRow
      <3>3. QED BY <3>2, RowsTyped
    <2>2. CASE ~(u = t /\ table[t].life = "live")
      BY <1>1, <2>2 DEF RoomTypes
    <2>3. QED BY <2>1, <2>2
  <1>3. table' \in [Tables -> TableRows]
    BY <1>1, <1>2 DEF RoomTypes
  <1>4. QED
    BY <1>1, <1>3 DEF RoomTypes, RequestTyped, Under

\* A room as it is found.
LEMMA InitRoomTypes == Init => RoomTypes
  <1> SUFFICES ASSUME Init PROVE RoomTypes
    OBVIOUS
  <1>1. /\ zone \in [Zones -> ZoneRows] /\ table \in [Tables -> TableRows]
        /\ req = [w \in Workers |-> NoRequest] /\ strayed = {}
    BY DEF Init, FloorInit, RoomInit
  <1>2. ASSUME NEW w \in Workers
        PROVE  RequestTyped(w)
    BY <1>1 DEF RequestTyped, NoRequest, Under
  <1>3. QED BY <1>1, <1>2 DEF RoomTypes

-----------------------------------------------------------------------------
(* The list keeps its types *)

\* What is fetched.
LEMMA ListingTyped ==
  ASSUME RoomTypes
  PROVE  ListTyped(Listing)
  <1>1. ASSUME NEW z \in ListedZones
        PROVE  z \in Zones /\ zone[z].name \in Nat \ {0}
    BY <1>1, RowsTyped DEF ListedZones, LiveZones, LiveZoneRow
  <1>2. ASSUME NEW t \in ListedTables
        PROVE  t \in Tables /\ table[t] \in LiveTableRow /\ table[t].zone \in ListedZones
    BY <1>2, RowsTyped DEF ListedTables, LiveTables
  <1>3. NoRow \notin LiveTableRow
    BY DEF NoRow, LiveTableRow
  <1>4. ShownZones(Listing) = ListedZones
    BY <1>1 DEF ShownZones, Listing, NotShown
  <1>5. ShownTables(Listing) = ListedTables
    BY <1>2, <1>3 DEF ShownTables, Listing
  <1>6. Listing.zones \in [Zones -> Nat]
    BY <1>1 DEF Listing, NotShown
  <1>7. Listing.tables \in [Tables -> {NoRow} \cup LiveTableRow]
    BY <1>2 DEF Listing
  <1>8. DOMAIN Listing = {"zones", "tables", "again"} /\ Listing.again = {}
    BY DEF Listing
  <1>9. \A t \in ShownTables(Listing) : Listing.tables[t].zone \in ShownZones(Listing)
    BY <1>2, <1>4, <1>5 DEF Listing
  <1>10. QED
    BY <1>6, <1>7, <1>8, <1>9 DEF ListTyped

\* What is there before anything is fetched.
LEMMA EmptyTyped == ListTyped(Empty)
  BY DEF ListTyped, Empty, ShownZones, ShownTables, NotShown

\* A row that is taken out leaves no table without its zone.
LEMMA WithoutTyped ==
  ASSUME NEW l, ListTyped(l), NEW i
  PROVE  ListTyped(Without(l, i))
  <1> DEFINE gone == {i} \cup {t \in ShownTables(l) : l.tables[t].zone = i}
             m == Without(l, i)
  <1>1. m = [zones  |-> [z \in Zones |-> IF z \in gone THEN NotShown ELSE l.zones[z]],
             tables |-> [t \in Tables |-> IF t \in gone THEN NoRow ELSE l.tables[t]],
             again  |-> l.again \ gone]
    BY DEF Without
  <1> HIDE DEF m
  <1>2. ShownZones(m) = ShownZones(l) \ gone
    BY <1>1 DEF ShownZones
  <1>3. ShownTables(m) = ShownTables(l) \ gone
    BY <1>1 DEF ShownTables
  <1>4. ASSUME NEW t \in ShownTables(m)
        PROVE  m.tables[t].zone \in ShownZones(m)
    <2>1. t \in ShownTables(l) /\ t \notin gone /\ t \in Tables
      BY <1>3 DEF ShownTables
    <2>2. m.tables[t] = l.tables[t] /\ l.tables[t].zone \in ShownZones(l) /\ l.tables[t].zone # i
      BY <1>1, <2>1 DEF ListTyped
    <2>3. l.tables[t].zone \notin gone
      BY <2>2, IdsAssumption DEF ShownZones, ShownTables
    <2>4. QED BY <1>2, <2>2, <2>3
  <1>5. m.zones \in [Zones -> Nat] /\ m.tables \in [Tables -> {NoRow} \cup LiveTableRow]
    BY <1>1 DEF ListTyped, NotShown
  <1>6. DOMAIN m = {"zones", "tables", "again"} /\ m.again \subseteq ShownZones(m) \cup ShownTables(m)
    BY <1>1, <1>2, <1>3 DEF ListTyped
  <1>7. QED BY <1>4, <1>5, <1>6 DEF ListTyped, m

\* A zone that is added or renamed.
LEMMA ZoneInTyped ==
  ASSUME NEW l, ListTyped(l), NEW z \in Zones, NEW r \in LiveZoneRow
  PROVE  ListTyped(WithZone(l, z, r)) /\ ListTyped(RenameZoneIn(l, z, r))
  <1>1. r.name \in Nat \ {0}
    BY DEF LiveZoneRow
  <1>2. ASSUME NEW m, DOMAIN m = {"zones", "tables", "again"}, m.tables = l.tables,
               m.zones = [l.zones EXCEPT ![z] = r.name], m.again \subseteq l.again \cup {z}
        PROVE  ListTyped(m)
    <2>1. m.zones \in [Zones -> Nat]
      BY <1>1, <1>2 DEF ListTyped
    <2>2. ShownZones(m) = ShownZones(l) \cup {z}
      BY <1>1, <1>2 DEF ShownZones, ListTyped, NotShown
    <2>3. ShownTables(m) = ShownTables(l)
      BY <1>2 DEF ShownTables
    <2>4. QED BY <1>2, <2>1, <2>2, <2>3 DEF ListTyped
  <1>3. ListTyped(WithZone(l, z, r))
    <2> DEFINE m == WithZone(l, z, r)
    <2>1. m = [l EXCEPT !.zones = [l.zones EXCEPT ![z] = r.name],
                        !.again = IF z \in ShownZones(l) THEN l.again \cup {z} ELSE l.again]
      BY DEF WithZone
    <2>2. /\ DOMAIN m = {"zones", "tables", "again"} /\ m.tables = l.tables
          /\ m.zones = [l.zones EXCEPT ![z] = r.name] /\ m.again \subseteq l.again \cup {z}
      BY <2>1 DEF ListTyped
    <2> HIDE DEF m
    <2>3. ListTyped(m)
      BY <1>2, <2>2
    <2>4. QED BY <2>3 DEF m
  <1>4. ListTyped(RenameZoneIn(l, z, r))
    <2>1. CASE z \in ShownZones(l)
      <3> DEFINE m == RenameZoneIn(l, z, r)
      <3>1. m = [l EXCEPT !.zones = [l.zones EXCEPT ![z] = r.name]]
        BY <2>1 DEF RenameZoneIn
      <3>2. /\ DOMAIN m = {"zones", "tables", "again"} /\ m.tables = l.tables
            /\ m.zones = [l.zones EXCEPT ![z] = r.name] /\ m.again \subseteq l.again \cup {z}
        BY <3>1 DEF ListTyped
      <3> HIDE DEF m
      <3>3. ListTyped(m)
        BY <1>2, <3>2
      <3>4. QED BY <3>3 DEF m
    <2>2. CASE z \notin ShownZones(l)
      BY <2>2 DEF RenameZoneIn
    <2>3. QED BY <2>1, <2>2
  <1>5. QED BY <1>3, <1>4

\* A table that is added or replaced.
LEMMA TableInTyped ==
  ASSUME NEW l, ListTyped(l), NEW t \in Tables, NEW r \in LiveTableRow
  PROVE  ListTyped(WithTable(l, t, r))
  <1> DEFINE m == WithTable(l, t, r)
  <1>1. CASE r.zone \notin ShownZones(l)
    BY <1>1 DEF WithTable
  <1>2. CASE r.zone \in ShownZones(l)
    <2>1. m = [l EXCEPT !.tables = [l.tables EXCEPT ![t] = r],
                        !.again = IF t \in ShownTables(l) THEN l.again \cup {t} ELSE l.again]
      BY <1>2 DEF WithTable
    <2>2. /\ DOMAIN m = {"zones", "tables", "again"} /\ m.zones = l.zones
          /\ m.tables = [l.tables EXCEPT ![t] = r] /\ m.again \subseteq l.again \cup {t}
      BY <2>1 DEF ListTyped
    <2> HIDE DEF m
    <2>3. ShownZones(m) = ShownZones(l)
      BY <2>2 DEF ShownZones
    <2>4. r # NoRow
      BY DEF NoRow, LiveTableRow
    <2>5. ShownTables(m) = ShownTables(l) \cup {t}
      BY <2>2, <2>4 DEF ShownTables, ListTyped
    <2>6. m.tables \in [Tables -> {NoRow} \cup LiveTableRow]
      BY <2>2 DEF ListTyped
    <2>7. \A u \in ShownTables(m) : m.tables[u].zone \in ShownZones(m)
      BY <1>2, <2>2, <2>3, <2>5 DEF ListTyped, ShownTables
    <2>8. ListTyped(m)
      BY <2>2, <2>3, <2>5, <2>6, <2>7 DEF ListTyped
    <2>9. QED BY <2>8 DEF m
  <1>3. QED BY <1>1, <1>2

\* The answer to a request leaves a list.
LEMMA PatchedTyped ==
  ASSUME RoomTypes, NEW w \in Workers, req[w].result = "done", NEW l, ListTyped(l)
  PROVE  ListTyped(Patched(l, req[w]))
  <1> DEFINE q == req[w]
  <1>1. ResultTyped(q.op, q.id, q.row)
    BY DEF RoomTypes, RequestTyped
  <1>2. CASE q.op \in {"createZone", "updateZone"}
    <2>1. q.id \in Zones /\ q.row \in LiveZoneRow
      BY <1>1, <1>2 DEF ResultTyped, ZoneOps
    <2>2. QED BY <1>2, <2>1, ZoneInTyped DEF Patched
  <1>3. CASE q.op \in {"createTable", "updateTable", "setStatus"}
    <2>1. q.id \in Tables /\ q.row \in LiveTableRow
      BY <1>1, <1>3 DEF ResultTyped, TableOps
    <2>2. ListTyped(Without(l, q.id))
      BY WithoutTyped
    <2>3. QED BY <1>3, <2>1, <2>2, TableInTyped DEF Patched, ReplaceTable
  <1>4. CASE q.op \notin {"createZone", "updateZone", "createTable", "updateTable", "setStatus"}
    BY <1>4, WithoutTyped DEF Patched
  <1>5. QED BY <1>2, <1>3, <1>4

-----------------------------------------------------------------------------
(* Names and numbers that are counted on *)

\* A finite set of numbers that is not empty has a greatest one.
LEMMA GreatestNumber ==
  ASSUME NEW S, IsFiniteSet(S), S # {}
  PROVE  S \subseteq Nat => \E m \in S : \A k \in S : m >= k
  <1> DEFINE B == {{k \in S : k > n} : n \in S}
  <1>1. B \in SUBSET SUBSET S
    OBVIOUS
  <1>2. B # {}
    OBVIOUS
  <1> HIDE DEF B
  <1>3. PICK s \in B : \A t \in B : ~(t \subseteq s /\ t # s)
    BY <1>1, <1>2, LeastSubset
  <1> USE DEF B
  <1>4. PICK m \in S : s = {k \in S : k > m}
    BY <1>3
  <1>5. ASSUME S \subseteq Nat, NEW k \in S, k > m
        PROVE  FALSE
    <2>1. {j \in S : j > k} \in B
      OBVIOUS
    <2>2. k \in s /\ k \notin {j \in S : j > k}
      BY <1>4, <1>5
    <2>3. {j \in S : j > k} \subseteq {j \in S : j > m}
      <3> SUFFICES ASSUME NEW j \in S, j > k PROVE j > m
        OBVIOUS
      <3>1. j \in Nat /\ k \in Nat /\ m \in Nat
        BY <1>5
      <3>2. QED BY <1>5, <3>1
    <2>4. QED BY <1>3, <1>4, <2>1, <2>2, <2>3
  <1>6. QED BY <1>4, <1>5

\* Less names are shown than numbers are tried: one of them is free.
LEMMA NextNameTyped ==
  ASSUME ListTyped(shown)
  PROVE  NextZoneName \in Nat \ {0}
  <1> DEFINE Z == ShownZones(shown)
             f == [z \in Z |-> shown.zones[z]]
             names == {shown.zones[z] : z \in Z}
             c == Cardinality(Zones)
             n == Cardinality(Z) + 1
             free == {k \in n .. n + c : k \notin names}
  <1>1. IsFiniteSet(Z) /\ Z \subseteq Zones
    BY FiniteAssumption, FS_Subset DEF ShownZones
  <1>2. /\ c \in Nat /\ Cardinality(Z) \in Nat /\ Cardinality(Z) <= c
    BY <1>1, FiniteAssumption, FS_Subset, FS_CardinalityType
  <1>3. f \in Surjection(Z, names)
    BY DEF Surjection
  <1>4. IsFiniteSet(names) /\ Cardinality(names) <= Cardinality(Z)
    <2> HIDE DEF f, names
    <2>1. QED BY <1>1, <1>3, FS_Surjection
  <1>5. free # {}
    <2>1. SUFFICES ASSUME free = {} PROVE FALSE
      OBVIOUS
    <2>2. n .. n + c \subseteq names
      BY <2>1
    <2>3. n \in Int /\ n + c \in Int
      BY <1>2
    <2>4. Cardinality(n .. n + c) = c + 1
      <3>1. Cardinality(n .. n + c) = IF n > n + c THEN 0 ELSE (n + c) - n + 1
        BY <2>3, FS_Interval
      <3>2. QED BY <1>2, <3>1
    <2> HIDE DEF names
    <2>5. Cardinality(n .. n + c) <= Cardinality(names)
      BY <1>4, <2>2, FS_Subset
    <2>6. Cardinality(names) \in Nat
      BY <1>4, FS_CardinalityType
    <2>7. QED BY <1>2, <1>4, <2>4, <2>5, <2>6
  <1>6. free \subseteq Nat \ {0}
    BY <1>2
  <1>7. \E m \in free : \A k \in free : m <= k
    <2> HIDE DEF free
    <2>1. QED BY <1>5, <1>6, LeastNumber
  <1>8. Min(free) \in free
    <2> HIDE DEF free
    <2>1. QED BY <1>7 DEF Min
  <1>9. NextZoneName = Min(free)
    BY DEF NextZoneName
  <1>10. QED BY <1>6, <1>8, <1>9

\* The next number follows the greatest one that is shown.
LEMMA NextNumberTyped ==
  ASSUME ListTyped(shown)
  PROVE  NextTableNumber \in Nat
  <1> DEFINE T == ShownTables(shown)
             f == [t \in T |-> shown.tables[t].number]
             numbers == {shown.tables[t].number : t \in T}
             S == {0} \cup numbers
  <1>1. IsFiniteSet(T)
    BY FiniteAssumption, FS_Subset DEF ShownTables
  <1>2. f \in Surjection(T, numbers)
    BY DEF Surjection
  <1>3. IsFiniteSet(numbers)
    <2> HIDE DEF f, numbers
    <2>1. QED BY <1>1, <1>2, FS_Surjection
  <1>4. IsFiniteSet(S)
    <2> HIDE DEF numbers
    <2>1. IsFiniteSet({0})
      BY FS_Singleton
    <2>2. QED BY <1>3, <2>1, FS_Union
  <1>5. S \in SUBSET Nat /\ S # {}
    BY DEF ListTyped, ShownTables, LiveTableRow
  <1>6. Max(S) \in S
    <2> HIDE DEF S
    <2>1. \E m \in S : \A k \in S : m >= k
      BY <1>4, <1>5, GreatestNumber
    <2>2. QED BY <2>1 DEF Max
  <1>7. NextTableNumber = Max(S) + 1
    BY DEF NextTableNumber
  <1>8. QED BY <1>5, <1>6, <1>7

-----------------------------------------------------------------------------
(* The floor keeps its types *)

\* A statement does not change what a request is.
LEMMA ServedSame ==
  ASSUME RequestsShape, NEW w \in Workers, ServeRoom(w) \/ RemoveTablesFails(w)
  PROVE  Under(w) /\ OthersStay(w) /\ req'[w].op = req[w].op
  <1>1. Under(w)
    BY DEF ServeRoom, Find, RequireZone, CheckClash, Create, Update, Reread, Remove, RemoveTables,
           RemoveTablesFails, At
  <1>2. \/ \E todo : req' = [req EXCEPT ![w].todo = todo]
        \/ Refuse(w) \/ \E i, r : Finish(w, i, r)
    BY DEF ServeRoom, Find, RequireZone, CheckClash, Create, Update, Reread, Remove, RemoveTables,
           RemoveTablesFails, Next1
  <1>3. ASSUME NEW todo, req' = [req EXCEPT ![w].todo = todo]
        PROVE  OthersStay(w) /\ req'[w].op = req[w].op
    BY <1>3 DEF RequestsShape, OthersStay
  <1>4. ASSUME Refuse(w)
        PROVE  OthersStay(w) /\ req'[w].op = req[w].op
    BY <1>4 DEF Refuse, RequestsShape, OthersStay
  <1>5. ASSUME NEW i, NEW r, Finish(w, i, r)
        PROVE  OthersStay(w) /\ req'[w].op = req[w].op
    BY <1>5 DEF Finish, RequestsShape, OthersStay
  <1>6. QED BY <1>1, <1>2, <1>3, <1>4, <1>5

\* So it is still known who sent it.
LEMMA AskedServed ==
  ASSUME RoomTypes, RequestsShape, AskedTyped, NEW w \in Workers, asked' = asked,
         ServeRoom(w) \/ RemoveTablesFails(w)
  PROVE  AskedTyped'
  <1>1. Under(w) /\ OthersStay(w) /\ req'[w].op = req[w].op
    BY ServedSame
  <1>2. req[w].op # "idle" /\ req[w] # NoRequest
    BY <1>1 DEF Under, RoomTypes, RequestTyped
  <1>3. req'[w] # NoRequest
    BY <1>1, <1>2 DEF NoRequest
  <1>4. \A v \in Workers \ {w} : req'[v] = req[v]
    BY <1>1 DEF OthersStay
  <1>5. QED BY <1>2, <1>3, <1>4 DEF AskedTyped

\* One that arrives has a sender.
LEMMA AskedSends ==
  ASSUME RequestsShape, AskedTyped, NEW w \in Workers, NEW op, NEW i, NEW data,
         WellSent(op, i, data), Arrive(w, op, i, data),
         asked' \in [Workers -> {"nobody", "page", "earlier", "other"}], asked'[w] # "nobody",
         \A v \in Workers \ {w} : asked'[v] = "nobody" <=> asked[v] = "nobody"
  PROVE  AskedTyped'
  <1> DEFINE q == [NoRequest EXCEPT !.op = op, !.id = i, !.data = data, !.todo = FirstSteps(op)]
  <1>1. req' = [req EXCEPT ![w] = q]
    BY DEF Arrive
  <1>2. op # "idle"
    BY DEF WellSent, ZoneOps, TableOps
  <1>3. q # NoRequest
    BY <1>2 DEF NoRequest
  <1> HIDE DEF q
  <1>4. req'[w] # NoRequest /\ \A v \in Workers \ {w} : req'[v] = req[v]
    BY <1>1, <1>3 DEF RequestsShape
  <1>5. QED BY <1>4 DEF AskedTyped

\* One that was answered has none.
LEMMA AskedAnswered ==
  ASSUME RequestsShape, AskedTyped, NEW w \in Workers, Answered(w)
  PROVE  AskedTyped'
  <1>1. req' = [req EXCEPT ![w] = NoRequest] /\ asked' = [asked EXCEPT ![w] = "nobody"]
    BY DEF Answered, Dismiss
  <1>2. req'[w] = NoRequest /\ \A v \in Workers \ {w} : req'[v] = req[v]
    BY <1>1 DEF RequestsShape
  <1>3. QED BY <1>1, <1>2 DEF AskedTyped

\* Requests and answers that leave the room and the list alone.
LEMMA FloorSame ==
  ASSUME FloorTypes, AskedTyped', UNCHANGED <<shown, page>>,
         fetch' = fetch \/ \E m : fetch' = [fetch EXCEPT !.muddled = m]
  PROVE  FloorTypes'
  <1>1. ListTyped(shown)' /\ (page \in {"floor", "tables", "pos"})'
    BY DEF FloorTypes, ListTyped, ShownZones, ShownTables
  <1>2. FetchTyped'
    BY DEF FloorTypes, FetchTyped, ListTyped, ShownZones, ShownTables
  <1>3. QED BY <1>1, <1>2 DEF FloorTypes

\* The fetches of the list.
LEMMA FetchesTyped ==
  ASSUME RoomTypes, FloorTypes, FetchReads \/ FetchArrives \/ FetchFails \/ Retry
  PROVE  RoomTypes' /\ FloorTypes'
  <1>1. UNCHANGED roomVars /\ UNCHANGED <<asked, page>>
    BY DEF FetchReads, FetchArrives, FetchFails, Retry
  <1>2. RoomTypes' /\ AskedTyped' /\ (page \in {"floor", "tables", "pos"})'
    BY <1>1 DEF RoomTypes, RequestTyped, Under, FloorTypes, AskedTyped, roomVars
  <1>3. CASE FetchReads
    <2>1. /\ shown' = shown
          /\ fetch' = [fetch EXCEPT !.step = "arriving", !.list = Listing,
                                    !.muddled = \E w \in Mutations : Took(w)]
      BY <1>3 DEF FetchReads
    <2>2. /\ fetch'.step = "arriving" /\ fetch'.failed = fetch.failed /\ fetch'.list = Listing
          /\ DOMAIN fetch' = {"step", "list", "muddled", "failed"}
      BY <2>1 DEF FloorTypes, FetchTyped
    <2>3. ListTyped(Listing)
      BY ListingTyped
    <2>4. FetchTyped'
      BY <2>2, <2>3 DEF FloorTypes, FetchTyped, ListTyped, ShownZones, ShownTables
    <2>5. ListTyped(shown)'
      BY <2>1 DEF FloorTypes, ListTyped, ShownZones, ShownTables
    <2>6. QED BY <1>2, <2>4, <2>5 DEF FloorTypes
  <1>4. CASE FetchArrives
    <2>1. /\ shown' = fetch.list
          /\ fetch' = [fetch EXCEPT !.step = "idle", !.list = Empty, !.failed = FALSE, !.muddled = FALSE]
      BY <1>4 DEF FetchArrives
    <2>2. /\ fetch'.step = "idle" /\ fetch'.failed = FALSE /\ fetch'.list = Empty
          /\ DOMAIN fetch' = {"step", "list", "muddled", "failed"}
      BY <2>1 DEF FloorTypes, FetchTyped
    <2>3. ListTyped(Empty)
      BY EmptyTyped
    <2>4. FetchTyped'
      BY <2>2, <2>3 DEF FetchTyped, ListTyped, ShownZones, ShownTables
    <2>5. ListTyped(shown)'
      BY <2>1 DEF FloorTypes, FetchTyped, ListTyped, ShownZones, ShownTables
    <2>6. QED BY <1>2, <2>4, <2>5 DEF FloorTypes
  <1>5. CASE FetchFails \/ Retry
    <2>1. /\ shown' = shown
          /\ \/ fetch' = [fetch EXCEPT !.step = "idle", !.failed = TRUE]
             \/ fetch' = [fetch EXCEPT !.step = "asked"]
      BY <1>5 DEF FetchFails, Retry, Fetching
    <2>2. FetchTyped'
      BY <2>1 DEF FloorTypes, FetchTyped, ListTyped, ShownZones, ShownTables
    <2>3. ListTyped(shown)'
      BY <2>1 DEF FloorTypes, ListTyped, ShownZones, ShownTables
    <2>4. QED BY <1>2, <2>2, <2>3 DEF FloorTypes
  <1>6. QED BY <1>3, <1>4, <1>5

\* A page that is opened fetches the list.
LEMMA GoToTyped ==
  ASSUME RoomTypes, FloorTypes, NEW p \in {"floor", "tables", "pos"}, GoTo(p)
  PROVE  RoomTypes' /\ FloorTypes' /\ page' = p
  <1>1. /\ UNCHANGED roomVars /\ shown' = shown /\ page' = p
        /\ asked' = [w \in Workers |-> IF Mine(w) THEN "earlier" ELSE asked[w]]
        /\ fetch' = [fetch EXCEPT !.step = "asked"] \/ fetch' = fetch
    BY DEF GoTo, Fetching
  <1>2. RoomTypes'
    BY <1>1 DEF RoomTypes, RequestTyped, Under, roomVars
  <1>3. AskedTyped'
    BY <1>1 DEF FloorTypes, AskedTyped, Mine, roomVars
  <1>4. FetchTyped' /\ ListTyped(shown)'
    BY <1>1 DEF FloorTypes, FetchTyped, ListTyped, ShownZones, ShownTables
  <1>5. QED BY <1>1, <1>2, <1>3, <1>4 DEF FloorTypes

\* What is sent is typed, and its sender is known.
LEMMA SentTyped ==
  ASSUME RoomInv, RoomTypes, FloorTypes, NEW w \in Workers, NEW op, NEW i, NEW data,
         WellSent(op, i, data), DataTyped(data), Arrive(w, op, i, data),
         UNCHANGED <<shown, page, fetch>>,
         \/ asked' = [asked EXCEPT ![w] = "other"]
         \/ asked' = [v \in Workers |->
              IF v = w THEN "page"
              ELSE IF asked[v] = "page" /\ req[v].op = op THEN "earlier" ELSE asked[v]]
  PROVE  RoomTypes' /\ FloorTypes'
  <1>1. /\ asked' \in [Workers -> {"nobody", "page", "earlier", "other"}] /\ asked'[w] # "nobody"
        /\ \A v \in Workers \ {w} : asked'[v] = "nobody" <=> asked[v] = "nobody"
    BY DEF FloorTypes, AskedTyped
  <1>2. AskedTyped'
    BY <1>1, AskedSends DEF FloorTypes, RoomInv
  <1>3. QED BY <1>2, ArriveTyped, FloorSame

\* So is all that the page sends.
LEMMA EditsTyped ==
  ASSUME RoomInv, RoomTypes, FloorTypes, NEW w \in Workers, NEW op, NEW i, NEW data,
         WellSent(op, i, data), DataTyped(data), Edits(w, op, i, data)
  PROVE  RoomTypes' /\ FloorTypes'
  <1>1. /\ Arrive(w, op, i, data) /\ UNCHANGED <<shown, page, fetch>>
        /\ asked' = [v \in Workers |->
              IF v = w THEN "page"
              ELSE IF asked[v] = "page" /\ req[v].op = op THEN "earlier" ELSE asked[v]]
    BY DEF Edits, Sends
  <1>2. QED BY <1>1, SentTyped

\* What a request may bring along, field by field.
LEMMA FieldsTyped ==
  /\ \A n \in Nat \ {0} : DataTyped([name |-> n])
  /\ \A n \in Nat : DataTyped([number |-> n])
  /\ \A n \in Nat \ {0} : DataTyped([seats |-> n])
  /\ \A z \in Zones : DataTyped([zone |-> z])
  /\ \A s \in Statuses : DataTyped([status |-> s])
  /\ DataTyped([active |-> FALSE]) /\ DataTyped(NoData)
  /\ \A z \in Zones, n \in Nat : DataTyped([zone |-> z, number |-> n, seats |-> 4])
  BY DEF DataTyped, NoData

\* And that it is well formed.
LEMMA FieldsSent ==
  /\ \A z \in Zones : \A n :
       /\ WellSent("updateZone", z, [name |-> n])
       /\ WellSent("updateZone", z, [active |-> FALSE])
       /\ WellSent("deleteZone", z, NoData)
       /\ WellSent("createTable", NoId, [zone |-> z, number |-> n, seats |-> 4])
  /\ \A t \in Tables : \A v :
       /\ WellSent("updateTable", t, [zone |-> v])
       /\ WellSent("updateTable", t, [number |-> v])
       /\ WellSent("updateTable", t, [seats |-> v])
       /\ WellSent("setStatus", t, [status |-> v])
       /\ WellSent("deleteTable", t, NoData)
  /\ \A n : WellSent("createZone", NoId, [name |-> n])
  BY DEF WellSent, Carried, ZoneOps, TableOps, NoData

\* All that the page sends, but for the removals.
LEMMA PageTyped ==
  ASSUME RoomInv, RoomTypes, FloorTypes, NEW w \in Workers,
         \/ CreateZone(w)
         \/ \E z \in Zones : CreateTable(w, z)
         \/ \E z \in Zones, n \in Names : RenameZone(w, z, n)
         \/ \E t \in Tables, n \in Names : RenameTable(w, t, n)
         \/ \E t \in Tables, by \in {-1, 1} : ChangeSeats(w, t, by)
  PROVE  RoomTypes' /\ FloorTypes'
  <1>1. ASSUME CreateZone(w)
        PROVE  RoomTypes' /\ FloorTypes'
    <2>1. Edits(w, "createZone", NoId, [name |-> NextZoneName])
      BY <1>1 DEF CreateZone
    <2>2. NextZoneName \in Nat \ {0}
      BY NextNameTyped DEF FloorTypes
    <2>3. DataTyped([name |-> NextZoneName]) /\ WellSent("createZone", NoId, [name |-> NextZoneName])
      BY <2>2, FieldsTyped, FieldsSent
    <2>4. QED BY <2>1, <2>3, EditsTyped
  <1>2. ASSUME NEW z \in Zones, CreateTable(w, z)
        PROVE  RoomTypes' /\ FloorTypes'
    <2> DEFINE data == [zone |-> z, number |-> NextTableNumber, seats |-> 4]
    <2>1. Edits(w, "createTable", NoId, data)
      BY <1>2 DEF CreateTable
    <2>2. NextTableNumber \in Nat
      BY NextNumberTyped DEF FloorTypes
    <2>3. DataTyped(data) /\ WellSent("createTable", NoId, data)
      BY <2>2, FieldsTyped, FieldsSent
    <2>4. QED BY <2>1, <2>3, EditsTyped
  <1>3. ASSUME NEW z \in Zones, NEW n \in Names, RenameZone(w, z, n)
        PROVE  RoomTypes' /\ FloorTypes'
    <2>1. DataTyped([name |-> n]) /\ WellSent("updateZone", z, [name |-> n])
      BY FieldsTyped, FieldsSent, BoundsAssumption
    <2>2. QED BY <1>3, <2>1, EditsTyped DEF RenameZone
  <1>4. ASSUME NEW t \in Tables, NEW n \in Names, RenameTable(w, t, n)
        PROVE  RoomTypes' /\ FloorTypes'
    <2>1. DataTyped([number |-> n]) /\ WellSent("updateTable", t, [number |-> n])
      BY FieldsTyped, FieldsSent, BoundsAssumption
    <2>2. QED BY <1>4, <2>1, EditsTyped DEF RenameTable
  <1>5. ASSUME NEW t \in Tables, NEW by \in {-1, 1}, ChangeSeats(w, t, by)
        PROVE  RoomTypes' /\ FloorTypes'
    <2> DEFINE n == shown.tables[t].seats + by
    <2>1. n \in 3..5 /\ Edits(w, "updateTable", t, [seats |-> n])
      BY <1>5 DEF ChangeSeats
    <2> HIDE DEF n
    <2>2. n \in Nat \ {0}
      BY <2>1
    <2>3. DataTyped([seats |-> n]) /\ WellSent("updateTable", t, [seats |-> n])
      BY <2>2, FieldsTyped, FieldsSent
    <2>4. QED BY <2>1, <2>3, EditsTyped
  <1>6. QED BY <1>1, <1>2, <1>3, <1>4, <1>5

\* The removal that the dialog confirms.
LEMMA ConfirmTyped ==
  ASSUME IInv, RoomTypes, FloorTypes, NEW w \in Workers, ConfirmDelete(w)
  PROVE  RoomTypes' /\ FloorTypes'
  <1> DEFINE op == IF deleting \in Zones THEN "deleteZone" ELSE "deleteTable"
  <1>1. /\ Arrive(w, op, deleting, NoData) /\ UNCHANGED <<shown, page, fetch>> /\ deleting # NoId
        /\ asked' = [v \in Workers |->
              IF v = w THEN "page"
              ELSE IF asked[v] = "page" /\ req[v].op = op THEN "earlier" ELSE asked[v]]
    BY DEF ConfirmDelete, Sends
  <1>2. WellSent(op, deleting, NoData)
    BY <1>1, FieldsSent DEF IInv, DeletingShape
  <1>3. DataTyped(NoData)
    BY FieldsTyped
  <1> HIDE DEF op
  <1>4. QED BY <1>1, <1>2, <1>3, SentTyped DEF IInv

\* What others send.
LEMMA OtherTyped ==
  ASSUME RoomInv, RoomTypes, FloorTypes, NEW w \in Workers, OtherSends(w)
  PROVE  RoomTypes' /\ FloorTypes'
  <1>1. /\ OtherRequest(w) /\ asked' = [asked EXCEPT ![w] = "other"]
        /\ UNCHANGED <<shown, page, fetch>>
    BY DEF OtherSends
  <1>2. PICK op, i, data : WellSent(op, i, data) /\ DataTyped(data) /\ Arrive(w, op, i, data)
    <2>1. \A n \in Names : n \in Nat /\ n \in Nat \ {0}
      BY BoundsAssumption
    <2>2. \A t \in LiveTables : t \in Tables
      BY DEF LiveTables
    <2>3. "FREE" \in Statuses /\ "RESERVED" \in Statuses
      BY DEF Statuses
    <2>4. QED BY <1>1, <2>1, <2>2, <2>3, FieldsTyped, FieldsSent DEF OtherRequest
  <1>3. QED BY <1>1, <1>2, SentTyped

\* Requests that are served or answered.
LEMMA AnswersTyped ==
  ASSUME IInv, RoomTypes, FloorTypes, NEW w \in Workers,
         \/ Served(w) \/ RemovalFails(w) \/ AnswerDone(w) \/ AnswerRefused(w) \/ AnswerLost(w)
         \/ OtherDone(w)
  PROVE  RoomTypes' /\ FloorTypes'
  <1>1. RoomInv /\ RequestsShape /\ AskedTyped
    BY DEF IInv, RoomInv, FloorTypes
  <1>2. CASE Served(w) \/ RemovalFails(w)
    <2>1. /\ ServeRoom(w) \/ RemoveTablesFails(w)
          /\ UNCHANGED <<shown, page, asked>>
          /\ fetch' = fetch \/ fetch' = [fetch EXCEPT !.muddled = fetch.muddled \/ Mine(w)]
      BY <1>2 DEF Served, RemovalFails
    <2>2. RoomTypes' /\ AskedTyped'
      BY <1>1, <2>1, ServeTyped, AskedServed
    <2>3. QED BY <2>1, <2>2, FloorSame
  <1>3. CASE AnswerRefused(w) \/ AnswerLost(w) \/ OtherDone(w)
    <2>1. /\ Answered(w) /\ Dismiss(w) /\ UNCHANGED <<shown, page>>
          /\ fetch' = fetch \/ fetch' = [fetch EXCEPT !.muddled = TRUE]
      BY <1>3 DEF AnswerRefused, AnswerLost, OtherDone, Answered
    <2>2. RoomTypes' /\ AskedTyped'
      BY <1>1, <2>1, DismissTyped, AskedAnswered
    <2>3. QED BY <2>1, <2>2, FloorSame
  <1>4. CASE AnswerDone(w)
    <2>1. /\ Answered(w) /\ Dismiss(w) /\ page' = page /\ req[w].result = "done"
          /\ shown' = Patched(shown, req[w])
          /\ fetch' = [fetch EXCEPT !.muddled = fetch.muddled \/ fetch.step = "arriving", !.failed = FALSE]
      BY <1>4 DEF AnswerDone, Answered
    <2>2. RoomTypes' /\ AskedTyped'
      BY <1>1, <2>1, DismissTyped, AskedAnswered
    <2>3. ListTyped(Patched(shown, req[w]))
      BY <2>1, PatchedTyped DEF FloorTypes
    <2>4. ListTyped(shown)'
      BY <2>1, <2>3 DEF ListTyped, ShownZones, ShownTables
    <2>5. FetchTyped'
      BY <2>1 DEF FloorTypes, FetchTyped, ListTyped, ShownZones, ShownTables
    <2>6. QED BY <2>1, <2>2, <2>4, <2>5 DEF FloorTypes
  <1>5. QED BY <1>2, <1>3, <1>4

\* What happens on the floor.
LEMMA FloorTyped ==
  ASSUME IInv, RoomTypes, FloorTypes, FloorStep
  PROVE  RoomTypes' /\ FloorTypes' /\ page' = page
  <1>1. page' = page
    BY DEF FloorStep, FetchReads, FetchArrives, FetchFails, Retry, CancelDelete, AskDelete,
           CreateZone, ConfirmDelete, CreateTable, RenameZone, RenameTable, ChangeSeats, Edits, Sends,
           Served, RemovalFails, AnswerDone, AnswerRefused, AnswerLost, OtherSends, OtherDone
  <1>2. ASSUME CancelDelete \/ \E i \in Zones \cup Tables : AskDelete(i)
        PROVE  RoomTypes' /\ FloorTypes'
    <2>1. UNCHANGED roomVars /\ UNCHANGED <<shown, page, fetch, asked>>
      BY <1>2 DEF CancelDelete, AskDelete
    <2>2. RoomTypes' /\ AskedTyped'
      BY <2>1 DEF RoomTypes, RequestTyped, Under, FloorTypes, AskedTyped, roomVars
    <2>3. QED BY <2>1, <2>2, FloorSame
  <1>3. RoomInv
    BY DEF IInv
  <1>4. QED
    BY <1>1, <1>2, <1>3, FetchesTyped, PageTyped, ConfirmTyped, OtherTyped, AnswersTyped DEF FloorStep

-----------------------------------------------------------------------------
(* Accounts *)

\* An account that nothing was ordered for.
LEMMA NothingOrdered ==
  /\ NoLine \in Line /\ NoLines \in [Products -> Line]
  /\ Unknown \in Account /\ NoAccount \in Account
  <1>1. NoLine \in Line
    BY TapsAssumption DEF NoLine, Line, Optimistic
  <1>2. NoLines \in [Products -> Line]
    BY <1>1 DEF NoLines
  <1>3. Unknown \in Account
    BY <1>2 DEF Unknown, Account
  <1>4. NoAccount \in Account
    BY <1>2 DEF NoAccount, Unknown, Account
  <1>5. QED BY <1>1, <1>2, <1>3, <1>4

\* What it owes is a sum over finitely many lines.
LEMMA BalanceTyped ==
  ASSUME NEW lines \in [Products -> Line]
  PROVE  Balance(lines) \in Nat
  <1> DEFINE S == Ordered(lines)
             g == [p \in S |-> Price[p] * lines[p].quantity]
  <1>1. IsFiniteSet(S)
    BY ProductsAssumption, FS_Subset DEF Ordered
  <1>2. ASSUME NEW p \in S
        PROVE  Price[p] * lines[p].quantity \in Nat
    <2>1. Price[p] \in Nat /\ lines[p].quantity \in Nat
      BY PriceAssumption DEF Ordered, Line
    <2>2. \A m, n \in Nat : m * n \in Nat
      OBVIOUS
    <2>3. QED BY <2>1, <2>2
  <1>3. g \in [S -> Nat] /\ DOMAIN g = S
    BY <1>2
  <1>4. Balance(lines) = SumFunctionOnSet(g, DOMAIN g)
    BY DEF Balance, SumFunction
  <1> HIDE DEF g, S
  <1>5. QED BY <1>1, <1>3, <1>4, SumIsNat

\* A quantity that is changed.
LEMMA QuantityTyped ==
  ASSUME NEW lines \in [Products -> Line], NEW p \in Products, NEW n \in Nat
  PROVE  WithQuantity(lines, p, n) \in [Products -> Line]
  <1>1. [lines[p] EXCEPT !.quantity = n] \in Line
    BY DEF Line
  <1>2. QED BY <1>1, NothingOrdered DEF WithQuantity

\* The account that is stored.
LEMMA CurrentTyped ==
  ASSUME SalesTypeOK
  PROVE  Current \in Account
  <1>1. CASE Drafts = {}
    BY <1>1, NothingOrdered DEF Current
  <1>2. CASE Drafts # {}
    <2> DEFINE x == CHOOSE x \in Drafts : TRUE
    <2>1. x \in Drafts
      BY <1>2
    <2>2. Current = [sale |-> x, known |-> TRUE, lines |-> sale[x].lines]
      BY <1>2 DEF Current
    <2> HIDE DEF x
    <2>3. QED BY <2>1, <2>2 DEF Drafts, SalesTypeOK, Account
  <1>3. QED BY <1>1, <1>2

\* A sale whose lines change.
LEMMA LinesWritten ==
  ASSUME SalesTypeOK, NEW x \in Drafts, NEW lines \in [Products -> Line],
         \A p \in Products : Has(lines, p) <=> lines[p].id # Optimistic,
         sale' = [sale EXCEPT ![x].lines = lines]
  PROVE  SalesTypeOK'
  <1>0. x \in Sales /\ sale[x].status = "DRAFT"
    BY DEF Drafts
  <1>1. sale' \in [Sales -> [status : {"none", "DRAFT", "CLOSED"}, lines : [Products -> Line]]]
    BY <1>0 DEF SalesTypeOK
  <1>2. /\ sale'[x].lines = lines /\ sale'[x].status = sale[x].status
        /\ \A y \in Sales \ {x} : sale'[y] = sale[y]
    BY <1>0 DEF SalesTypeOK
  <1>3. Drafts' = Drafts
    BY <1>2 DEF Drafts
  <1>4. ASSUME NEW y \in Sales, NEW p \in Products
        PROVE  Has(sale'[y].lines, p) <=> sale'[y].lines[p].id # Optimistic
    <2>1. CASE y = x
      BY <1>2, <2>1
    <2>2. CASE y # x
      BY <1>2, <2>2 DEF SalesTypeOK
    <2>3. QED BY <2>1, <2>2
  <1>5. \A y \in Sales : sale'[y].status = "none" => sale'[y] = NoSale
    BY <1>0, <1>2 DEF SalesTypeOK
  <1>6. QED BY <1>1, <1>3, <1>4, <1>5 DEF SalesTypeOK, Has, NoSale, NoLines, NoLine

\* A sale that is opened or closed: no two are open.
LEMMA StatusWritten ==
  ASSUME SalesTypeOK, NEW x \in Sales, NEW s \in {"DRAFT", "CLOSED"}, s = "DRAFT" => Drafts = {},
         sale' = [sale EXCEPT ![x].status = s]
  PROVE  SalesTypeOK'
  <1>1. sale' \in [Sales -> [status : {"none", "DRAFT", "CLOSED"}, lines : [Products -> Line]]]
    BY DEF SalesTypeOK
  <1>2. /\ sale'[x].lines = sale[x].lines /\ sale'[x].status = s
        /\ \A y \in Sales \ {x} : sale'[y] = sale[y]
    BY DEF SalesTypeOK
  <1>3. \A y, z \in Drafts' : y = z
    BY <1>2 DEF Drafts, SalesTypeOK
  <1>4. \A y \in Sales : sale'[y].lines = sale[y].lines
    BY <1>2
  <1>5. \A y \in Sales : sale'[y].status = "none" => sale'[y] = NoSale
    BY <1>2 DEF SalesTypeOK
  <1>6. QED BY <1>1, <1>3, <1>4, <1>5 DEF SalesTypeOK, Has, NoSale, NoLines, NoLine

\* A sale one line of which changes.
LEMMA LineWritten ==
  ASSUME SalesTypeOK, NEW x \in Drafts, NEW p \in Products, NEW line \in Line,
         line.quantity > 0 <=> line.id # Optimistic,
         sale' = [sale EXCEPT ![x].lines[p] = line]
  PROVE  SalesTypeOK'
  <1> DEFINE lines == [sale[x].lines EXCEPT ![p] = line]
  <1>0. x \in Sales
    BY DEF Drafts
  <1>1. sale[x].lines \in [Products -> Line] /\ lines \in [Products -> Line]
    BY <1>0 DEF SalesTypeOK
  <1>2. ASSUME NEW q \in Products
        PROVE  Has(lines, q) <=> lines[q].id # Optimistic
    BY <1>0, <1>1 DEF Has, SalesTypeOK
  <1>3. sale' = [sale EXCEPT ![x].lines = lines]
    OBVIOUS
  <1> HIDE DEF lines
  <1>4. QED BY <1>1, <1>2, <1>3, LinesWritten

-----------------------------------------------------------------------------
(* Calls *)

\* A call that no other is behind is still the call it was.
LEMMA CallTrimmed ==
  ASSUME NEW k \in Calls, CallTyped(k), NEW j,
         call'[k] = [call[k] EXCEPT !.behind = call[k].behind \ {j}]
  PROVE  /\ CallTyped(k)'
         /\ call'[k].op = call[k].op /\ call'[k].here = call[k].here
  <1>1. [NoCall EXCEPT !.behind = NoCall.behind \ {j}] = NoCall
    <2>1. NoCall.behind \ {j} = {}
      BY DEF NoCall
    <2>2. NoCall = [f \in DOMAIN NoCall |-> NoCall[f]] /\ NoCall.behind = {}
      BY DEF NoCall
    <2>4. [NoCall EXCEPT !.behind = {}] = NoCall
      BY <2>2
    <2>3. QED BY <2>1, <2>2
  <1>2. /\ DOMAIN call'[k] = DOMAIN call[k]
        /\ call'[k].op = call[k].op /\ call'[k].step = call[k].step
        /\ call'[k].product = call[k].product /\ call'[k].quantity = call[k].quantity
        /\ call'[k].previous = call[k].previous /\ call'[k].here = call[k].here
        /\ call'[k].behind = call[k].behind \ {j}
    BY DEF CallTyped, NoCall
  <1>3. call[k] = NoCall => call'[k] = NoCall
    BY <1>1
  <1>4. call'[k].step = "none" <=> call'[k] = NoCall
    BY <1>2, <1>3 DEF CallTyped, NoCall
  <1>5. call'[k].op = "idle" => call'[k] = NoCall
    BY <1>2, <1>3 DEF CallTyped
  <1>6. QED
    BY <1>2, <1>4, <1>5 DEF CallTyped

\* No call is under way.
LEMMA NoCallTyped ==
  ASSUME NEW k \in Calls, call'[k] = NoCall
  PROVE  CallTyped(k)' /\ ~Acting(k)'
  BY NothingOrdered DEF CallTyped, NoCall, ItemOps, Acting

\* A call goes on: it is served, answered or waits for the fetches.
LEMMA CallMoved ==
  ASSUME NEW k \in Calls, CallTyped(k), call[k] # NoCall,
         NEW step \in {"sent", "done", "refused", "settling"}, NEW x,
         \/ call'[k] = [call[k] EXCEPT !.step = step]
         \/ call'[k] = [call[k] EXCEPT !.step = step, !.sale = x]
  PROVE  /\ CallTyped(k)'
         /\ call'[k].op = call[k].op /\ call'[k].here = call[k].here
  <1>1. /\ DOMAIN call'[k] = DOMAIN call[k]
        /\ call'[k].op = call[k].op /\ call'[k].step = step
        /\ call'[k].product = call[k].product /\ call'[k].quantity = call[k].quantity
        /\ call'[k].previous = call[k].previous /\ call'[k].here = call[k].here
        /\ call'[k].behind = call[k].behind
    BY DEF CallTyped, NoCall
  <1>2. call[k].op # "idle" /\ call'[k] # NoCall
    BY <1>1 DEF CallTyped, NoCall
  <1>3. QED BY <1>1, <1>2 DEF CallTyped

\* A call that is sent.
LEMMA CallSent ==
  ASSUME NEW k \in Calls, NEW c, call'[k] = c,
         DOMAIN c = DOMAIN NoCall, c.previous \in Account,
         c.op \in ItemOps \cup {"open", "command", "charge"}, c.step = "sent", k \notin c.behind,
         c.op \in ItemOps => c.product \in Products,
         c.op = "open" => c.product \in Products \cup {Nothing},
         c.quantity \in Nat
  PROVE  CallTyped(k)'
  <1>1. c # NoCall /\ c.op # "idle"
    BY DEF NoCall, ItemOps
  <1>2. QED BY <1>1 DEF CallTyped

\* The others stay what they are.
OthersKept(k) ==
  \A j \in Calls \ {k} : \/ call'[j] = call[j]
                         \/ call'[j] = [call[j] EXCEPT !.behind = call[j].behind \ {k}]

\* So all of them are typed when the one that changes is.
LEMMA CallsKept ==
  ASSUME CallsTyped, NEW k \in Calls, OthersKept(k), CallTyped(k)', DOMAIN call' = Calls
  PROVE  /\ CallsTyped'
         /\ \A j \in Calls \ {k} : call'[j].op = call[j].op /\ call'[j].here = call[j].here
  <1>1. ASSUME NEW j \in Calls \ {k}
        PROVE  CallTyped(j)' /\ call'[j].op = call[j].op /\ call'[j].here = call[j].here
    <2>1. CASE call'[j] = call[j]
      BY <2>1 DEF CallsTyped, CallTyped
    <2>2. CASE call'[j] = [call[j] EXCEPT !.behind = call[j].behind \ {k}]
      BY <2>2, CallTrimmed DEF CallsTyped
    <2>3. QED BY <2>1, <2>2 DEF OthersKept
  <1>2. QED BY <1>1 DEF CallsTyped

\* Calls that come back.
LEMMA ReturnsTyped ==
  ASSUME CallsTyped, NEW k \in Calls, call[k] # NoCall, NEW result \in {"done", "refused"},
         Returns(k, result)
  PROVE  /\ CallsTyped'
         /\ \A j \in Calls : call'[j].op = call[j].op /\ call'[j].here = call[j].here
  <1>1. call' = [j \in Calls |-> IF j = k THEN [call[k] EXCEPT !.step = result]
                                 ELSE [call[j] EXCEPT !.behind = call[j].behind \ {k}]]
    BY DEF Returns
  <1>2. call'[k] = [call[k] EXCEPT !.step = result] /\ OthersKept(k) /\ DOMAIN call' = Calls
    BY <1>1 DEF OthersKept
  <1>3. CallTyped(k)' /\ call'[k].op = call[k].op /\ call'[k].here = call[k].here
    BY <1>2, CallMoved DEF CallsTyped
  <1>4. QED BY <1>2, <1>3, CallsKept

\* Calls that are over.
LEMMA EndsTyped ==
  ASSUME CallsTyped, NEW k \in Calls, Ends(k)
  PROVE  /\ CallsTyped' /\ call'[k] = NoCall
         /\ \A j \in Calls \ {k} : call'[j].op = call[j].op /\ call'[j].here = call[j].here
  <1>1. call' = [j \in Calls |-> IF j = k THEN NoCall
                                 ELSE [call[j] EXCEPT !.behind = call[j].behind \ {k}]]
    BY DEF Ends
  <1>2. call'[k] = NoCall /\ OthersKept(k) /\ DOMAIN call' = Calls
    BY <1>1 DEF OthersKept
  <1>3. QED BY <1>2, NoCallTyped, CallsKept

\* Who acts alone still does when nobody else begins to.
LEMMA AloneKept ==
  ASSUME ActsAlone, UNCHANGED <<page, dialog>>,
         \A j \in Calls : Acting(j)' => Acting(j) /\ call'[j].op = call[j].op
  PROVE  ActsAlone'
  BY DEF ActsAlone

\* And there is nobody left to act.
LEMMA AloneEnded ==
  ASSUME ActsAlone, NEW k \in Calls, Acting(k), ~Acting(k)',
         \A j \in Calls \ {k} : call'[j].op = call[j].op /\ call'[j].here = call[j].here
  PROVE  /\ \A j \in Calls : ~Acting(j)'
         /\ ActsAlone'
  <1>1. \A j \in Calls \ {k} : ~Acting(j)'
    BY DEF ActsAlone, Acting
  <1>2. QED BY <1>1 DEF ActsAlone

-----------------------------------------------------------------------------
(* The point of sale keeps its types *)

\* What no step of the point of sale alters by the way.
LEMMA CountedTyped ==
  ASSUME PosTypes
  PROVE  /\ SalesTypeOK /\ CallsTyped /\ ActsAlone /\ DialogTyped /\ PullTyped
         /\ account \in Account /\ amount \in Nat /\ taps \in 0..MaxTaps /\ made \in 0..MaxLine
         /\ account.lines \in [Products -> Line]
  BY DEF PosTypes, Account

\* One more tap.
LEMMA TapCounted ==
  ASSUME PosTypes, taps < MaxTaps, taps' = taps + 1
  PROVE  (taps \in 0..MaxTaps)'
  BY TapsAssumption DEF PosTypes

\* Fetches of the account that are cancelled or asked for.
LEMMA PullSet ==
  ASSUME PullTyped, NEW step \in {"idle", "asked", "arriving"}, NEW early,
         \/ pull' = pull \/ pull' = [pull EXCEPT !.step = step]
         \/ pull' = [pull EXCEPT !.step = step, !.early = early]
         \/ pull' = [pull EXCEPT !.step = step, !.early = early, !.failed = TRUE]
  PROVE  PullTyped'
  BY DEF PullTyped, Fetched

\* The screen begins a call: no other acts.
LEMMA BeginsTyped ==
  ASSUME PosTypes, Tapping, NEW k \in Calls, NEW c, Begins(k, c), UNCHANGED <<page, dialog>>,
         DOMAIN c = DOMAIN NoCall, c.previous \in Account, c.quantity \in Nat,
         c.op \in ItemOps \cup {"open", "command", "charge"},
         c.op \in ItemOps => c.product \in Products,
         c.op = "open" => c.product \in Products \cup {Nothing} /\ dialog \in {"none", "open"},
         c.op = "charge" => dialog \in {"none", "charge"},
         c.op = "command" => dialog = "none"
  PROVE  CallsTyped' /\ ActsAlone'
  <1> DEFINE late == {j \in Waiting : call[j].step = "sent"}
             d == [c EXCEPT !.step = "sent", !.here = page = "pos", !.behind = late]
  <1>1. call[k] = NoCall /\ call' = [call EXCEPT ![k] = d]
    BY DEF Begins
  <1>2. k \notin late
    BY <1>1 DEF Waiting, Unanswered, NoCall, ItemOps
  <1>3. /\ DOMAIN d = DOMAIN NoCall /\ d.previous = c.previous /\ d.quantity = c.quantity /\ d.op = c.op
        /\ d.product = c.product /\ d.step = "sent" /\ d.behind = late
    BY DEF NoCall
  <1> HIDE DEF late, d
  <1>4. DOMAIN call = Calls /\ call'[k] = d /\ DOMAIN call' = Calls /\ \A j \in Calls \ {k} : call'[j] = call[j]
    BY <1>1 DEF PosTypes, CallsTyped
  <1>5. CallTyped(k)'
    BY <1>2, <1>3, <1>4, CallSent
  <1>6. CallsTyped'
    BY <1>4, <1>5, CallsKept DEF OthersKept, PosTypes
  <1>7. page = "pos" /\ \A j \in Calls : ~Acting(j)
    BY DEF Tapping, AtPos, Mutating, Acting
  <1>8. \A j \in Calls \ {k} : ~Acting(j)'
    BY <1>4, <1>7 DEF Acting
  <1>9. ActsAlone'
    BY <1>3, <1>4, <1>7, <1>8 DEF ActsAlone, Acting
  <1>10. QED BY <1>6, <1>9

\* A line that is added or changed on the screen before the server answers.
LEMMA OptimisticTyped ==
  ASSUME PosTypes, Tapping, NEW k \in Calls, NEW c, NEW lines \in [Products -> Line], NEW p, NEW n,
         Optimistically(k, c, lines, p, n), UNCHANGED <<page, dialog>>,
         DOMAIN c = DOMAIN NoCall, c.quantity \in Nat, c.op \in ItemOps, c.product \in Products
  PROVE  CallsTyped' /\ ActsAlone' /\ PullTyped' /\ (account \in Account)'
  <1> DEFINE d == [c EXCEPT !.previous = account]
  <1>1. /\ Begins(k, d) /\ pull' = [pull EXCEPT !.step = "idle", !.early = FALSE]
        /\ account' = IF account.sale = c.sale THEN [account EXCEPT !.lines = lines] ELSE account
    BY DEF Optimistically, Cancelled
  <1>2. /\ DOMAIN d = DOMAIN NoCall /\ d.previous \in Account /\ d.quantity \in Nat /\ d.op = c.op
        /\ d.product = c.product
    BY CountedTyped DEF NoCall
  <1>3. c.op \notin {"open", "charge", "command"}
    BY DEF ItemOps
  <1> HIDE DEF d
  <1>4. CallsTyped' /\ ActsAlone'
    BY <1>1, <1>2, <1>3, BeginsTyped
  <1>5. PullTyped'
    BY <1>1, PullSet, CountedTyped
  <1>6. (account \in Account)'
    BY <1>1, CountedTyped DEF Account
  <1>7. QED BY <1>4, <1>5, <1>6

\* The waiter taps a product, or changes a line.
LEMMA TapsTyped ==
  ASSUME PosTypes, NEW k \in Calls, NEW p \in Products,
         Tap(k, p) \/ \E n \in 0..MaxQuantity : ChangeQuantity(k, p, n)
  PROVE  PosTypes'
  <1>1. /\ Tapping /\ dialog = "none" /\ UNCHANGED <<floorVars, sale, made, amount>>
        /\ taps < MaxTaps /\ taps' = taps + 1
    BY DEF Tap, ChangeQuantity, Tapping
  <1>2. (SalesTypeOK /\ made \in 0..MaxLine /\ amount \in Nat)'
    BY <1>1, CountedTyped DEF SalesTypeOK, Drafts, Has
  <1>3. (taps \in 0..MaxTaps)'
    BY <1>1, TapCounted
  <1>4. page' = page /\ page = "pos"
    BY <1>1 DEF floorVars, Tapping, AtPos
  <1>5. ASSUME NEW c, NEW n \in Nat, NEW lines \in [Products -> Line],
               Optimistically(k, c, lines, p, n), UNCHANGED <<dialog, pending>>,
               DOMAIN c = DOMAIN NoCall, c.quantity \in Nat, c.op \in ItemOps, c.product \in Products
        PROVE  PosTypes'
    <2>1. CallsTyped' /\ ActsAlone' /\ PullTyped' /\ (account \in Account)'
      BY <1>1, <1>4, <1>5, OptimisticTyped
    <2>2. DialogTyped'
      BY <1>4, <1>5, CountedTyped DEF DialogTyped
    <2>3. QED BY <1>2, <1>3, <2>1, <2>2 DEF PosTypes
  <1>6. CASE Tap(k, p) /\ account.sale # NoId
    <2> DEFINE n == account.lines[p].quantity + 1
               c == [NoCall EXCEPT !.op = "add", !.sale = account.sale, !.product = p]
               lines == WithQuantity(account.lines, p, n)
    <2>1. Optimistically(k, c, lines, p, n) /\ UNCHANGED <<dialog, pending>>
      BY <1>6 DEF Tap, Adds
    <2>2. n \in Nat
      BY CountedTyped DEF Line
    <2>3. lines \in [Products -> Line]
      <3> HIDE DEF n
      <3>1. QED BY <2>2, CountedTyped, QuantityTyped
    <2>4. DOMAIN c = DOMAIN NoCall /\ c.quantity \in Nat /\ c.op \in ItemOps /\ c.product \in Products
      BY DEF NoCall, ItemOps
    <2> HIDE DEF n, c, lines
    <2>5. QED BY <1>5, <2>1, <2>2, <2>3, <2>4
  <1>7. CASE Tap(k, p) /\ account.sale = NoId
    <2>1. dialog' = "open" /\ pending' = p /\ UNCHANGED <<call, pull, account>>
      BY <1>7 DEF Tap
    <2>2. CallsTyped' /\ PullTyped' /\ (account \in Account)'
      BY <2>1, CountedTyped DEF CallsTyped, CallTyped, PullTyped
    <2>3. \A j \in Calls : ~Acting(j)'
      BY <1>1, <2>1 DEF Tapping, Mutating, Acting
    <2>4. ActsAlone' /\ DialogTyped'
      BY <1>4, <2>1, <2>3 DEF ActsAlone, DialogTyped
    <2>5. QED BY <1>2, <1>3, <2>2, <2>4 DEF PosTypes
  <1>8. ASSUME NEW n \in 0..MaxQuantity, ChangeQuantity(k, p, n)
        PROVE  PosTypes'
    <2> DEFINE c == [NoCall EXCEPT !.op = "change", !.sale = account.sale, !.product = p,
                                   !.line = account.lines[p].id, !.quantity = n]
               lines == WithQuantity(account.lines, p, n)
    <2>1. Optimistically(k, c, lines, p, n) /\ UNCHANGED <<dialog, pending>>
      BY <1>8 DEF ChangeQuantity
    <2>2. n \in Nat
      BY TapsAssumption
    <2>3. lines \in [Products -> Line]
      BY <2>2, CountedTyped, QuantityTyped
    <2>4. DOMAIN c = DOMAIN NoCall /\ c.quantity \in Nat /\ c.op \in ItemOps /\ c.product \in Products
      BY <2>2 DEF NoCall, ItemOps
    <2> HIDE DEF c, lines
    <2>5. QED BY <1>5, <2>1, <2>2, <2>3, <2>4
  <1>9. QED BY <1>6, <1>7, <1>8

\* What a step leaves alone is typed as before.
LEMMA PartsStay ==
  ASSUME PosTypes
  PROVE  /\ sale' = sale => SalesTypeOK'
         /\ call' = call => CallsTyped'
         /\ pull' = pull => PullTyped'
         /\ account' = account => (account \in Account)'
         /\ amount' = amount => (amount \in Nat)'
         /\ taps' = taps => (taps \in 0..MaxTaps)'
         /\ made' = made => (made \in 0..MaxLine)'
         /\ UNCHANGED <<page, dialog, pending>> => DialogTyped'
         /\ UNCHANGED <<page, dialog, call>> => ActsAlone'
  <1>1. sale' = sale => SalesTypeOK'
    BY DEF PosTypes, SalesTypeOK, Drafts, Has
  <1>2. call' = call => CallsTyped'
    BY DEF PosTypes, CallsTyped, CallTyped
  <1>3. pull' = pull => PullTyped'
    BY DEF PosTypes, PullTyped
  <1>4. UNCHANGED <<page, dialog, pending>> => DialogTyped'
    BY DEF PosTypes, DialogTyped
  <1>5. UNCHANGED <<page, dialog, call>> => ActsAlone'
    BY DEF PosTypes, ActsAlone, Acting
  <1>6. QED BY <1>1, <1>2, <1>3, <1>4, <1>5 DEF PosTypes

\* The dialog of the charge, and the others when they are closed.
LEMMA DialogsTyped ==
  ASSUME PosTypes, OpenCharge \/ TypeAmount \/ CloseDialog
  PROVE  PosTypes'
  <1>1. UNCHANGED <<page, sale, made, account, pull, call>>
    BY DEF OpenCharge, TypeAmount, CloseDialog, floorVars
  <1>2. (SalesTypeOK /\ CallsTyped /\ PullTyped /\ account \in Account /\ made \in 0..MaxLine)'
    BY <1>1, PartsStay
  <1>3. CASE OpenCharge
    <2>1. /\ Tapping /\ dialog = "none" /\ dialog' \in {"charge", "cash"} /\ pending' = pending
          /\ taps < MaxTaps /\ taps' = taps + 1
          /\ amount' = IF dialog' = "charge" THEN Balance(account.lines) ELSE amount
      BY <1>3 DEF OpenCharge, Tapping
    <2>2. (amount \in Nat)' /\ (taps \in 0..MaxTaps)'
      BY <2>1, CountedTyped, BalanceTyped, TapCounted
    <2>3. page = "pos" /\ \A j \in Calls : ~Acting(j)
      BY <2>1 DEF Tapping, AtPos, Mutating, Acting
    <2>4. ActsAlone'
      BY <1>1, <2>3 DEF ActsAlone, Acting
    <2>5. DialogTyped'
      BY <1>1, <2>1, <2>3, CountedTyped DEF DialogTyped
    <2>6. QED BY <1>2, <2>2, <2>4, <2>5 DEF PosTypes
  <1>4. CASE TypeAmount
    <2>1. UNCHANGED <<dialog, pending>> /\ amount' = amount + 1 /\ taps < MaxTaps /\ taps' = taps + 1
      BY <1>4 DEF TypeAmount, Tapping
    <2>2. (amount \in Nat)' /\ (taps \in 0..MaxTaps)' /\ ActsAlone' /\ DialogTyped'
      BY <1>1, <2>1, CountedTyped, TapCounted, PartsStay
    <2>3. QED BY <1>2, <2>2 DEF PosTypes
  <1>5. CASE CloseDialog
    <2>1. dialog' = "none" /\ pending' = Nothing /\ UNCHANGED <<amount, taps>>
      BY <1>5 DEF CloseDialog
    <2>2. (amount \in Nat)' /\ (taps \in 0..MaxTaps)'
      BY <2>1, PartsStay
    <2>3. ActsAlone' /\ DialogTyped'
      BY <1>1, <2>1, CountedTyped DEF ActsAlone, Acting, DialogTyped
    <2>4. QED BY <1>2, <2>2, <2>3 DEF PosTypes
  <1>6. QED BY <1>3, <1>4, <1>5

\* Another page: nobody acts any more, and no dialog is open.
LEMMA TurnsTyped ==
  ASSUME PosTypes, NEW p \in {"floor", "tables", "pos"}, Turns(p),
         (taps \in 0..MaxTaps)'
  PROVE  PosTypes'
  <1>1. /\ page' = p /\ dialog' = "none" /\ pending' = Nothing
        /\ UNCHANGED <<sale, made, account, amount>>
        /\ pull' = pull \/ pull' = [pull EXCEPT !.step = "asked"]
        /\ call' = [k \in Calls |-> [call[k] EXCEPT !.here = FALSE]]
    BY DEF Turns, GoTo
  <1>2. (SalesTypeOK /\ account \in Account /\ made \in 0..MaxLine /\ amount \in Nat)'
    BY <1>1, PartsStay
  <1>3. PullTyped'
    BY <1>1, PullSet, CountedTyped
  <1>4. [NoCall EXCEPT !.here = FALSE] = NoCall
    <2>1. NoCall = [f \in DOMAIN NoCall |-> NoCall[f]] /\ NoCall.here = FALSE
      BY DEF NoCall
    <2>2. QED BY <2>1
  <1>5. ASSUME NEW k \in Calls
        PROVE  CallTyped(k)' /\ ~Acting(k)'
    <2>1. CallTyped(k) /\ call'[k] = [call[k] EXCEPT !.here = FALSE]
      BY <1>1, CountedTyped DEF CallsTyped
    <2>2. /\ DOMAIN call'[k] = DOMAIN call[k]
          /\ call'[k].op = call[k].op /\ call'[k].step = call[k].step
          /\ call'[k].product = call[k].product /\ call'[k].quantity = call[k].quantity
          /\ call'[k].previous = call[k].previous /\ call'[k].behind = call[k].behind
          /\ call'[k].here = FALSE
      BY <2>1 DEF CallTyped, NoCall
    <2>3. call[k] = NoCall => call'[k] = NoCall
      BY <1>4, <2>1
    <2>4. /\ call'[k].step = "none" <=> call'[k] = NoCall
          /\ call'[k].op = "idle" => call'[k] = NoCall
      BY <2>1, <2>2, <2>3 DEF CallTyped, NoCall
    <2>5. QED BY <2>1, <2>2, <2>4 DEF CallTyped, Acting
  <1>6. CallsTyped' /\ ActsAlone'
    BY <1>1, <1>5 DEF CallsTyped, ActsAlone
  <1>7. DialogTyped'
    BY <1>1 DEF DialogTyped
  <1>8. QED BY <1>2, <1>3, <1>6, <1>7 DEF PosTypes

\* The waiter goes to another page.
LEMMA VisitsTyped ==
  ASSUME PosTypes, CloseReceipt \/ \E p \in {"floor", "tables", "pos"} : Visit(p)
  PROVE  PosTypes'
  <1>1. PICK p \in {"floor", "tables", "pos"} : Turns(p) /\ taps' = taps
    BY DEF CloseReceipt, Visit
  <1>2. QED BY <1>1, PartsStay, TurnsTyped

\* The amount of the charge when the account changes.
LEMMA AmountTyped ==
  ASSUME PosTypes, NEW lines \in [Products -> Line]
  PROVE  AmountAfter(lines) \in Nat
  BY CountedTyped, BalanceTyped DEF AmountAfter

\* The account is fetched.
LEMMA PullsTyped ==
  ASSUME PosTypes, PullReads \/ PullArrives \/ PullFails
  PROVE  PosTypes'
  <1>1. UNCHANGED <<page, sale, made, call, dialog, pending, taps>>
    BY DEF PullReads, PullArrives, PullFails, floorVars
  <1>2. /\ SalesTypeOK' /\ CallsTyped' /\ ActsAlone' /\ DialogTyped'
        /\ (made \in 0..MaxLine)' /\ (taps \in 0..MaxTaps)'
    BY <1>1, PartsStay
  <1>3. CASE PullReads
    <2>1. /\ UNCHANGED <<account, amount>>
          /\ pull' = [pull EXCEPT !.step = "arriving", !.data = Current,
                                  !.early = \E k \in Waiting : call[k].step = "sent"]
      BY <1>3 DEF PullReads
    <2>2. Current \in Account
      BY CountedTyped, CurrentTyped
    <2>3. PullTyped'
      BY <2>1, <2>2, CountedTyped DEF PullTyped, Fetched
    <2>4. (account \in Account)' /\ (amount \in Nat)'
      BY <2>1, PartsStay
    <2>5. QED BY <1>2, <2>3, <2>4 DEF PosTypes
  <1>4. CASE PullArrives
    <2>1. /\ account' = pull.data /\ amount' = AmountAfter(pull.data.lines)
          /\ pull' = [Fetched EXCEPT !.mixed = pull.early]
      BY <1>4 DEF PullArrives
    <2>2. pull.data \in Account /\ pull.data.lines \in [Products -> Line]
      BY CountedTyped DEF PullTyped, Account
    <2>3. (account \in Account)' /\ (amount \in Nat)'
      BY <2>1, <2>2, AmountTyped
    <2>4. PullTyped'
      BY <2>1, NothingOrdered DEF PullTyped, Fetched
    <2>5. QED BY <1>2, <2>3, <2>4 DEF PosTypes
  <1>5. CASE PullFails
    <2>1. /\ UNCHANGED <<account, amount>>
          /\ pull' = [pull EXCEPT !.step = "idle", !.early = FALSE, !.failed = TRUE]
      BY <1>5 DEF PullFails
    <2>2. PullTyped'
      BY <2>1, PullSet, CountedTyped
    <2>3. (account \in Account)' /\ (amount \in Nat)'
      BY <2>1, PartsStay
    <2>4. QED BY <1>2, <2>2, <2>3 DEF PosTypes
  <1>6. QED BY <1>3, <1>4, <1>5

\* Calls that the screen begins, but for those that change a line.
LEMMA SubmitsTyped ==
  ASSUME PosTypes, NEW k \in Calls, SubmitOpen(k) \/ Command(k) \/ SubmitCharge(k)
  PROVE  PosTypes'
  <1>1. /\ Tapping /\ UNCHANGED <<page, sale, made, account, pull, dialog, pending, amount>>
        /\ taps < MaxTaps /\ taps' = taps + 1
    BY DEF SubmitOpen, Command, SubmitCharge, Tapping, floorVars
  <1>2. /\ SalesTypeOK' /\ PullTyped' /\ DialogTyped'
        /\ (account \in Account)' /\ (amount \in Nat)' /\ (made \in 0..MaxLine)'
    BY <1>1, PartsStay
  <1>3. (taps \in 0..MaxTaps)'
    BY <1>1, TapCounted
  <1>4. CallsTyped' /\ ActsAlone'
    <2>1. CASE SubmitOpen(k)
      <3> DEFINE c == [NoCall EXCEPT !.op = "open", !.product = pending]
      <3>1. Begins(k, c) /\ dialog \in {"none", "open"}
        BY <2>1 DEF SubmitOpen
      <3>2. /\ DOMAIN c = DOMAIN NoCall /\ c.previous \in Account /\ c.quantity \in Nat /\ c.op = "open"
            /\ c.product \in Products \cup {Nothing}
        BY NothingOrdered, CountedTyped DEF NoCall, DialogTyped
      <3> HIDE DEF c
      <3>3. QED BY <1>1, <3>1, <3>2, BeginsTyped DEF ItemOps
    <2>2. CASE Command(k)
      <3> DEFINE c == [NoCall EXCEPT !.op = "command", !.sale = account.sale]
      <3>1. Begins(k, c) /\ dialog = "none"
        BY <2>2 DEF Command
      <3>2. DOMAIN c = DOMAIN NoCall /\ c.previous \in Account /\ c.quantity \in Nat /\ c.op = "command"
        BY NothingOrdered DEF NoCall
      <3> HIDE DEF c
      <3>3. QED BY <1>1, <3>1, <3>2, BeginsTyped DEF ItemOps
    <2>3. CASE SubmitCharge(k)
      <3> DEFINE c == [NoCall EXCEPT !.op = "charge", !.sale = account.sale, !.amount = amount]
      <3>1. Begins(k, c) /\ dialog = "charge"
        BY <2>3 DEF SubmitCharge
      <3>2. DOMAIN c = DOMAIN NoCall /\ c.previous \in Account /\ c.quantity \in Nat /\ c.op = "charge"
        BY NothingOrdered DEF NoCall
      <3> HIDE DEF c
      <3>3. QED BY <1>1, <3>1, <3>2, BeginsTyped DEF ItemOps
    <2>4. QED BY <2>1, <2>2, <2>3
  <1>5. QED BY <1>2, <1>3, <1>4 DEF PosTypes

\* A step of the API: the screen knows nothing of it yet.
LEMMA ServesStay ==
  ASSUME PosTypes, UNCHANGED <<page, account, pull, dialog, pending, amount, taps>>,
         SalesTypeOK', CallsTyped', (made \in 0..MaxLine)',
         \A j \in Calls : call'[j].op = call[j].op /\ call'[j].here = call[j].here
  PROVE  PosTypes'
  <1>1. /\ PullTyped' /\ DialogTyped' /\ (account \in Account)' /\ (amount \in Nat)'
        /\ (taps \in 0..MaxTaps)'
    BY PartsStay
  <1>2. ActsAlone'
    BY AloneKept, CountedTyped DEF Acting
  <1>3. QED BY <1>1, <1>2 DEF PosTypes

\* An account is opened, or is open already.
LEMMA OpensTyped ==
  ASSUME PosTypes, NEW k \in Calls, ServeOpen(k)
  PROVE  PosTypes'
  <1>1. /\ call[k].op = "open" /\ call[k].step = "sent" /\ made' = made
        /\ UNCHANGED <<page, account, pull, dialog, pending, amount, taps>>
    BY DEF ServeOpen, Sent, Untouched
  <1>2. /\ SalesTypeOK'
        /\ \E x : call' = [call EXCEPT ![k] = [@ EXCEPT !.step = "done", !.sale = x]]
    <2>1. CASE Drafts # {}
      BY <2>1, PartsStay DEF ServeOpen
    <2>2. CASE Drafts = {}
      <3>1. PICK x \in Sales : /\ sale' = [sale EXCEPT ![x].status = "DRAFT"]
                               /\ call' = [call EXCEPT ![k] = [@ EXCEPT !.step = "done", !.sale = x]]
        BY <2>2 DEF ServeOpen
      <3>2. SalesTypeOK'
        BY <2>2, <3>1, StatusWritten, CountedTyped
      <3>3. QED BY <3>1, <3>2
    <2>3. QED BY <2>1, <2>2
  <1>3. PICK x : call' = [call EXCEPT ![k] = [@ EXCEPT !.step = "done", !.sale = x]]
    BY <1>2
  <1>4. CallsTyped /\ DOMAIN call = Calls /\ CallTyped(k) /\ call[k] # NoCall
    BY <1>1, CountedTyped DEF CallsTyped, NoCall
  <1>5. /\ call'[k] = [call[k] EXCEPT !.step = "done", !.sale = x]
        /\ OthersKept(k) /\ DOMAIN call' = Calls
    BY <1>3, <1>4 DEF OthersKept
  <1>6. CallTyped(k)' /\ call'[k].op = call[k].op /\ call'[k].here = call[k].here
    BY <1>4, <1>5, CallMoved
  <1>7. CallsTyped' /\ \A j \in Calls : call'[j].op = call[j].op /\ call'[j].here = call[j].here
    BY <1>4, <1>5, <1>6, CallsKept
  <1>8. (made \in 0..MaxLine)'
    BY <1>1, PartsStay
  <1>9. QED BY <1>1, <1>2, <1>7, <1>8, ServesStay

\* A line is written: a new one gets an id, and one without a quantity has none.
LEMMA ItemsTyped ==
  ASSUME PosTypes, NEW k \in Calls, ServeAdd(k) \/ ServeChange(k)
  PROVE  PosTypes'
  <1> DEFINE x == call[k].sale
             p == call[k].product
  <1>1. /\ Returns(k, "done") /\ x \in Drafts /\ call[k].op \in ItemOps
        /\ UNCHANGED <<page, account, pull, dialog, pending, amount, taps>>
    BY DEF ServeAdd, ServeChange, Sent, ItemOps, Untouched, RoomUntouched, floorVars
  <1>2. /\ x \in Sales /\ p \in Products /\ call[k] # NoCall /\ call[k].quantity \in Nat
        /\ sale[x].lines \in [Products -> Line] /\ sale[x].lines[p] \in Line
        /\ Has(sale[x].lines, p) <=> sale[x].lines[p].id # Optimistic
        /\ CallsTyped /\ SalesTypeOK
    BY <1>1, CountedTyped DEF Drafts, CallsTyped, CallTyped, SalesTypeOK, NoCall, ItemOps
  <1> HIDE DEF x, p
  <1>3. CallsTyped' /\ \A j \in Calls : call'[j].op = call[j].op /\ call'[j].here = call[j].here
    BY <1>1, <1>2, ReturnsTyped
  <1>4. CASE ServeAdd(k)
    <2> DEFINE old == sale[x].lines[p]
               new == [id |-> IF Has(sale[x].lines, p) THEN old.id ELSE made + 1,
                       quantity |-> old.quantity + 1]
    <2>1. /\ sale' = [sale EXCEPT ![x].lines[p] = new] /\ made < MaxLine
          /\ made' = IF new.id = old.id THEN made ELSE made + 1
      BY <1>4 DEF ServeAdd, x, p
    <2>2. made \in 0..MaxLine
      BY CountedTyped
    <2>3. (made \in 0..MaxLine)'
      BY <2>1, <2>2, TapsAssumption
    <2>4. new.id \in 0..MaxLine /\ new.id # 0 /\ new.quantity \in Nat /\ new.quantity > 0
      BY <1>2, <2>1, <2>2, TapsAssumption DEF Line, Optimistic
    <2>5. new \in Line /\ (new.quantity > 0 <=> new.id # Optimistic)
      BY <2>4 DEF Line, Optimistic
    <2> HIDE DEF new
    <2>6. SalesTypeOK'
      BY <1>1, <1>2, <2>1, <2>5, LineWritten
    <2>7. QED BY <1>1, <1>3, <2>3, <2>6, ServesStay
  <1>5. CASE ServeChange(k)
    <2> DEFINE lines == WithQuantity(sale[x].lines, p, call[k].quantity)
    <2>1. sale' = [sale EXCEPT ![x].lines = lines] /\ made' = made /\ Has(sale[x].lines, p)
      BY <1>5 DEF ServeChange, x, p
    <2>2. lines \in [Products -> Line]
      BY <1>2, QuantityTyped
    <2>3. \A q \in Products : Has(lines, q) <=> lines[q].id # Optimistic
      BY <1>2, <2>1 DEF WithQuantity, NoLine, Has, Line, SalesTypeOK, Optimistic
    <2> HIDE DEF lines
    <2>4. SalesTypeOK'
      BY <1>1, <1>2, <2>1, <2>2, <2>3, LinesWritten
    <2>5. (made \in 0..MaxLine)'
      BY <2>1, PartsStay
    <2>6. QED BY <1>1, <1>3, <2>4, <2>5, ServesStay
  <1>6. QED BY <1>4, <1>5

\* The other calls: an account is charged, a comanda printed, a call refused or lost.
LEMMA OthersServedTyped ==
  ASSUME PosTypes, NEW k \in Calls, ServeCharge(k) \/ ServeCommand(k) \/ ServeRefused(k) \/ CallFails(k)
  PROVE  PosTypes'
  <1>1. /\ \E result \in {"done", "refused"} : Returns(k, result)
        /\ call[k].step \in {"sent", "done"} /\ made' = made
        /\ UNCHANGED <<page, account, pull, dialog, pending, amount, taps>>
    BY DEF ServeCharge, ServeCommand, ServeRefused, CallFails, Sent, Untouched, RoomUntouched, floorVars
  <1>2. call[k] # NoCall /\ CallsTyped /\ SalesTypeOK
    BY <1>1, CountedTyped DEF NoCall
  <1>3. CallsTyped' /\ \A j \in Calls : call'[j].op = call[j].op /\ call'[j].here = call[j].here
    BY <1>1, <1>2, ReturnsTyped
  <1>4. SalesTypeOK'
    <2>1. CASE ServeCharge(k)
      <3>1. call[k].sale \in Sales /\ sale' = [sale EXCEPT ![call[k].sale].status = "CLOSED"]
        BY <2>1 DEF ServeCharge, Drafts
      <3>2. QED BY <1>2, <3>1, StatusWritten
    <2>2. CASE ~ServeCharge(k)
      BY <2>2, PartsStay DEF ServeCommand, ServeRefused, CallFails
    <2>3. QED BY <2>1, <2>2
  <1>5. (made \in 0..MaxLine)'
    BY <1>1, PartsStay
  <1>6. QED BY <1>1, <1>3, <1>4, <1>5, ServesStay

\* Another waiter orders, charges or opens.
LEMMA WaiterTyped ==
  ASSUME PosTypes, OtherWaiter
  PROVE  PosTypes'
  <1>1. UNCHANGED <<page, account, pull, dialog, pending, amount, taps, call, made>>
    BY DEF OtherWaiter, Untouched
  <1>2. SalesTypeOK
    BY CountedTyped
  <1>3. SalesTypeOK'
    <2>1. ASSUME NEW x \in Drafts, NEW p \in Products, Has(sale[x].lines, p),
                 sale' = [sale EXCEPT ![x].lines[p].quantity = @ + 1]
          PROVE  SalesTypeOK'
      <3> DEFINE line == [sale[x].lines[p] EXCEPT !.quantity = sale[x].lines[p].quantity + 1]
      <3>1. /\ x \in Sales /\ sale[x].lines[p] \in Line /\ sale[x].lines[p].id # Optimistic
        BY <1>2, <2>1 DEF Drafts, SalesTypeOK
      <3>2. line \in Line /\ line.quantity > 0 /\ line.id # Optimistic
        BY <3>1 DEF Line
      <3>3. sale' = [sale EXCEPT ![x].lines[p] = line]
        BY <2>1
      <3> HIDE DEF line
      <3>4. QED BY <1>2, <3>1, <3>2, <3>3, LineWritten
    <2>2. ASSUME NEW x \in Drafts, sale' = [sale EXCEPT ![x].status = "CLOSED"]
          PROVE  SalesTypeOK'
      BY <1>2, <2>2, StatusWritten DEF Drafts
    <2>3. ASSUME NEW x \in Sales, Drafts = {}, sale' = [sale EXCEPT ![x].status = "DRAFT"]
          PROVE  SalesTypeOK'
      BY <1>2, <2>3, StatusWritten
    <2>4. QED BY <2>1, <2>2, <2>3 DEF OtherWaiter
  <1>4. CallsTyped' /\ (made \in 0..MaxLine)'
    BY <1>1, PartsStay
  <1>5. QED BY <1>1, <1>3, <1>4, ServesStay

\* The answer to a change of a line: the screen goes back, or stays.
LEMMA ItemAnswered ==
  ASSUME PosTypes, NEW k \in Calls, AnswerItem(k)
  PROVE  PosTypes'
  <1>1. /\ call[k].op \in ItemOps /\ Ends(k) /\ UNCHANGED <<page, sale, made, dialog, pending, taps>>
        /\ account' = call[k].previous \/ account' = account
        /\ amount' = AmountAfter(account'.lines)
        /\ pull' = pull \/ pull' = [pull EXCEPT !.step = "asked", !.early = FALSE]
    BY DEF AnswerItem, Invalidates
  <1>2. CallsTyped /\ call[k].previous \in Account /\ ~Acting(k)
    BY <1>1, CountedTyped DEF CallsTyped, CallTyped, Acting, ItemOps
  <1>3. (account \in Account)'
    BY <1>1, <1>2, CountedTyped
  <1>4. (amount \in Nat)'
    <2>1. account'.lines \in [Products -> Line]
      BY <1>3 DEF Account
    <2>2. QED BY <1>1, <2>1, AmountTyped
  <1>5. /\ CallsTyped' /\ call'[k] = NoCall
        /\ \A j \in Calls \ {k} : call'[j].op = call[j].op /\ call'[j].here = call[j].here
    BY <1>1, <1>2, EndsTyped
  <1>6. ActsAlone'
    BY <1>1, <1>5, AloneKept, NoCallTyped, CountedTyped DEF Acting
  <1>7. PullTyped'
    BY <1>1, PullSet, CountedTyped
  <1>8. /\ SalesTypeOK' /\ DialogTyped' /\ (taps \in 0..MaxTaps)' /\ (made \in 0..MaxLine)'
    BY <1>1, PartsStay
  <1>9. QED BY <1>3, <1>4, <1>5, <1>6, <1>7, <1>8 DEF PosTypes

\* The answer that an account is open or charged: the fetches come first.
LEMMA AccountAnswered ==
  ASSUME PosTypes, NEW k \in Calls, AnswerAccount(k)
  PROVE  PosTypes'
  <1>1. /\ call[k].step = "done" /\ call' = [call EXCEPT ![k].step = "settling"]
        /\ UNCHANGED <<page, sale, made, account, dialog, pending, amount, taps>>
        /\ pull' = pull \/ pull' = [pull EXCEPT !.step = "asked", !.early = FALSE]
    BY DEF AnswerAccount, Invalidates
  <1>2. CallsTyped /\ DOMAIN call = Calls /\ CallTyped(k) /\ call[k] # NoCall
    BY <1>1, CountedTyped DEF CallsTyped, NoCall
  <1>3. call'[k] = [call[k] EXCEPT !.step = "settling"] /\ OthersKept(k) /\ DOMAIN call' = Calls
    BY <1>1, <1>2 DEF OthersKept
  <1>4. CallTyped(k)' /\ call'[k].op = call[k].op /\ call'[k].here = call[k].here
    BY <1>2, <1>3, CallMoved
  <1>5. CallsTyped' /\ \A j \in Calls : call'[j].op = call[j].op /\ call'[j].here = call[j].here
    BY <1>2, <1>3, <1>4, CallsKept
  <1>6. ActsAlone'
    BY <1>1, <1>5, AloneKept, CountedTyped DEF Acting
  <1>7. PullTyped'
    BY <1>1, PullSet, CountedTyped
  <1>8. /\ SalesTypeOK' /\ DialogTyped' /\ (taps \in 0..MaxTaps)' /\ (made \in 0..MaxLine)'
        /\ (account \in Account)' /\ (amount \in Nat)'
    BY <1>1, PartsStay
  <1>9. QED BY <1>5, <1>6, <1>7, <1>8 DEF PosTypes

\* What a handler sets, it sets on the screen it was started from.
LEMMA ShownTyped ==
  ASSUME PosTypes, NEW k \in Calls, call[k].op \in {"open", "charge", "command"}, page' = page,
         NEW d \in {"none", "receipt", "command"}, dialog' = Shows(k, d),
         pending' = IF call[k].here THEN Nothing ELSE pending,
         ~Acting(k)',
         \A j \in Calls \ {k} : call'[j].op = call[j].op /\ call'[j].here = call[j].here
  PROVE  DialogTyped' /\ ActsAlone'
  <1>1. CASE call[k].here
    <2>1. Acting(k) /\ page = "pos"
      BY <1>1, CountedTyped DEF Acting, ActsAlone
    <2>2. ActsAlone'
      BY <2>1, AloneEnded, CountedTyped
    <2>3. dialog' = d
      BY <1>1 DEF Shows
    <2>4. pending' = Nothing
      BY <1>1
    <2>5. QED BY <2>1, <2>2, <2>3, <2>4 DEF DialogTyped
  <1>2. CASE ~call[k].here
    <2>1. dialog' = dialog /\ pending' = pending
      BY <1>2 DEF Shows
    <2>2. DialogTyped'
      BY <2>1, PartsStay
    <2>3. \A j \in Calls : Acting(j)' => Acting(j) /\ call'[j].op = call[j].op
      BY DEF Acting
    <2>4. QED BY <2>1, <2>2, <2>3, AloneKept, CountedTyped
  <1>3. QED BY <1>1, <1>2


\* The dialog of the charge gives way to the receipt, and that of the comanda opens.
LEMMA DialogAnswered ==
  ASSUME PosTypes, NEW k \in Calls, ChargeSettled(k) \/ AnswerCommand(k)
  PROVE  PosTypes'
  <1>1. /\ Ends(k) /\ call[k].op \in {"charge", "command"} /\ pending' = pending
        /\ UNCHANGED <<page, sale, made, account, pull, amount, taps>>
    BY DEF ChargeSettled, Settled, AnswerCommand, floorVars
  <1>2. call[k].here => /\ Acting(k) /\ pending = Nothing
                        /\ call[k].op = "command" => dialog = "none"
    BY <1>1, CountedTyped DEF Acting, ActsAlone, DialogTyped
  <1>3. PICK d \in {"receipt", "command"} : dialog' = Shows(k, d)
    BY <1>2 DEF ChargeSettled, Settled, AnswerCommand, Shows
  <1>4. /\ CallsTyped' /\ call'[k] = NoCall
        /\ \A j \in Calls \ {k} : call'[j].op = call[j].op /\ call'[j].here = call[j].here
    BY <1>1, EndsTyped, CountedTyped
  <1>5. ~Acting(k)'
    BY <1>4, NoCallTyped
  <1>6. DialogTyped' /\ ActsAlone'
    BY <1>1, <1>2, <1>3, <1>4, <1>5, ShownTyped
  <1>7. /\ SalesTypeOK' /\ PullTyped' /\ (taps \in 0..MaxTaps)' /\ (made \in 0..MaxLine)'
        /\ (account \in Account)' /\ (amount \in Nat)'
    BY <1>1, PartsStay
  <1>8. QED BY <1>4, <1>6, <1>7 DEF PosTypes

\* An error: the dialog stays.
LEMMA RefusalAnswered ==
  ASSUME PosTypes, NEW k \in Calls, AnswerRefusal(k)
  PROVE  PosTypes'
  <1>1. /\ Ends(k) /\ UNCHANGED <<page, sale, made, account, pull, dialog, pending, amount, taps>>
    BY DEF AnswerRefusal, floorVars
  <1>2. /\ CallsTyped' /\ call'[k] = NoCall
        /\ \A j \in Calls \ {k} : call'[j].op = call[j].op /\ call'[j].here = call[j].here
    BY <1>1, EndsTyped, CountedTyped
  <1>3. ActsAlone'
    BY <1>1, <1>2, AloneKept, NoCallTyped, CountedTyped DEF Acting
  <1>4. /\ SalesTypeOK' /\ PullTyped' /\ DialogTyped' /\ (taps \in 0..MaxTaps)'
        /\ (made \in 0..MaxLine)' /\ (account \in Account)' /\ (amount \in Nat)'
    BY <1>1, PartsStay
  <1>5. QED BY <1>2, <1>3, <1>4 DEF PosTypes

\* The product that waited is ordered on the account that was opened.
LEMMA OpenAnswered ==
  ASSUME PosTypes, NEW k \in Calls, OpenSettled(k)
  PROVE  PosTypes'
  <1> DEFINE c == call[k]
             n == account.lines[c.product].quantity + 1
  <1>1. /\ c.op = "open" /\ dialog' = Shows(k, "none")
        /\ pending' = IF c.here THEN Nothing ELSE pending
        /\ UNCHANGED <<page, sale, made, amount, taps>>
    BY DEF OpenSettled, Settled, floorVars
  <1>2. /\ SalesTypeOK' /\ (taps \in 0..MaxTaps)' /\ (made \in 0..MaxLine)' /\ (amount \in Nat)'
    BY <1>1, PartsStay
  <1>3. CallsTyped /\ DOMAIN call = Calls /\ c.product \in Products \cup {Nothing}
    BY <1>1, CountedTyped DEF CallsTyped, CallTyped
  <1>4. /\ CallsTyped' /\ PullTyped' /\ (account \in Account)' /\ ~Acting(k)'
        /\ \A j \in Calls \ {k} : call'[j].op = call[j].op /\ call'[j].here = call[j].here
    <2>1. CASE c.product = Nothing
      <3>1. Ends(k) /\ UNCHANGED <<account, pull>>
        BY <2>1 DEF OpenSettled
      <3>2. QED BY <1>3, <3>1, EndsTyped, NoCallTyped, PartsStay
    <2>2. CASE c.product # Nothing
      <3> DEFINE late == {j \in Waiting : call[j].step = "sent"}
                 d == [NoCall EXCEPT !.op = "add", !.step = "sent", !.sale = c.sale,
                                     !.product = c.product, !.previous = account, !.here = c.here,
                                     !.behind = late]
                 lines == WithQuantity(account.lines, c.product, n)
      <3>1. /\ call' = [call EXCEPT ![k] = d]
            /\ pull' = [pull EXCEPT !.step = "idle", !.early = FALSE]
            /\ account' = IF account.sale = c.sale THEN [account EXCEPT !.lines = lines] ELSE account
        BY <2>2 DEF OpenSettled, Cancelled
      <3>2. c.product \in Products
        BY <1>3, <2>2
      <3>3. n \in Nat
        BY <3>2, CountedTyped DEF Line
      <3>4. lines \in [Products -> Line]
        <4> HIDE DEF n
        <4>1. QED BY <3>2, <3>3, QuantityTyped, CountedTyped
      <3>5. /\ DOMAIN d = DOMAIN NoCall /\ d.previous = account /\ d.op = "add" /\ d.step = "sent"
            /\ d.product = c.product /\ d.quantity = 0 /\ d.behind = late
        BY DEF NoCall
      <3>6. k \notin late
        BY <1>1 DEF Waiting, ItemOps
      <3> HIDE DEF c, n, late, d, lines
      <3>7. call'[k] = d /\ OthersKept(k) /\ DOMAIN call' = Calls
        BY <1>3, <3>1 DEF OthersKept
      <3>8. CallTyped(k)' /\ ~Acting(k)'
        <4>1. account \in Account
          BY CountedTyped
        <4>2. CallTyped(k)'
          BY <3>2, <3>5, <3>6, <3>7, <4>1, CallSent DEF ItemOps
        <4>3. QED BY <3>5, <3>7, <4>2 DEF Acting
      <3>9. PullTyped'
        BY <3>1, PullSet, CountedTyped
      <3>10. (account \in Account)'
        BY <3>1, <3>4, CountedTyped DEF Account
      <3>11. QED BY <1>3, <3>7, <3>8, <3>9, <3>10, CallsKept
    <2>3. QED BY <2>1, <2>2
  <1>5. DialogTyped' /\ ActsAlone'
    BY <1>1, <1>4, ShownTyped
  <1>6. QED BY <1>2, <1>4, <1>5 DEF PosTypes

-----------------------------------------------------------------------------
(* The types, and the theorem *)

\* What happens at the point of sale.
LEMMA PosTyped ==
  ASSUME PosTypes, PosStep
  PROVE  PosTypes'
  BY DialogsTyped, VisitsTyped, PullsTyped, WaiterTyped, TapsTyped, SubmitsTyped, OpensTyped,
     ItemsTyped, OthersServedTyped, ItemAnswered, AccountAnswered, OpenAnswered, DialogAnswered,
     RefusalAnswered
     DEF PosStep

\* The list and the room seen from the point of sale.
LEMMA AroundTyped ==
  ASSUME RoomTypes, FloorTypes, PosStep
  PROVE  RoomTypes' /\ FloorTypes'
  <1>1. ASSUME UNCHANGED <<roomVars, shown, asked, page>>,
               fetch' = fetch \/ fetch' = [fetch EXCEPT !.step = "asked"]
        PROVE  RoomTypes' /\ FloorTypes'
    <2>1. RoomTypes' /\ AskedTyped'
      BY <1>1 DEF RoomTypes, RequestTyped, Under, FloorTypes, AskedTyped, roomVars
    <2>2. FetchTyped' /\ ListTyped(shown)'
      BY <1>1 DEF FloorTypes, FetchTyped, ListTyped, ShownZones, ShownTables
    <2>3. QED BY <1>1, <2>1, <2>2 DEF FloorTypes
  <1>2. ASSUME NEW s \in {"FREE", "OCCUPIED"}, AccountSets(TheTable, s),
               UNCHANGED <<shown, fetch, asked, page>>
        PROVE  RoomTypes' /\ FloorTypes'
    <2>1. s \in Statuses /\ req' = req
      BY <1>2 DEF Statuses, AccountSets
    <2>2. RoomTypes'
      BY <1>2, <2>1, AccountTyped
    <2>3. AskedTyped'
      BY <1>2, <2>1 DEF FloorTypes, AskedTyped
    <2>4. QED BY <1>2, <2>2, <2>3, FloorSame
  <1>3. ASSUME OpenCharge \/ TypeAmount \/ CloseDialog \/ PullReads \/ PullArrives \/ PullFails
        PROVE  RoomTypes' /\ FloorTypes'
    BY <1>1, <1>3 DEF OpenCharge, TypeAmount, CloseDialog, PullReads, PullArrives, PullFails, floorVars
  <1>4. ASSUME CloseReceipt \/ \E p \in {"floor", "tables", "pos"} : Visit(p)
        PROVE  RoomTypes' /\ FloorTypes'
    BY <1>4, GoToTyped DEF CloseReceipt, Visit, Turns
  <1>5. ASSUME OtherWaiter
        PROVE  RoomTypes' /\ FloorTypes'
    <2>1. UNCHANGED <<shown, fetch, asked, page>>
      BY <1>5 DEF OtherWaiter
    <2>2. UNCHANGED roomVars \/ AccountSets(TheTable, "FREE") \/ AccountSets(TheTable, "OCCUPIED")
      BY <1>5 DEF OtherWaiter
    <2>3. QED BY <1>1, <1>2, <2>1, <2>2
  <1>6. ASSUME NEW k \in Calls,
               \/ \E p \in Products : Tap(k, p) \/ \E n \in 0..MaxQuantity : ChangeQuantity(k, p, n)
               \/ SubmitOpen(k) \/ Command(k) \/ SubmitCharge(k)
        PROVE  RoomTypes' /\ FloorTypes'
    BY <1>1, <1>6 DEF Tap, ChangeQuantity, SubmitOpen, Command, SubmitCharge, floorVars
  <1>7. ASSUME NEW k \in Calls, ServeOpen(k) \/ ServeCharge(k)
        PROVE  RoomTypes' /\ FloorTypes'
    <2>1. UNCHANGED <<shown, fetch, asked, page>>
      BY <1>7 DEF ServeOpen, ServeCharge
    <2>2. UNCHANGED roomVars \/ AccountSets(TheTable, "FREE") \/ AccountSets(TheTable, "OCCUPIED")
      BY <1>7 DEF ServeOpen, ServeCharge
    <2>3. QED BY <1>1, <1>2, <2>1, <2>2
  <1>8. ASSUME NEW k \in Calls,
               ServeAdd(k) \/ ServeChange(k) \/ ServeCommand(k) \/ ServeRefused(k) \/ CallFails(k)
        PROVE  RoomTypes' /\ FloorTypes'
    BY <1>1, <1>8 DEF ServeAdd, ServeChange, ServeCommand, ServeRefused, CallFails, RoomUntouched, floorVars
  <1>9. ASSUME NEW k \in Calls, AnswerItem(k) \/ AnswerAccount(k)
        PROVE  RoomTypes' /\ FloorTypes'
    BY <1>1, <1>9 DEF AnswerItem, AnswerAccount, Invalidates, Fetching
  <1>10. ASSUME NEW k \in Calls,
                OpenSettled(k) \/ ChargeSettled(k) \/ AnswerCommand(k) \/ AnswerRefusal(k)
         PROVE  RoomTypes' /\ FloorTypes'
    BY <1>1, <1>10 DEF OpenSettled, ChargeSettled, AnswerCommand, AnswerRefusal, floorVars
  <1>11. QED
    BY <1>3, <1>4, <1>5, <1>6, <1>7, <1>8, <1>9, <1>10 DEF PosStep

Typed == RoomTypes /\ FloorTypes /\ PosTypes

\* The screen as it starts.
LEMMA InitTyped == Init => Typed
  <1> SUFFICES ASSUME Init PROVE Typed
    OBVIOUS
  <1>1. RoomTypes
    BY InitRoomTypes
  <1>2. FloorTypes
    <2>1. /\ shown = Listing /\ asked = [w \in Workers |-> "nobody"] /\ req = [w \in Workers |-> NoRequest]
          /\ fetch = [step |-> "idle", list |-> Empty, muddled |-> FALSE, failed |-> FALSE]
          /\ page \in {"floor", "tables", "pos"}
      BY DEF Init, FloorInit, RoomInit
    <2>2. ListTyped(shown)
      BY <1>1, <2>1, ListingTyped
    <2>3. FetchTyped
      BY <2>1, EmptyTyped DEF FetchTyped
    <2>4. AskedTyped
      BY <2>1 DEF AskedTyped
    <2>5. QED BY <2>1, <2>2, <2>3, <2>4 DEF FloorTypes
  <1>3. PosTypes
    <2>1. /\ SalesTypeOK /\ made \in 0..MaxLine /\ account = Current /\ pull = Fetched
          /\ call = [k \in Calls |-> NoCall] /\ dialog = "none" /\ pending = Nothing
          /\ amount = 0 /\ taps \in 0..MaxTaps
      BY DEF Init
    <2>2. account \in Account
      BY <2>1, CurrentTyped
    <2>3. PullTyped
      BY <2>1, NothingOrdered DEF PullTyped, Fetched
    <2>4. CallsTyped /\ ActsAlone
      BY <2>1, NothingOrdered DEF CallsTyped, CallTyped, ActsAlone, Acting, NoCall, ItemOps
    <2>5. DialogTyped
      BY <2>1 DEF DialogTyped
    <2>6. QED BY <2>1, <2>2, <2>3, <2>4, <2>5 DEF PosTypes
  <1>4. QED BY <1>1, <1>2, <1>3 DEF Typed

\* They are the types that are checked.
LEMMA TypedMeans == IInv /\ Typed => TypeOK
  <1> SUFFICES ASSUME IInv, Typed PROVE TypeOK
    OBVIOUS
  <1>1. RoomTypeOK
    <2>1. ASSUME NEW w \in Workers
          PROVE  /\ DOMAIN req[w] = DOMAIN NoRequest
                 /\ req[w].op \in ZoneOps \cup TableOps \cup {"idle"}
                 /\ req[w].result \in {"none", "done", "refused"}
                 /\ Under(w) <=> req[w].todo # <<>>
                 /\ req[w].result = "done" => req[w].id \in Zones \cup Tables
      <3>1. /\ RequestTyped(w) /\ DOMAIN req[w] = {"op", "id", "data", "todo", "row", "result"}
        BY DEF Typed, RoomTypes, IInv, RoomInv, RequestsShape
      <3>2. Under(w) => req[w].todo # <<>>
        BY DEF IInv, RoomInv, RequestsShape, WellSent, Left, ZoneOps, TableOps
      <3>3. req[w].todo # <<>> => Under(w)
        BY <3>1 DEF RequestTyped, Under, NoRequest
      <3>4. req[w].result = "done" => req[w].id \in Zones \cup Tables
        BY <3>1 DEF RequestTyped, ResultTyped, NoRequest
      <3>5. DOMAIN req[w] = DOMAIN NoRequest
        BY <3>1 DEF NoRequest
      <3>6. QED BY <3>1, <3>2, <3>3, <3>4, <3>5 DEF RequestTyped
    <2>2. QED BY <2>1 DEF Typed, RoomTypes, RoomTypeOK
  <1>2. FloorTypeOK
    BY DEF Typed, FloorTypes, FetchTyped, AskedTyped, ListTyped, IInv, DeletingShape, FloorTypeOK
  <1>3. PosTypeOK
    BY DEF Typed, PosTypes, PullTyped, CallsTyped, CallTyped, DialogTyped, PosTypeOK
  <1>4. QED BY <1>1, <1>2, <1>3 DEF TypeOK

\* Every step keeps the room in order and the types.
LEMMA TypedKept == IInv /\ Typed /\ [Next]_vars => IInv' /\ Typed'
<1>1. ASSUME IInv, Typed, UNCHANGED vars
      PROVE  IInv' /\ Typed'
  <2>1. IInv'
    BY <1>1, RoomAside DEF vars, floorVars, IInv, DeletingShape
  <2>2. RoomTypes' /\ AskedTyped'
    BY <1>1 DEF Typed, RoomTypes, RequestTyped, Under, FloorTypes, AskedTyped, vars, roomVars, floorVars
  <2>3. FloorTypes'
    BY <1>1, <2>2, FloorSame DEF Typed, vars, floorVars
  <2>4. PosTypes'
    BY <1>1, PartsStay DEF Typed, vars, floorVars, posVars, PosTypes
  <2>5. QED BY <2>1, <2>2, <2>3, <2>4 DEF Typed
<1>2. ASSUME IInv, Typed, PosStep
      PROVE  IInv' /\ Typed'
  BY <1>2, PosKeeps, PosTyped, AroundTyped DEF Typed
<1>3. ASSUME IInv, Typed, FloorStep, UNCHANGED posVars
      PROVE  IInv' /\ Typed'
  <2>1. IInv' /\ RoomTypes' /\ FloorTypes' /\ page' = page
    BY <1>3, FloorKeeps, FloorTyped DEF Typed
  <2>2. PosTypes'
    BY <1>3, <2>1, PartsStay DEF Typed, posVars, PosTypes
  <2>3. QED BY <2>1, <2>2 DEF Typed
<1>4. QED BY <1>1, <1>2, <1>3 DEF Next

(* However many zones, tables, sales and products there are and however    *)
(* many requests and calls: every list the application shows has its       *)
(* tables in zones that it lists (useDiningRoom.ts), every request has a   *)
(* sender and every change of an account a rollback of the right shape     *)
(* (useTableAccount.ts), a dialog is open on the page of the account only, *)
(* a product waits for an account only in the dialog that opens one, and   *)
(* the table has at most one open account.                                 *)
THEOREM TypeCorrect == Spec => []TypeOK
<1>1. Init => IInv /\ Typed
  BY InitRoom, InitTyped
<1>2. IInv /\ Typed /\ [Next]_vars => (IInv /\ Typed)'
  BY TypedKept
<1>3. IInv /\ Typed => TypeOK
  BY TypedMeans
<1>4. QED
  BY <1>1, <1>2, <1>3, PTL DEF Spec

=============================================================================
