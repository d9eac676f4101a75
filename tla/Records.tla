------------------------------ MODULE Records -------------------------------
(***************************************************************************)
(* The records a manager edits - categories, products, customers,          *)
(* suppliers, employees, inventory items, purchases and the fiscal         *)
(* profile - as the API keeps them: what a request reads, what it refuses  *)
(* and what it writes.                                                     *)
(* Source: the service and the repository of each kind under               *)
(* apps/api/src/modules.                                                   *)
(*                                                                         *)
(* A request reads and decides first and writes in a second step; between  *)
(* them others may write.  A row that is removed stays in its table: the   *)
(* checks do not see it, the unique indexes do.                            *)
(*                                                                         *)
(* One kind of record is looked at in a behaviour.  A field stands for all *)
(* fields that are handled alike: email for every optional text of a       *)
(* customer, sku for the optional texts of a product.                      *)
(***************************************************************************)
EXTENDS Integers, FiniteSets, Sequences, Functions

CONSTANTS
  Ids,          \* ids of records
  NoId,
  Workers,      \* requests the server may serve at the same time
  Nobody,       \* no worker
  Ingredients   \* what recipes are made of

ASSUME NobodyAssumption == Nobody \notin Workers
ASSUME NoIdAssumption == NoId \notin Ids
ASSUME IngredientsAssumption == IsFiniteSet(Ingredients)

VARIABLES
  kind,   \* the kind of record of this behaviour
  row,    \* row[i]: record i, or NoRow
  gone,   \* what rows refer to and was removed: "category", "ingredient", ...
  req,    \* req[w]: the request that w serves
  (* History, read by no action: *)
  doubtful  \* records whose requests overlapped, employees whose PIN came back into use

recordVars == <<kind, row, gone, req, doubtful>>

-----------------------------------------------------------------------------
(* Values *)

Blank == ""
Null == "null"
OrNull(v) == IF v = Blank THEN Null ELSE v

Kinds == {"category", "product", "customer", "supplier", "employee", "item", "purchase", "fiscal"}

Names == {"n1", "n2", "n3"}
Texts == {"x1", "x2"}
Optional == Texts \cup {Null}
Life == {"live", "removed"}
References == {"category", "ingredient", "product", "supplier"}

DocumentTypes == {"NIT", "CC"}
Numbers == {<<>>, <<1>>, <<2>>}
Digits == {<<>>} \cup {<<d>> : d \in 0..9}
Documents == [type : DocumentTypes, number : Numbers, dv : Digits]
NoDocument == [type |-> "CC", number |-> <<>>, dv |-> <<>>]

NitWeights == <<3, 7, 13, 17, 19, 23, 29, 37, 41, 43, 47, 53, 59, 67, 71>>

\* computeNitVerificationDigit: the last digit weighs 3.
VerificationDigit(number) ==
  LET n == Len(number)
      sum == SumFunction([i \in 1..n |-> number[n + 1 - i] * NitWeights[i]])
      remainder == sum % 11
  IN IF n = 0 THEN <<>> ELSE <<IF remainder < 2 THEN remainder ELSE 11 - remainder>>

\* parseColombianNit: the digit that was given, or the one it should have.
NitIsValid(document) ==
  /\ document.number # <<>>
  /\ document.dv \in {<<>>, VerificationDigit(document.number)}

FormattedNit(document) == [document EXCEPT !.dv = VerificationDigit(document.number)]

-----------------------------------------------------------------------------
(* Rows *)

NoRow == [life |-> "none"]

CategoryRows == [life : Life, name : Names, active : BOOLEAN]

ProductRows ==
  [life : Life, name : Names, sku : Optional, category : {"c1", Null}, amount : 0..1,
   active : BOOLEAN, inventoried : BOOLEAN, recipe : [Ingredients -> Nat]]

CustomerRows ==
  [life : Life, document : Documents, name : Names, email : Optional, active : BOOLEAN]

SupplierRows == [life : Life, name : Names, document : Documents, email : Optional]

EmployeeRows ==
  [life : Life, email : Names, branch : {"b1", "b2", Null}, active : BOOLEAN, pin : Optional]

ItemRows ==
  [life : Life, name : Names, product : {"p1", Null}, stock : 0..1, minimum : 0..1,
   negative : BOOLEAN]

PurchaseRows == [life : Life, reference : Optional, subtotal : Nat, tax : 0..1, total : Nat]

ProviderTypes == {"DIAN_DIRECT", "TECHNOLOGY_PROVIDER"}

FiscalRows ==
  [life : Life, legalName : Names, resolution : Optional, from : 0..2, to : 0..2,
   provider : ProviderTypes, providerName : Optional, softwareId : Optional,
   endpoint : Optional, status : {"NOT_CONFIGURED", "CONFIGURED", "CONNECTION_TESTED", "ERROR"},
   ready : BOOLEAN]

\* What a profile shows that has no row of a provider.
NoProvider ==
  [provider |-> "TECHNOLOGY_PROVIDER", providerName |-> Null, softwareId |-> Null,
   endpoint |-> Null, status |-> "NOT_CONFIGURED"]

Rows(k) ==
  CASE k = "category" -> CategoryRows [] k = "product" -> ProductRows
    [] k = "customer" -> CustomerRows [] k = "supplier" -> SupplierRows
    [] k = "employee" -> EmployeeRows [] k = "item" -> ItemRows
    [] k = "purchase" -> PurchaseRows [] k = "fiscal" -> FiscalRows

Live(i) == row[i].life = "live"
FreshIds == {i \in Ids : row[i] = NoRow}

\* What the unique index of the table is on.
KeyOf(r) ==
  CASE kind \in {"category", "supplier"} -> r.name
    [] kind = "product" -> r.sku
    [] kind = "customer" -> r.document
    [] kind = "employee" -> r.email
    [] kind = "item" -> r.product
    [] OTHER -> Null

\* A purchase and a profile have no key, nor has a product without SKU or link.
Keyed(r) ==
  /\ kind \notin {"purchase", "fiscal"}
  /\ kind \in {"product", "item"} => KeyOf(r) # Null

Clash(i, r, lives) ==
  Keyed(r) /\ \E j \in Ids \ {i} : row[j].life \in lives /\ KeyOf(row[j]) = KeyOf(r)

\* A field that the request leaves undefined keeps its value.
Given(d, field, otherwise) == IF field \in DOMAIN d THEN d[field] ELSE otherwise
Merged(r, d) == [f \in DOMAIN r |-> Given(d, f, r[f])]

Idle(w) == req[w].step = "free"

-----------------------------------------------------------------------------
(* What the services make of a request: whether they accept it, and the    *)
(* fields they hand to the repository.                                     *)

Reply(ok, data) == [ok |-> ok, data |-> data]

\* Mutant: a blank text is stored as it is.
TextLeftBlank(d, field) == Given(d, field, Blank)

Text(d, field) == OrNull(Given(d, field, Blank))

\* On an update, a text that is given and blank becomes Null.
Texted(d, fields) == [f \in DOMAIN d |-> IF f \in fields THEN OrNull(d[f]) ELSE d[f]]

Free(r) == ~Clash(NoId, r, {"live"})

\* A key that does not change is not looked up.
StaysFree(i, d) ==
  LET r == Merged(row[i], d) IN KeyOf(r) = KeyOf(row[i]) \/ ~Clash(i, r, {"live"})

CreateCategory(d) ==
  LET r == [life |-> "live", name |-> d.name, active |-> Given(d, "active", TRUE)]
  IN Reply(Free(r), r)

UpdateCategory(i, d) == Reply(StaysFree(i, d), d)

\* normalizeRecipe: the lines of one ingredient are added up.
Recipe(lines) ==
  [g \in Ingredients |->
     SumFunctionOnSet([n \in DOMAIN lines |-> lines[n].quantity],
                      {n \in DOMAIN lines : lines[n].ingredient = g})]

CreateProduct(d) ==
  LET r == [life |-> "live", name |-> d.name, sku |-> Text(d, "sku"),
            category |-> Text(d, "category"), amount |-> d.amount,
            active |-> Given(d, "active", TRUE), inventoried |-> Given(d, "inventoried", FALSE),
            recipe |-> Recipe(Given(d, "lines", <<>>))]
  IN Reply((r.category # Null => "category" \notin gone) /\ Free(r), r)

UpdateProduct(i, d) ==
  LET texted == Texted(d, {"sku"})
      data == [f \in (DOMAIN d \ {"lines"}) \cup (IF "lines" \in DOMAIN d THEN {"recipe"} ELSE {}) |->
                 IF f = "recipe" THEN Recipe(d.lines) ELSE texted[f]]
  IN Reply(/\ Given(d, "category", row[i].category) # row[i].category => "category" \notin gone
           /\ StaysFree(i, data),
           data)

CreateCustomer(d) ==
  LET r == [life |-> "live", document |-> d.document, name |-> d.name,
            email |-> Text(d, "email"), active |-> Given(d, "active", TRUE)]
  IN Reply(Free(r), r)

UpdateCustomer(i, d) == Reply(StaysFree(i, d), Texted(d, {"email"}))

\* normalizeSupplierDocument
SupplierDocument(d) ==
  LET document == Given(d, "document", NoDocument) IN
  IF document.type = "NIT" THEN FormattedNit(document) ELSE document

NitAccepted(d) ==
  LET document == Given(d, "document", NoDocument)
  IN document.type = "NIT" => NitIsValid(document)

CreateSupplier(d) ==
  LET r == [life |-> "live", name |-> d.name, document |-> SupplierDocument(d),
            email |-> Text(d, "email")]
  IN Reply(NitAccepted(d) /\ Free(r), r)

UpdateSupplier(i, d) ==
  LET data == [f \in DOMAIN d |-> IF f = "document" THEN SupplierDocument(d)
                                  ELSE IF f = "email" THEN OrNull(d.email) ELSE d[f]]
  IN Reply(NitAccepted(d) /\ StaysFree(i, d), data)

\* The branch is the one the request comes from.
CreateEmployee(d) ==
  LET r == [life |-> "live", email |-> d.email, branch |-> "b1",
            active |-> Given(d, "active", TRUE), pin |-> Null]
  IN Reply(Free(r), r)

UpdateEmployee(i, d) == Reply(StaysFree(i, d), d)

\* findPinnedInBranch
PinnedWith(i) ==
  {j \in Ids \ {i} : /\ Live(j) /\ row[j].active /\ row[j].pin # Null
                     /\ row[j].branch = row[i].branch}

\* Mutant: only the branch is looked at.
SetPinUnchecked(i, d) == Reply(row[i].branch # Null, d)

SetPin(i, d) ==
  Reply(/\ row[i].branch # Null
        /\ \A j \in PinnedWith(i) : row[j].pin # d.pin,
        d)

\* In one transaction with the write, so ok is decided there (ItemFits).
CreateItem(d) ==
  Reply(TRUE, [life |-> "live", name |-> d.name, product |-> OrNull(Given(d, "product", Null)),
               stock |-> d.stock, minimum |-> d.minimum, negative |-> d.negative])

UpdateItem(d) == Reply(TRUE, d)

Subtotal(lines) == SumFunction([n \in DOMAIN lines |-> lines[n].quantity * lines[n].cost])

CreatePurchase(d) ==
  Reply("supplier" \notin gone,
        [life |-> "live", reference |-> Text(d, "reference"), subtotal |-> Subtotal(d.lines),
         tax |-> d.tax, total |-> Subtotal(d.lines) + d.tax])

Profiles == {i \in Ids : Live(i)}

OptionalOfProfile == {"resolution", "providerName", "softwareId", "endpoint"}

\* Mutant: the provider is written, and its status left as it was.
UpsertProfileKeepingStatus(d) ==
  Reply(d.from > 0 /\ d.to > 0 => d.from <= d.to,
        [f \in DOMAIN d \cup {"life", "ready"} |->
           CASE f = "life" -> "live"
             [] f = "ready" -> \E i \in Profiles : row[i].ready
             [] f \in OptionalOfProfile -> OrNull(d[f])
             [] OTHER -> d[f]])

\* toProfileData: isReady is carried over from the profile as it was read, and
\* the provider, with its status, is written only where the request gives one.
UpsertProfile(d) ==
  Reply(d.from > 0 /\ d.to > 0 => d.from <= d.to,
        [f \in DOMAIN d \cup {"life", "ready"}
                 \cup (IF "provider" \in DOMAIN d THEN {"status"} ELSE {}) |->
           CASE f = "life" -> "live"
             [] f = "status" -> "CONFIGURED"
             [] f = "ready" -> \E i \in Profiles : row[i].ready
             [] f \in OptionalOfProfile -> OrNull(d[f])
             [] OTHER -> d[f]])

RequiredProviderFields(r) ==
  IF r.provider = "DIAN_DIRECT" THEN {"endpoint", "softwareId"} ELSE {"providerName", "endpoint"}

ProviderIsReady(r) == \A f \in RequiredProviderFields(r) : r[f] # Null

HasRequiredData(r) == r.resolution # Null /\ r.from > 0 /\ r.to > 0

\* A profile without a provider is refused.
TestConnection(i) ==
  Reply(row[i].status # "NOT_CONFIGURED",
        [status |-> IF ProviderIsReady(row[i]) THEN "CONNECTION_TESTED" ELSE "ERROR",
         ready |-> ProviderIsReady(row[i]) /\ HasRequiredData(row[i])])

Created(d) ==
  CASE kind = "category" -> CreateCategory(d) [] kind = "product" -> CreateProduct(d)
    [] kind = "customer" -> CreateCustomer(d) [] kind = "supplier" -> CreateSupplier(d)
    [] kind = "employee" -> CreateEmployee(d) [] kind = "item" -> CreateItem(d)
    [] kind = "purchase" -> CreatePurchase(d) [] kind = "fiscal" -> UpsertProfile(d)

Updated(i, d) ==
  CASE kind = "category" -> UpdateCategory(i, d) [] kind = "product" -> UpdateProduct(i, d)
    [] kind = "customer" -> UpdateCustomer(i, d) [] kind = "supplier" -> UpdateSupplier(i, d)
    [] kind = "employee" -> UpdateEmployee(i, d) [] kind = "item" -> UpdateItem(d)
    [] kind = "fiscal" -> UpsertProfile(d)

-----------------------------------------------------------------------------
(* Requests *)

NoRequest == [step |-> "free", op |-> "none", id |-> NoId, data |-> NoRow]

\* The records of requests that overlap: of a PIN with anything, and of a test
\* with an upsert of the profile.
Doubts(w, op, i) ==
  LET others == {v \in Workers \ {w} : ~Idle(v)}
      ops == {op} \cup {req[v].op : v \in others}
  IN IF others # {} /\ ("pin" \in ops \/ {"create", "test"} \subseteq ops)
       THEN {req[v].id : v \in others} \cup {i}
       ELSE {}

Arrive(w, op, i, d) ==
  /\ Idle(w)
  /\ req' = [req EXCEPT ![w] = [step |-> "read", op |-> op, id |-> i, data |-> d]]
  /\ doubtful' = doubtful \cup Doubts(w, op, i)
  /\ UNCHANGED <<kind, row, gone>>

\* The first step of a request, which ends in a write or a refusal.
Decide(w, reply) ==
  /\ req' = [req EXCEPT ![w].step = IF reply.ok THEN "write" ELSE "refused",
                        ![w].data = reply.data]
  /\ UNCHANGED <<kind, row, gone, doubtful>>

Refuse(w) ==
  /\ req' = [req EXCEPT ![w].step = "refused"]
  /\ UNCHANGED <<kind, row, gone, doubtful>>

ReadCreate(w) ==
  /\ req[w].step = "read" /\ req[w].op = "create"
  /\ Decide(w, Created(req[w].data))

\* Any other request first finds its record.
ReadRecord(w) ==
  LET i == req[w].id d == req[w].data IN
  /\ req[w].step = "read" /\ req[w].op # "create"
  /\ IF ~Live(i) THEN Refuse(w)
     ELSE \/ req[w].op = "update" /\ Decide(w, Updated(i, d))
          \/ req[w].op = "access" /\ Decide(w, Reply(TRUE, d))
          \/ req[w].op = "pin" /\ Decide(w, SetPin(i, d))
          \/ req[w].op = "test" /\ Decide(w, TestConnection(i))
          \/ req[w].op = "remove" /\ Decide(w, Reply(TRUE, d))

\* What the transaction of a product or an item checks itself.
RecipeFits(r) == (\E g \in Ingredients : r.recipe[g] > 0) => "ingredient" \notin gone
ItemFits(r) == r.product # Null => "product" \notin gone

Fits(r) ==
  /\ kind = "product" => RecipeFits(r)
  /\ kind = "item" => ItemFits(r)

\* Where a profile exists, the upsert updates it.
InsertedAt == IF kind = "fiscal" /\ Profiles # {} THEN Profiles ELSE FreshIds

\* The row of a profile is updated in the fields that are given.
Inserted(r, d) ==
  IF kind # "fiscal" THEN d
  ELSE LET kept == IF r = NoRow THEN NoProvider ELSE r
       IN [f \in DOMAIN d \cup DOMAIN kept |-> Given(d, f, kept[f])]

Insert(w) ==
  LET d == req[w].data IN
  /\ req[w].step = "write" /\ req[w].op = "create"
  /\ IF Fits(d) /\ ~Clash(NoId, d, Life)
       THEN \E i \in InsertedAt :
              /\ row' = [row EXCEPT ![i] = Inserted(@, d)]
              /\ req' = [req EXCEPT ![w].step = "done", ![w].id = i]
              /\ UNCHANGED <<kind, gone, doubtful>>
       ELSE Refuse(w)

\* An employee who is pinned and comes back, or moves, may meet their PIN there.
ComesBack(i, r) ==
  /\ kind = "employee" /\ r.pin # Null
  /\ \/ r.active /\ ~row[i].active
     \/ r.branch # row[i].branch

\* Only the product and the item look whether the row was removed meanwhile.
UpdateRow(w) ==
  LET i == req[w].id
      r == Merged(row[i], req[w].data)
  IN
  /\ req[w].step = "write" /\ req[w].op \in {"update", "access", "pin", "test"}
  /\ IF /\ kind \in {"product", "item"} => Live(i)
        /\ "recipe" \in DOMAIN req[w].data => RecipeFits(r)
        /\ "product" \in DOMAIN req[w].data => Fits(r)
        /\ ~Clash(i, r, Life)
       THEN /\ row' = [row EXCEPT ![i] = r]
            /\ req' = [req EXCEPT ![w].step = "done"]
            /\ doubtful' = IF ComesBack(i, r) THEN doubtful \cup {i} ELSE doubtful
            /\ UNCHANGED <<kind, gone>>
       ELSE Refuse(w)

\* softDelete; an employee loses the access too, and keeps PIN and email.
RemoveRow(w) ==
  LET i == req[w].id
      access == IF kind = "employee" THEN [active |-> FALSE] ELSE [life |-> "removed"]
  IN
  /\ req[w].step = "write" /\ req[w].op = "remove"
  /\ row' = [row EXCEPT ![i] = Merged([@ EXCEPT !.life = "removed"], access)]
  /\ req' = [req EXCEPT ![w].step = "done"]
  /\ UNCHANGED <<kind, gone, doubtful>>

Serve(w) == ReadCreate(w) \/ ReadRecord(w) \/ Insert(w) \/ UpdateRow(w) \/ RemoveRow(w)

Dismiss(w) ==
  /\ req[w].step \in {"done", "refused"}
  /\ req' = [req EXCEPT ![w] = NoRequest]
  /\ UNCHANGED <<kind, row, gone, doubtful>>

\* Somebody removes what rows refer to.
RemoveReferred(x) ==
  /\ gone = {}
  /\ gone' = {x}
  /\ UNCHANGED <<kind, row, req, doubtful>>

-----------------------------------------------------------------------------
(* Properties *)

RecordsTypeOK ==
  /\ kind \in Kinds
  /\ \A i \in Ids : row[i] \in {NoRow} \cup Rows(kind)
  /\ gone \subseteq References
  /\ \A w \in Workers :
       /\ req[w].step \in {"free", "read", "write", "done", "refused"}
       /\ req[w].op \in {"none", "create", "update", "access", "pin", "test", "remove"}
       /\ req[w].id \in Ids \cup {NoId}
  /\ doubtful \subseteq Ids \cup {NoId}

\* Two employees who may log in at one terminal with one PIN.
SharePin(r, s) ==
  /\ r.life = "live" /\ r.active /\ s.life = "live" /\ s.active
  /\ r.branch = s.branch /\ r.pin # Null /\ r.pin = s.pin

(* Two employees of a branch who may log in never share a PIN, so that the *)
(* terminal resolves a single user (employee.service.ts:174), unless their *)
(* PINs were stored in overlapping requests, or one of them was suspended  *)
(* or in another branch when the other chose it.                           *)
PinsUnique ==
  kind = "employee" =>
    \A i, j \in Ids : i # j /\ SharePin(row[i], row[j]) => {i, j} \cap doubtful # {}

\* A provider that is tested has what its type requires, one in error lacks some
\* of it, and only the first can be of a profile that is ready.
AsTested(r) ==
  /\ r.status = "CONNECTION_TESTED" => ProviderIsReady(r)
  /\ r.status = "ERROR" => ~ProviderIsReady(r) /\ ~r.ready
  /\ r.status = "NOT_CONFIGURED" => ~r.ready

(* What the fiscal profile says of its provider is true of the provider    *)
(* that is stored: tested when its required fields are there, in error     *)
(* when one is missing, and never ready with a provider in error or        *)
(* without one, although an update carries isReady over from the profile   *)
(* it read and may keep the provider and its status                        *)
(* (fiscal.service.ts:124, fiscal.repository.ts:93).  Upserts may overlap; *)
(* no test has overlapped one.  That a profile which is ready still has    *)
(* its resolution is not promised: an update may take it away.             *)
ReadyAsTested ==
  kind = "fiscal" /\ doubtful = {} => \A i \in Profiles : AsTested(row[i])

=============================================================================
