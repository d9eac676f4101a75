----------------------------- MODULE EntryForms -----------------------------
(***************************************************************************)
(* The dialogs in which records are entered: what a form shows when it is  *)
(* opened, what one edit makes of it, when it may be submitted, and the    *)
(* payload that is sent.                                                   *)
(* Source: the form dialogs and workspaces of the desktop application      *)
(* under apps/desktop/src/renderer/src.                                    *)
(*                                                                         *)
(* A form is a function of its fields; an edit changes one field, and with *)
(* it the fields that the dialog derives.                                  *)
(***************************************************************************)
EXTENDS Records

CONSTANT MaxLines  \* bound: lines of a recipe or of a purchase

ASSUME LinesAssumption == MaxLines \in Nat

Entry == Texts \cup {Blank}
NoForm == [closed |-> TRUE]

\* What a field shows of row r: a text, or any other value.
Showing(r, field) == IF r = NoRow \/ r[field] = Null THEN Blank ELSE r[field]
Having(r, field, otherwise) == IF r = NoRow THEN otherwise ELSE r[field]

\* The forms that one edit of one of the fields leads to.
Typed(form, fields) ==
  UNION {{[form EXCEPT ![f] = v] : v \in fields[f]} : f \in DOMAIN fields}

\* normalizeOptional: a text that is blank is left undefined.
Sent(form, optional) == [f \in DOMAIN form \ {f \in optional : form[f] = Blank} |-> form[f]]

-----------------------------------------------------------------------------
(* Categories *)

CategoryFields == [name |-> Names \cup {Blank}, active |-> BOOLEAN]

CategoryDefaults(r) == [name |-> Showing(r, "name"), active |-> Having(r, "active", TRUE)]

CategoryValid(form) == form.name # Blank

CategoryPayload(form) == form

-----------------------------------------------------------------------------
(* Products.  Quantities are counted in parts, Grid of them to one unit:    *)
(* the form keeps a few decimals.  A kilogram stands for 1000 grams.        *)

Grid == 2
Factor == [g |-> 1, kg |-> 2, und |-> 1]
Dimension(unit) == IF unit = "und" THEN "COUNT" ELSE "MASS"

RoundDiv(a, b) == (2 * a + b) \div (2 * b)

Converts(from, to) == Dimension(from) = Dimension(to)
ConvertQuantity(q, from, to) == RoundDiv(q * Factor[from], Factor[to])

\* The base unit of an ingredient, as far as the list of items is loaded.
BaseUnit(loaded) == IF loaded THEN "g" ELSE "und"

Line == [ingredient : Ingredients \cup {Blank}, quantity : Nat,
         unit : DOMAIN Factor]

EmptyIngredient == [ingredient |-> Blank, quantity |-> Grid, unit |-> "und"]

ProductIdentity ==
  [name |-> Names \cup {Blank}, sku |-> Entry, category |-> {"c1", Blank}]
ProductPricing == [amount |-> 0..1]
ProductAvailability == [active |-> BOOLEAN, inventoried |-> BOOLEAN]

ProductLines(r, loaded) ==
  LET used == {g \in Ingredients : r.recipe[g] > 0}
      line(g) == [ingredient |-> g, quantity |-> r.recipe[g] * Grid, unit |-> BaseUnit(loaded)]
  IN {s \in [1..Cardinality(used) -> {line(g) : g \in used}] :
        \A g \in used : \E n \in DOMAIN s : s[n] = line(g)}

ProductDefaults(r, loaded) ==
  [name |-> Showing(r, "name"), sku |-> Showing(r, "sku"), category |-> Showing(r, "category"),
   amount |-> Having(r, "amount", 0), active |-> Having(r, "active", TRUE),
   inventoried |-> Having(r, "inventoried", FALSE),
   lines |-> IF r = NoRow THEN <<>> ELSE CHOOSE s \in ProductLines(r, loaded) : TRUE]

\* Picking an ingredient sets its base unit, if it is known.
PickIngredient(form, n, g, loaded) ==
  LET picked == [form EXCEPT !.lines[n].ingredient = g]
  IN IF g # Blank /\ loaded THEN [picked EXCEPT !.lines[n].unit = BaseUnit(loaded)] ELSE picked

\* Picking a unit converts the quantity, where there is a conversion.
PickUnit(form, n, unit) ==
  LET line == form.lines[n]
      quantity == IF Converts(line.unit, unit)
                    THEN ConvertQuantity(line.quantity, line.unit, unit)
                    ELSE line.quantity
  IN [form EXCEPT !.lines[n].unit = unit, !.lines[n].quantity = quantity]

UnitsOffered(line, loaded) ==
  {u \in DOMAIN Factor :
     Dimension(u) = IF line.ingredient = Blank THEN "COUNT" ELSE Dimension(BaseUnit(loaded))}

RemoveLine(s, n) == [m \in 1..(Len(s) - 1) |-> IF m < n THEN s[m] ELSE s[m + 1]]

RecipeEdits(form, loaded) ==
  (IF Len(form.lines) < MaxLines
     THEN {[form EXCEPT !.lines = Append(@, EmptyIngredient)]} ELSE {})
  \cup UNION {
    {PickIngredient(form, n, g, loaded) : g \in Ingredients \cup {Blank}}
      \cup {[form EXCEPT !.lines[n].quantity = q * Grid] : q \in 0..1}
      \cup {PickUnit(form, n, u) : u \in UnitsOffered(form.lines[n], loaded)}
      \cup {[form EXCEPT !.lines = RemoveLine(@, n)]} : n \in DOMAIN form.lines}

ProductEdits(form, loaded) ==
  Typed(form, ProductIdentity) \cup Typed(form, ProductPricing) \cup Typed(form, ProductAvailability)
    \cup IF form.inventoried THEN RecipeEdits(form, loaded) ELSE {}

\* The name and the SKU are compared with the other products of the list.
TakenName(form, i, list) ==
  \E j \in Ids \ {i} : list[j] # NoRow /\ list[j].name = form.name
TakenSku(form, i, list) ==
  form.sku # Blank /\ \E j \in Ids \ {i} : list[j] # NoRow /\ list[j].sku = form.sku

ProductValid(form, i, list) ==
  /\ form.name # Blank /\ ~TakenName(form, i, list) /\ ~TakenSku(form, i, list)
  /\ \A n \in DOMAIN form.lines : form.lines[n].ingredient # Blank /\ form.lines[n].quantity > 0

\* On submit every quantity is converted to the base unit, in whole units, at least 1.
WholeUnits(line, loaded) ==
  LET base == IF loaded THEN BaseUnit(loaded) ELSE line.unit
      parts == IF Converts(line.unit, base) THEN line.quantity * Factor[line.unit] ELSE line.quantity
      whole == RoundDiv(parts, Grid * (IF Converts(line.unit, base) THEN Factor[base] ELSE 1))
  IN IF whole < 1 THEN 1 ELSE whole

\* Mutant: the quantities are sent in the unit in which they were typed.
LinesAsTyped(form, loaded) ==
  [n \in DOMAIN form.lines |->
     [ingredient |-> form.lines[n].ingredient, quantity |-> RoundDiv(form.lines[n].quantity, Grid)]]

BaseLines(form, loaded) ==
  [n \in DOMAIN form.lines |->
     [ingredient |-> form.lines[n].ingredient, quantity |-> WholeUnits(form.lines[n], loaded)]]

ProductPayload(form, loaded) ==
  [Sent(form, {"sku", "category"}) EXCEPT
     !.lines = IF form.inventoried THEN BaseLines(form, loaded) ELSE <<>>]

-----------------------------------------------------------------------------
(* Customers *)

CustomerFields == [type |-> DocumentTypes, name |-> Names \cup {Blank}, email |-> Entry,
                   active |-> BOOLEAN]

CustomerDefaults(r) ==
  LET document == IF r = NoRow THEN NoDocument ELSE r.document
  IN [type |-> document.type, number |-> document.number, dv |-> document.dv,
      name |-> Showing(r, "name"), email |-> Showing(r, "email"),
      active |-> Having(r, "active", TRUE)]

\* Typing the number of a NIT computes its digit, which may then be corrected.
DocumentEdits(form) ==
  {[form EXCEPT !.number = n, !.dv = IF form.type = "NIT" THEN VerificationDigit(n) ELSE @] :
     n \in Numbers}
  \cup IF form.type = "NIT" THEN {[form EXCEPT !.dv = d] : d \in {<<>>, <<0>>}} ELSE {}

CustomerEdits(form) == Typed(form, CustomerFields) \cup DocumentEdits(form)

CustomerValid(form) == form.name # Blank /\ form.number # <<>>

DocumentOf(form) ==
  [type |-> form.type, number |-> form.number,
   dv |-> IF form.type = "NIT" THEN form.dv ELSE <<>>]

CustomerPayload(form) ==
  [f \in (DOMAIN Sent(form, {"email"}) \ {"type", "number", "dv"}) \cup {"document"} |->
     IF f = "document" THEN DocumentOf(form) ELSE form[f]]

-----------------------------------------------------------------------------
(* Suppliers *)

SupplierFields == [name |-> Names \cup {Blank}, email |-> Entry]

SupplierDefaults ==
  [name |-> Blank, person |-> "JURIDICA", type |-> "NIT", number |-> <<>>, dv |-> <<>>,
   email |-> Blank]

\* A juridical person has a NIT, a natural one a card.
SupplierEdits(form) ==
  Typed(form, SupplierFields) \cup DocumentEdits(form)
    \cup {[form EXCEPT !.person = "JURIDICA", !.type = "NIT"],
          [form EXCEPT !.person = "NATURAL", !.type = "CC"]}

SupplierValid(form) == form.name # Blank /\ (form.type = "NIT" => NitIsValid(DocumentOf(form)))

SupplierPayload(form) ==
  [f \in (DOMAIN Sent(form, {"email"}) \ {"person", "type", "number", "dv"}) \cup {"document"} |->
     IF f = "document"
       THEN IF form.number = <<>> THEN NoDocument ELSE DocumentOf(form)
       ELSE form[f]]

-----------------------------------------------------------------------------
(* Employees *)

EmployeeFields == [email |-> Names \cup {Blank}, password |-> Entry, active |-> BOOLEAN]
EmployeeDefaults == [email |-> Blank, password |-> Blank, active |-> TRUE]
EmployeeValid(form) == form.email # Blank /\ form.password # Blank
EmployeePayload(form) == form

PinFields == [pin |-> Entry, confirm |-> Entry]
PinDefaults == [pin |-> Blank, confirm |-> Blank]
PinValid(form) == form.pin # Blank /\ form.pin = form.confirm
PinPayload(form) == [pin |-> form.pin]

-----------------------------------------------------------------------------
(* Inventory items *)

ItemFields == [category |-> {"c1", Blank}, name |-> Names \cup {Blank}, product |-> {"p1", Null},
               stock |-> 0..1, cost |-> 0..1, minimum |-> 0..1, negative |-> BOOLEAN]
ItemDefaults == [category |-> Blank, name |-> Blank, product |-> Null, stock |-> 0, cost |-> 0,
                 minimum |-> 0, negative |-> FALSE]
ItemValid(form) ==
  form.category # Blank /\ form.name # Blank /\ (form.stock = 0 \/ form.cost > 0)
ItemPayload(form) == form

\* A product that the list of products shows as linked cannot be picked.
ItemEdits(form, linked) ==
  {f \in Typed(form, ItemFields) : f.product # form.product => f.product \notin linked}

-----------------------------------------------------------------------------
(* Purchases *)

EmptyItem == [name |-> Blank, quantity |-> 1, cost |-> 0]
PurchaseFields == [supplier |-> {"s1", Blank}, reference |-> Entry, tax |-> 0..1]
PurchaseDefaults == [supplier |-> Blank, reference |-> Blank, tax |-> 0, lines |-> <<EmptyItem>>]

PurchaseLine == [name : {"n1", Blank}, quantity : 0..2, cost : 0..1]

\* The last line cannot be removed.
PurchaseLines(form) ==
  (IF Len(form.lines) < MaxLines THEN {[form EXCEPT !.lines = Append(@, EmptyItem)]} ELSE {})
  \cup UNION {
    {[form EXCEPT !.lines[n].name = x] : x \in {"n1", Blank}}
      \cup {[form EXCEPT !.lines[n].quantity = q] : q \in 0..2}
      \cup {[form EXCEPT !.lines[n].cost = c] : c \in 0..1}
      \cup {[form EXCEPT !.lines = RemoveLine(@, m)] : m \in {m \in {n} : Len(form.lines) > 1}}
    : n \in DOMAIN form.lines}

PurchaseEdits(form) == Typed(form, PurchaseFields) \cup PurchaseLines(form)

PurchaseValid(form) ==
  /\ form.supplier # Blank
  /\ \A n \in DOMAIN form.lines : form.lines[n].name # Blank /\ form.lines[n].quantity > 0

PurchasePayload(form) == Sent(form, {"reference"})

-----------------------------------------------------------------------------
(* The fiscal profile; 0 is a number that is not given. *)

FiscalIdentity == [legalName |-> Names \cup {Blank}]
FiscalResolution == [resolution |-> Entry, from |-> 0..2, to |-> 0..2]
FiscalProvider == [provider |-> ProviderTypes, providerName |-> Entry, softwareId |-> Entry,
                   endpoint |-> Entry]

FiscalDefaults(r) ==
  [legalName |-> Showing(r, "legalName"), resolution |-> Showing(r, "resolution"),
   from |-> Having(r, "from", 0), to |-> Having(r, "to", 0),
   provider |-> Having(r, "provider", "TECHNOLOGY_PROVIDER"),
   providerName |-> Showing(r, "providerName"), softwareId |-> Showing(r, "softwareId"),
   endpoint |-> Showing(r, "endpoint")]

FiscalEdits(form) ==
  Typed(form, FiscalIdentity) \cup Typed(form, FiscalResolution) \cup Typed(form, FiscalProvider)

FiscalValid(form) ==
  form.legalName # Blank /\ (form.from > 0 /\ form.to > 0 => form.from <= form.to)

\* A text that is blank is undefined here too, and the service makes it null.
FiscalPayload(form) == form

\* The provider is optional in the API.
WithoutProvider(form) == Restrict(form, DOMAIN FiscalIdentity \cup DOMAIN FiscalResolution)

-----------------------------------------------------------------------------
(* What a form may hold *)

CategoryForms == [name : Names \cup {Blank}, active : BOOLEAN]

ProductForms ==
  [name : Names \cup {Blank}, sku : Entry, category : {"c1", Blank}, amount : 0..1,
   active : BOOLEAN, inventoried : BOOLEAN, lines : Seq(Line)]

CustomerForms ==
  [type : DocumentTypes, number : Numbers, dv : Digits, name : Names \cup {Blank},
   email : Entry, active : BOOLEAN]

SupplierForms ==
  [name : Names \cup {Blank}, person : {"JURIDICA", "NATURAL"}, type : DocumentTypes,
   number : Numbers, dv : Digits, email : Entry]

EmployeeForms == [email : Names \cup {Blank}, password : Entry, active : BOOLEAN]
PinForms == [pin : Entry, confirm : Entry]

ItemForms ==
  [category : {"c1", Blank}, name : Names \cup {Blank}, product : {"p1", Null}, stock : 0..1,
   cost : 0..1, minimum : 0..1, negative : BOOLEAN]

PurchaseForms ==
  [supplier : {"s1", Blank}, reference : Entry, tax : 0..1, lines : Seq(PurchaseLine)]

FiscalForms ==
  [legalName : Names \cup {Blank}, resolution : Entry, from : 0..2, to : 0..2,
   provider : ProviderTypes, providerName : Entry, softwareId : Entry, endpoint : Entry]

\* Of a dialog in this mode.
Forms(mode) ==
  CASE kind = "category" -> CategoryForms [] kind = "product" -> ProductForms
    [] kind = "customer" -> CustomerForms [] kind = "supplier" -> SupplierForms
    [] kind = "employee" -> IF mode = "pin" THEN PinForms ELSE EmployeeForms
    [] kind = "item" -> ItemForms [] kind = "purchase" -> PurchaseForms
    [] kind = "fiscal" -> FiscalForms

-----------------------------------------------------------------------------
(* Of any kind.  aside is what the dialog knows from another list: of the    *)
(* items, whether their units are known; of the products, which are linked. *)

Defaults(r, aside) ==
  CASE kind = "category" -> CategoryDefaults(r) [] kind = "product" -> ProductDefaults(r, aside # {})
    [] kind = "customer" -> CustomerDefaults(r) [] kind = "supplier" -> SupplierDefaults
    [] kind = "employee" -> EmployeeDefaults [] kind = "item" -> ItemDefaults
    [] kind = "purchase" -> PurchaseDefaults [] kind = "fiscal" -> FiscalDefaults(r)

Edits(form, aside) ==
  CASE kind = "category" -> Typed(form, CategoryFields)
    [] kind = "product" -> ProductEdits(form, aside # {})
    [] kind = "customer" -> CustomerEdits(form) [] kind = "supplier" -> SupplierEdits(form)
    [] kind = "employee" -> Typed(form, IF "pin" \in DOMAIN form THEN PinFields ELSE EmployeeFields)
    [] kind = "item" -> ItemEdits(form, aside) [] kind = "purchase" -> PurchaseEdits(form)
    [] kind = "fiscal" -> FiscalEdits(form)

Valid(form, i, list) ==
  CASE kind = "category" -> CategoryValid(form) [] kind = "product" -> ProductValid(form, i, list)
    [] kind = "customer" -> CustomerValid(form) [] kind = "supplier" -> SupplierValid(form)
    [] kind = "employee" -> IF "pin" \in DOMAIN form THEN PinValid(form) ELSE EmployeeValid(form)
    [] kind = "item" -> ItemValid(form) [] kind = "purchase" -> PurchaseValid(form)
    [] kind = "fiscal" -> FiscalValid(form)

Payload(form, aside) ==
  CASE kind = "category" -> CategoryPayload(form) [] kind = "product" -> ProductPayload(form, aside # {})
    [] kind = "customer" -> CustomerPayload(form) [] kind = "supplier" -> SupplierPayload(form)
    [] kind = "employee" -> IF "pin" \in DOMAIN form THEN PinPayload(form) ELSE EmployeePayload(form)
    [] kind = "item" -> ItemPayload(form) [] kind = "purchase" -> PurchasePayload(form)
    [] kind = "fiscal" -> FiscalPayload(form)

=============================================================================
