---------------------------- MODULE MCBackOffice ----------------------------
(* What is stored at first, for each kind of record: two rows at most, and *)
(* an id for the one that is created.                                      *)
EXTENDS BackOffice

Stored(first, second) == [i \in Ids |-> IF i = 1 THEN first ELSE IF i = 2 THEN second ELSE NoRow]

ACategory == [life |-> "live", name |-> "n1", active |-> TRUE]
AProduct ==
  [life |-> "live", name |-> "n1", sku |-> "x1", category |-> "c1", amount |-> 1,
   active |-> TRUE, inventoried |-> TRUE, recipe |-> [g \in Ingredients |-> 1]]
ACustomer ==
  [life |-> "live", document |-> [type |-> "NIT", number |-> <<1>>, dv |-> VerificationDigit(<<1>>)],
   name |-> "n1", email |-> "x1", active |-> TRUE]
ASupplier == [life |-> "live", name |-> "n1", document |-> NoDocument, email |-> "x1"]
AnEmployee == [life |-> "live", email |-> "n1", branch |-> "b1", active |-> TRUE, pin |-> "x1"]
AnItem ==
  [life |-> "live", name |-> "n1", product |-> "p1", stock |-> 1, minimum |-> 0, negative |-> FALSE]
AProfile ==
  [life |-> "live", legalName |-> "n1", resolution |-> "x1", from |-> 1, to |-> 2,
   provider |-> "DIAN_DIRECT", providerName |-> Null, softwareId |-> "x1", endpoint |-> "x1",
   status |-> "CONFIGURED", ready |-> FALSE]
ATestedProfile == [AProfile EXCEPT !.status = "CONNECTION_TESTED", !.ready = TRUE]
AProfileAlone ==
  [life |-> "live", legalName |-> "n1", resolution |-> "x1", from |-> 1, to |-> 2,
   provider |-> "TECHNOLOGY_PROVIDER", providerName |-> Null, softwareId |-> Null,
   endpoint |-> Null, status |-> "NOT_CONFIGURED", ready |-> FALSE]

MCStarts ==
  {[kind |-> "category", rows |-> Stored(ACategory, [ACategory EXCEPT !.name = "n2"])],
   [kind |-> "product", rows |-> Stored(AProduct, NoRow)],
   [kind |-> "customer", rows |-> Stored(ACustomer, NoRow)],
   [kind |-> "supplier", rows |-> Stored(ASupplier, NoRow)],
   [kind |-> "employee", rows |-> Stored(AnEmployee, [AnEmployee EXCEPT !.email = "n2", !.pin = Null])],
   [kind |-> "employee",
    rows |-> Stored(AnEmployee, [AnEmployee EXCEPT !.email = "n2", !.active = FALSE])],
   [kind |-> "item", rows |-> Stored(AnItem, NoRow)],
   [kind |-> "purchase", rows |-> Stored(NoRow, NoRow)],
   [kind |-> "fiscal", rows |-> Stored(AProfile, NoRow)],
   [kind |-> "fiscal", rows |-> Stored(ATestedProfile, NoRow)],
   [kind |-> "fiscal", rows |-> Stored(AProfileAlone, NoRow)],
   [kind |-> "fiscal", rows |-> Stored(NoRow, NoRow)]}

\* The bounds are spent on one thing at a time: one dialog among other managers,
\* or two dialogs alone; more edits where a new record needs them.
EditsLeft(alone) ==
  CASE kind = "product" -> IF alone THEN 1 ELSE 2
    [] kind = "fiscal" -> 1
    [] kind \in {"category", "customer", "employee"} -> 2
    [] kind \in {"supplier", "item"} -> IF alone THEN 2 ELSE 3
    [] kind = "purchase" -> MaxEdits

MCInit ==
  /\ \E s \in Starts : kind = s.kind /\ row = s.rows
  /\ InitialScreen
  /\ \/ opens = MaxOpens - 1 /\ others = 0 /\ edits = MaxEdits - EditsLeft(FALSE)
     \/ opens = 0 /\ others = MaxOthers /\ edits = MaxEdits - EditsLeft(TRUE)
     \/ kind = "employee" /\ opens = 0 /\ edits = MaxEdits - 2 /\ others = 0

MCSpec == MCInit /\ [][Next]_vars

=============================================================================
