------------------------- MODULE BackOffice_proofs -------------------------
(***************************************************************************)
(* What holds of the records however many managers work on them: proofs of *)
(* PinsUnique and ReadyAsTested, of TypeOK and of StoredAsEntered.         *)
(*                                                                         *)
(* First what a form holds, what is sent of it, and what the services make *)
(* of it, one kind of record after the other: every record that is created *)
(* or updated from a dialog is of its kind, and is as it was entered       *)
(* (CreatedAsEntered, UpdatedAsEntered).                                   *)
(*                                                                         *)
(* Then the invariants.  None is inductive.  What a request has read       *)
(* before it writes must still be so when it writes, which is because      *)
(* nobody else was there who could change it (PinAlone, TestApart), or     *)
(* else the records are marked as doubtful.  And what it will write must   *)
(* store what was entered over whatever row it meets by then (Promise).    *)
(***************************************************************************)
EXTENDS BackOffice, SumTheorems, TLAPS

-----------------------------------------------------------------------------
(* Forms that are submitted *)

\* A list that shows nothing.
Nothing == [i \in Ids |-> NoRow]

\* Where the units of the items are not known, a line is in pieces.
Offered(form, loaded) ==
  kind = "product" /\ ~loaded => \A n \in DOMAIN form.lines : form.lines[n].unit = "und"

\* d is what a dialog in this mode sent of the form.
Submitted(mode, form, d) ==
  /\ form \in Forms(mode) /\ Valid(form, NoId, Nothing)
  /\ \E a \in SUBSET {"g", "p1"} : Offered(form, a # {}) /\ d = Payload(form, a)

\* A field that is left out when it is blank.
SentUnlessBlank(form, d, f) ==
  /\ f \in DOMAIN d <=> form[f] # Blank
  /\ form[f] # Blank => d[f] = form[f]

-----------------------------------------------------------------------------
(* Lines of a recipe *)

\* A function on the first numbers is a sequence.
LEMMA SequenceOf ==
  ASSUME NEW S, NEW n \in Nat, NEW f \in [1..n -> S]
  PROVE  f \in Seq(S)
  OBVIOUS

\* A sequence of lines: each of them is one.
LEMMA LinesTyped ==
  ASSUME NEW S, NEW lines \in Seq(S)
  PROVE  /\ DOMAIN lines = 1..Len(lines) /\ Len(lines) \in Nat
         /\ IsFiniteSet(DOMAIN lines) /\ \A n \in DOMAIN lines : lines[n] \in S
<1>1. DOMAIN lines = 1..Len(lines) /\ Len(lines) \in Nat /\ \A n \in DOMAIN lines : lines[n] \in S
  OBVIOUS
<1>2. IsFiniteSet(1..Len(lines))
  BY <1>1, FS_Interval
<1>3. QED BY <1>1, <1>2

\* A recipe holds a number of each ingredient.
LEMMA RecipeTyped ==
  ASSUME NEW S, NEW lines \in Seq(S), \A x \in S : x.quantity \in Nat
  PROVE  Recipe(lines) \in [Ingredients -> Nat]
<1> DEFINE q == [n \in DOMAIN lines |-> lines[n].quantity]
           of(g) == {n \in DOMAIN lines : lines[n].ingredient = g}
<1>1. IsFiniteSet(DOMAIN lines) /\ \A n \in DOMAIN lines : q[n] \in Nat
  BY LinesTyped
<1>2. ASSUME NEW g \in Ingredients
      PROVE  SumFunctionOnSet(q, of(g)) \in Nat
  <2>1. IsFiniteSet(of(g)) /\ of(g) \subseteq DOMAIN lines
    BY <1>1, FS_Subset
  <2>2. [n \in of(g) |-> q[n]] \in [of(g) -> Nat]
    BY <1>1, <2>1
  <2>3. SumFunctionOnSet([n \in of(g) |-> q[n]], of(g)) \in Nat
    BY <2>1, <2>2, SumIsNat
  <2>4. SumFunctionOnSet(q, of(g)) = SumFunctionOnSet([n \in of(g) |-> q[n]], of(g))
    <3> DEFINE h == [n \in of(g) |-> q[n]]
    <3>1. \A n \in of(g) : q[n] = h[n]
      OBVIOUS
    <3> HIDE DEF q, h, of
    <3>2. QED BY <2>1, <3>1, SumSame
  <2>5. QED BY <2>3, <2>4
<1>3. Recipe(lines) = [g \in Ingredients |-> SumFunctionOnSet(q, of(g))]
  BY DEF Recipe
<1> HIDE DEF q, of
<1>4. QED BY <1>2, <1>3

\* In whole units a line is less than a unit away from what was typed.
LEMMA WholeUnitsNear ==
  ASSUME NEW line \in Line, line.quantity > 0, NEW loaded \in BOOLEAN,
         ~loaded => line.unit = "und"
  PROVE  /\ WholeUnits(line, loaded) \in Nat
         /\ Grid * WholeUnits(line, loaded) - line.quantity * Factor[line.unit] \in -1..1
<1> DEFINE q == line.quantity
<1>1. q \in Nat /\ q > 0 /\ line.unit \in {"g", "kg", "und"}
  BY DEF Line, Factor
<1>2. Factor["g"] = 1 /\ Factor["kg"] = 2 /\ Factor["und"] = 1 /\ Grid = 2
  BY DEF Factor, Grid
<1>3. CASE line.unit = "und"
  <2>1. WholeUnits(line, loaded) = IF (2 * q + 2) \div 4 < 1 THEN 1 ELSE (2 * q + 2) \div 4
    <3>1. CASE loaded
      BY <1>1, <1>2, <1>3, <3>1 DEF WholeUnits, BaseUnit, Converts, Dimension, RoundDiv
    <3>2. CASE ~loaded
      BY <1>1, <1>2, <1>3, <3>2 DEF WholeUnits, BaseUnit, Converts, Dimension, RoundDiv
    <3>3. QED BY <3>1, <3>2
  <2>2. line.quantity * Factor[line.unit] = q
    BY <1>1, <1>2, <1>3
  <2> HIDE DEF q
  <2>3. QED BY <1>1, <1>2, <2>1, <2>2 DEF q
<1>4. CASE line.unit = "g"
  <2>1. WholeUnits(line, loaded) = IF (2 * q + 2) \div 4 < 1 THEN 1 ELSE (2 * q + 2) \div 4
    BY <1>1, <1>2, <1>4 DEF WholeUnits, BaseUnit, Converts, Dimension, RoundDiv
  <2>2. line.quantity * Factor[line.unit] = q
    BY <1>1, <1>2, <1>4
  <2>3. QED BY <1>1, <1>2, <2>1, <2>2
<1>5. CASE line.unit = "kg"
  <2>1. WholeUnits(line, loaded) = IF (2 * (q * 2) + 2) \div 4 < 1 THEN 1 ELSE (2 * (q * 2) + 2) \div 4
    BY <1>1, <1>2, <1>5 DEF WholeUnits, BaseUnit, Converts, Dimension, RoundDiv
  <2>2. line.quantity * Factor[line.unit] = q * 2
    BY <1>1, <1>2, <1>5
  <2>3. QED BY <1>1, <1>2, <2>1, <2>2
<1>6. QED BY <1>1, <1>3, <1>4, <1>5

\* The lines that are sent make the recipe that was entered.
LEMMA RecipeSent ==
  ASSUME NEW form \in ProductForms, NEW loaded \in BOOLEAN,
         \A n \in DOMAIN form.lines : form.lines[n].quantity > 0,
         ~loaded => \A n \in DOMAIN form.lines : form.lines[n].unit = "und",
         NEW sent, sent = IF form.inventoried THEN BaseLines(form, loaded) ELSE <<>>
  PROVE  /\ Recipe(sent) \in [Ingredients -> Nat]
         /\ RecipeAsEntered(form, Recipe(sent))
<1> DEFINE lines == form.lines
           S == [ingredient : Ingredients \cup {Blank}, quantity : Nat]
<1>1. lines \in Seq(Line) /\ form.inventoried \in BOOLEAN
  BY DEF ProductForms
<1>2. /\ DOMAIN lines = 1..Len(lines) /\ Len(lines) \in Nat
      /\ IsFiniteSet(DOMAIN lines) /\ \A n \in DOMAIN lines : lines[n] \in Line
  BY <1>1, LinesTyped
<1>3. ASSUME NEW n \in DOMAIN lines
      PROVE  /\ WholeUnits(lines[n], loaded) \in Nat
             /\ Grid * WholeUnits(lines[n], loaded) - lines[n].quantity * Factor[lines[n].unit] \in -1..1
  BY <1>2, WholeUnitsNear
<1>4. \A n \in DOMAIN lines : lines[n].ingredient \in Ingredients \cup {Blank}
  BY <1>2 DEF Line
<1>5. sent \in Seq(S)
  <2>1. BaseLines(form, loaded) \in Seq(S)
    <3>1. BaseLines(form, loaded) \in [1..Len(lines) -> S]
      BY <1>2, <1>3, <1>4 DEF BaseLines
    <3> HIDE DEF S
    <3>2. QED BY <1>2, <3>1, SequenceOf
  <2>2. <<>> \in Seq(S)
    OBVIOUS
  <2>3. QED BY <1>1, <2>1, <2>2
<1>6. Recipe(sent) \in [Ingredients -> Nat]
  <2>1. \A x \in S : x.quantity \in Nat
    OBVIOUS
  <2> HIDE DEF S
  <2>2. QED BY <1>5, <2>1, RecipeTyped
<1>7. ASSUME NEW g \in Ingredients
      PROVE  LET n == IF form.inventoried THEN LinesOf(form, g) ELSE 0
                 typed == IF form.inventoried THEN Amount(form, g) ELSE 0
             IN /\ n = 0 => Recipe(sent)[g] = 0
                /\ n > 0 => Recipe(sent)[g] * Grid - typed \in (1 - n * Grid)..(n * Grid - 1)
  <2> DEFINE q == [n \in DOMAIN sent |-> sent[n].quantity]
             of == {n \in DOMAIN sent : sent[n].ingredient = g}
             h == [n \in DOMAIN lines |-> lines[n].quantity * Factor[lines[n].unit]]
  <2>1. Recipe(sent)[g] = SumFunctionOnSet(q, of)
    BY DEF Recipe
  <2>2. CASE ~form.inventoried
    <3>1. of = {}
      BY <2>2
    <3>2. Recipe(sent)[g] = 0
      BY <2>1, <3>1, SumOfNothing
    <3>3. QED BY <2>2, <3>2
  <2>3. CASE form.inventoried
    <3>1. sent = [n \in DOMAIN lines |-> [ingredient |-> lines[n].ingredient,
                                          quantity |-> WholeUnits(lines[n], loaded)]]
      BY <2>3 DEF BaseLines
    <3>2. /\ DOMAIN sent = DOMAIN lines
          /\ of = {n \in DOMAIN lines : lines[n].ingredient = g}
          /\ \A n \in DOMAIN lines : q[n] = WholeUnits(lines[n], loaded)
      BY <3>1
    <3>3. IsFiniteSet(of) /\ of \subseteq DOMAIN lines
      BY <1>2, <3>2, FS_Subset
    <3>4. \A n \in of : q[n] \in Int /\ h[n] \in Int /\ 2 * q[n] - h[n] \in -1..1
      <4> SUFFICES ASSUME NEW n \in of
                   PROVE  q[n] \in Int /\ h[n] \in Int /\ 2 * q[n] - h[n] \in -1..1
        OBVIOUS
      <4>1. n \in DOMAIN lines /\ q[n] = WholeUnits(lines[n], loaded)
        BY <3>2, <3>3
      <4>2. h[n] = lines[n].quantity * Factor[lines[n].unit]
        BY <4>1
      <4>3. h[n] \in Int
        <5>1. lines[n].quantity \in Nat /\ Factor[lines[n].unit] \in Nat
          BY <1>2, <4>1 DEF Line, Factor
        <5>2. QED BY <4>2, <5>1
      <4>4. QED BY <1>3, <4>1, <4>2, <4>3 DEF Grid
    <3> HIDE DEF q, h, of
    <3>5. /\ 2 * SumFunctionOnSet(q, of) - SumFunctionOnSet(h, of) \in -Cardinality(of)..Cardinality(of)
          /\ SumFunctionOnSet(q, of) \in Int /\ SumFunctionOnSet(h, of) \in Int
      BY <3>3, <3>4, SumWithin
    <3>6. LinesOf(form, g) = Cardinality(of) /\ Amount(form, g) = SumFunctionOnSet(h, of)
      BY <3>2 DEF LinesOf, Amount, h
    <3>7. Cardinality(of) \in Nat /\ (Cardinality(of) = 0 => of = {})
      BY <3>3, FS_CardinalityType, FS_EmptySet
    <3>8. Cardinality(of) = 0 => Recipe(sent)[g] = 0
      BY <2>1, <3>7, SumOfNothing
    <3>9. QED BY <2>1, <2>3, <3>5, <3>6, <3>7, <3>8 DEF Grid
  <2>4. QED BY <1>1, <2>2, <2>3
<1>8. RecipeAsEntered(form, Recipe(sent))
  BY <1>7 DEF RecipeAsEntered
<1>9. QED BY <1>6, <1>8

-----------------------------------------------------------------------------
(* What is sent and stored, kind by kind *)

\* What the dialog of a category sends.
LEMMA CategorySent ==
  ASSUME kind = "category", NEW mode, NEW form, NEW d, Submitted(mode, form, d)
  PROVE  /\ form \in CategoryForms /\ form.name \in Names
         /\ d = form
  BY DEF Submitted, Forms, Valid, CategoryValid, Payload, CategoryPayload, CategoryForms

\* The category that is created of it.
LEMMA CategoryCreated ==
  ASSUME kind = "category", NEW mode, NEW form, NEW d, Submitted(mode, form, d), NEW before
  PROVE  /\ CreateCategory(d).data \in CategoryRows
         /\ CreateCategory(d).data.life = "live"
         /\ AsEntered(form, CreateCategory(d).data, before)
<1>1. /\ form \in CategoryForms /\ form.name \in Names
         /\ d = form
  BY CategorySent
<1> DEFINE r == [life |-> "live", name |-> form.name, active |-> form.active]
<1>2. CreateCategory(d).data = r
  BY <1>1 DEF CreateCategory, Reply, Given, CategoryForms
<1>3. r \in CategoryRows
  BY <1>1 DEF CategoryRows, CategoryForms, Life
<1>4. AsEntered(form, r, before)
  BY <1>1 DEF AsEntered, ShowsAgain, Defaults, CategoryDefaults, CategoryForms, Showing, Having, NoRow, Names, Null, Blank
<1>5. QED BY <1>2, <1>3, <1>4

\* The category that is updated with it.
LEMMA CategoryUpdated ==
  ASSUME kind = "category", NEW mode, NEW form, NEW d, Submitted(mode, form, d),
         NEW r \in CategoryRows, NEW i
  PROVE  /\ Merged(r, UpdateCategory(i, d).data) \in CategoryRows
         /\ AsEntered(form, Merged(r, UpdateCategory(i, d).data), r)
<1>1. /\ form \in CategoryForms /\ form.name \in Names
         /\ d = form
  BY CategorySent
<1> DEFINE m == [life |-> r.life, name |-> form.name, active |-> form.active]
<1>2. Merged(r, UpdateCategory(i, d).data) = m
  BY <1>1 DEF UpdateCategory, Reply, Given, Merged, CategoryForms, CategoryRows
<1>3. m \in CategoryRows
  BY <1>1 DEF CategoryRows, CategoryForms, Life
<1>4. AsEntered(form, m, r)
  BY <1>1 DEF AsEntered, ShowsAgain, Defaults, CategoryDefaults, CategoryForms, Showing, Having, NoRow, Names, Null, Blank
<1>5. QED BY <1>2, <1>3, <1>4
\* What the dialog of a customer sends.
LEMMA CustomerSent ==
  ASSUME kind = "customer", NEW mode, NEW form, NEW d, Submitted(mode, form, d)
  PROVE  /\ form \in CustomerForms /\ form.name \in Names /\ form.number # <<>>
         /\ DOMAIN d \ {"email"} = {"document", "name", "active"}
         /\ d.document = DocumentOf(form) /\ d.name = form.name /\ d.active = form.active
         /\ SentUnlessBlank(form, d, "email")
<1>1. /\ form \in CustomerForms /\ CustomerValid(form) /\ d = CustomerPayload(form)
  BY DEF Submitted, Forms, Valid, Payload
<1>2. form.name \in Names /\ form.number # <<>>
  BY <1>1 DEF CustomerForms, CustomerValid
<1>3. DOMAIN form = {"type", "number", "dv", "name", "email", "active"}
  BY <1>1 DEF CustomerForms
<1>4. DOMAIN d = (({"type", "number", "dv", "name", "email", "active"}
                   \ {f \in {"email"} : form[f] = Blank}) \ {"type", "number", "dv"}) \cup {"document"}
  BY <1>1, <1>3 DEF CustomerPayload, Sent
<1>5. /\ d.document = DocumentOf(form) /\ d.name = form.name /\ d.active = form.active
      /\ form.email # Blank => d.email = form.email
  BY <1>1, <1>3, <1>4 DEF CustomerPayload
<1>6. DOMAIN d \ {"email"} = {"document", "name", "active"} /\ ("email" \in DOMAIN d <=> form.email # Blank)
  BY <1>4
<1>7. QED BY <1>1, <1>2, <1>5, <1>6 DEF SentUnlessBlank

\* A document that was typed in is one.
LEMMA DocumentTyped ==
  ASSUME NEW form, form.type \in DocumentTypes, form.number \in Numbers, form.dv \in Digits
  PROVE  DocumentOf(form) \in Documents
  BY DEF DocumentOf, Documents, Digits

\* A customer as entered, but for an email that was cleared.
LEMMA CustomerShows ==
  ASSUME kind = "customer", NEW form \in CustomerForms, form.name \in Names, form.number # <<>>,
         NEW r \in CustomerRows, r.document = DocumentOf(form), r.name = form.name,
         r.active = form.active, NEW before,
         \/ r.email = OrNull(form.email)
         \/ form.email = Blank /\ before # NoRow /\ r.email = before.email
  PROVE  AsEntered(form, r, before)
<1>1. /\ form.name # Null /\ form.name # Blank /\ r # NoRow
      /\ form.email # Null /\ DOMAIN form = {"type", "number", "dv", "name", "email", "active"}
  <2>1. r.life # "none" /\ NoRow.life = "none"
    BY DEF NoRow, Life, CustomerRows
  <2>2. form.email # Null /\ form.name # Null /\ form.name # Blank
    BY DEF Names, Null, Blank, CustomerForms, Entry, Texts
  <2>3. DOMAIN form = {"type", "number", "dv", "name", "email", "active"}
    BY DEF CustomerForms
  <2>4. QED BY <2>1, <2>2, <2>3
<1> DEFINE shown == CustomerDefaults(r)
<1>2. /\ shown.type = form.type /\ shown.number = form.number /\ shown.name = form.name
      /\ shown.active = form.active
      /\ r.email = OrNull(form.email) => shown.email = form.email
  <2>1. r.document.type = form.type /\ r.document.number = form.number
    BY DEF DocumentOf
  <2>2. QED BY <1>1, <2>1 DEF CustomerDefaults, Showing, Having, OrNull
<1>3. Defaults(r, aside) = shown
  BY DEF Defaults
<1>4. ShowsAgain(form, r, before)
  BY <1>1, <1>2, <1>3 DEF ShowsAgain, Unset
<1>5. DocumentAsEntered(form, r.document)
  BY DEF DocumentAsEntered, DocumentOf
<1>6. QED BY <1>4, <1>5 DEF AsEntered

\* The customer that is created of it.
LEMMA CustomerCreated ==
  ASSUME kind = "customer", NEW mode, NEW form, NEW d, Submitted(mode, form, d), NEW before
  PROVE  /\ CreateCustomer(d).data \in CustomerRows
         /\ CreateCustomer(d).data.life = "live"
         /\ AsEntered(form, CreateCustomer(d).data, before)
<1>1. /\ form \in CustomerForms /\ form.name \in Names /\ form.number # <<>>
      /\ DOMAIN d \ {"email"} = {"document", "name", "active"}
      /\ d.document = DocumentOf(form) /\ d.name = form.name /\ d.active = form.active
      /\ SentUnlessBlank(form, d, "email")
  BY CustomerSent
<1> DEFINE r == [life |-> "live", document |-> DocumentOf(form), name |-> form.name,
                 email |-> OrNull(form.email), active |-> form.active]
<1>2. CreateCustomer(d).data = r
  <2>1. Text(d, "email") = OrNull(form.email)
    BY <1>1 DEF Text, Given, SentUnlessBlank
  <2>2. Given(d, "active", TRUE) = form.active
    BY <1>1 DEF Given
  <2>3. QED BY <1>1, <2>1, <2>2 DEF CreateCustomer, Reply
<1>3. r \in CustomerRows
  BY <1>1, DocumentTyped DEF CustomerRows, CustomerForms, Life, OrNull, Optional, Entry
<1>4. AsEntered(form, r, before)
  BY <1>1, <1>3, CustomerShows
<1>5. QED BY <1>2, <1>3, <1>4

\* The customer that is updated with it.
LEMMA CustomerUpdated ==
  ASSUME kind = "customer", NEW mode, NEW form, NEW d, Submitted(mode, form, d),
         NEW r \in CustomerRows, NEW i
  PROVE  /\ Merged(r, UpdateCustomer(i, d).data) \in CustomerRows
         /\ AsEntered(form, Merged(r, UpdateCustomer(i, d).data), r)
<1>1. /\ form \in CustomerForms /\ form.name \in Names /\ form.number # <<>>
      /\ DOMAIN d \ {"email"} = {"document", "name", "active"}
      /\ d.document = DocumentOf(form) /\ d.name = form.name /\ d.active = form.active
      /\ SentUnlessBlank(form, d, "email")
  BY CustomerSent
<1> DEFINE c == UpdateCustomer(i, d).data
           m == [life |-> r.life, document |-> DocumentOf(form), name |-> form.name,
                 email |-> IF form.email = Blank THEN r.email ELSE form.email, active |-> form.active]
<1>2. /\ DOMAIN c = DOMAIN d /\ c.document = d.document /\ c.name = d.name /\ c.active = d.active
      /\ form.email # Blank => c.email = form.email
  BY <1>1 DEF UpdateCustomer, Reply, Texted, OrNull, SentUnlessBlank
<1>3. DOMAIN r = {"life", "document", "name", "email", "active"}
  BY DEF CustomerRows
<1> HIDE DEF c
<1>4. Merged(r, c) = m
  BY <1>1, <1>2, <1>3 DEF Given, Merged, SentUnlessBlank
<1>5. m \in CustomerRows
  BY <1>1, DocumentTyped DEF CustomerRows, CustomerForms, Life, OrNull, Optional, Entry
<1>6. m.email = OrNull(form.email) \/ (form.email = Blank /\ r # NoRow /\ m.email = r.email)
  BY DEF OrNull, NoRow, CustomerRows
<1>7. AsEntered(form, m, r)
  BY <1>1, <1>5, <1>6, CustomerShows
<1>8. QED BY <1>4, <1>5, <1>7 DEF c
\* The digit of a number is one of the digits.
LEMMA DigitTyped ==
  ASSUME NEW number \in Numbers
  PROVE  VerificationDigit(number) \in Digits
<1>1. CASE number = <<>>
  BY <1>1 DEF VerificationDigit, Digits
<1>2. CASE number # <<>>
  <2>1. Len(number) = 1 /\ number[1] \in Nat
    BY <1>2 DEF Numbers
  <2> DEFINE g == [i \in 1..Len(number) |-> number[Len(number) + 1 - i] * NitWeights[i]]
             sum == SumFunction(g)
             remainder == sum % 11
  <2>2. DOMAIN g = {1} /\ g[1] \in Nat
    BY <2>1 DEF NitWeights
  <2>3. sum \in Nat
    <3>1. IsFiniteSet({1}) /\ g \in [{1} -> Nat]
      BY <2>2, FS_Singleton
    <3>2. SumFunctionOnSet(g, {1}) \in Nat
      BY <3>1, SumIsNat
    <3>3. QED BY <3>2, <2>2 DEF SumFunction
  <2>4. VerificationDigit(number) = <<IF remainder < 2 THEN remainder ELSE 11 - remainder>>
    BY <2>1 DEF VerificationDigit
  <2> HIDE DEF sum
  <2>5. remainder \in 0..10
    BY <2>3
  <2>6. (IF remainder < 2 THEN remainder ELSE 11 - remainder) \in 0..9
    BY <2>5
  <2>7. QED BY <2>4, <2>6 DEF Digits
<1>3. QED BY <1>1, <1>2

\* What the dialog of a supplier sends.
LEMMA SupplierSent ==
  ASSUME kind = "supplier", NEW mode, NEW form, NEW d, Submitted(mode, form, d)
  PROVE  /\ form \in SupplierForms /\ form.name \in Names
         /\ form.type = "NIT" => NitIsValid(DocumentOf(form))
         /\ DOMAIN d \ {"email"} = {"document", "name"}
         /\ d.document = (IF form.number = <<>> THEN NoDocument ELSE DocumentOf(form))
         /\ d.name = form.name
         /\ SentUnlessBlank(form, d, "email")
<1>1. /\ form \in SupplierForms /\ SupplierValid(form) /\ d = SupplierPayload(form)
  BY DEF Submitted, Forms, Valid, Payload
<1>2. form.name \in Names /\ (form.type = "NIT" => NitIsValid(DocumentOf(form)))
  BY <1>1 DEF SupplierForms, SupplierValid
<1>3. DOMAIN form = {"name", "person", "type", "number", "dv", "email"}
  BY <1>1 DEF SupplierForms
<1>4. DOMAIN d = (({"name", "person", "type", "number", "dv", "email"}
                   \ {f \in {"email"} : form[f] = Blank}) \ {"person", "type", "number", "dv"})
                 \cup {"document"}
  BY <1>1, <1>3 DEF SupplierPayload, Sent
<1>5. /\ d.document = (IF form.number = <<>> THEN NoDocument ELSE DocumentOf(form))
      /\ d.name = form.name
      /\ form.email # Blank => d.email = form.email
  BY <1>1, <1>3, <1>4 DEF SupplierPayload
<1>6. DOMAIN d \ {"email"} = {"document", "name"} /\ ("email" \in DOMAIN d <=> form.email # Blank)
  BY <1>4
<1>7. QED BY <1>1, <1>2, <1>5, <1>6 DEF SentUnlessBlank

\* The supplier that is created of it; a NIT gets its digit.
LEMMA SupplierCreated ==
  ASSUME kind = "supplier", NEW mode, NEW form, NEW d, Submitted(mode, form, d), NEW before
  PROVE  /\ CreateSupplier(d).data \in SupplierRows
         /\ CreateSupplier(d).data.life = "live"
         /\ AsEntered(form, CreateSupplier(d).data, before)
<1>1. /\ form \in SupplierForms /\ form.name \in Names
      /\ form.type = "NIT" => NitIsValid(DocumentOf(form))
      /\ DOMAIN d \ {"email"} = {"document", "name"}
      /\ d.document = (IF form.number = <<>> THEN NoDocument ELSE DocumentOf(form))
      /\ d.name = form.name
      /\ SentUnlessBlank(form, d, "email")
  BY SupplierSent
<1> DEFINE document == SupplierDocument(d)
           r == [life |-> "live", name |-> form.name, document |-> document,
                 email |-> OrNull(form.email)]
<1>2. CreateSupplier(d).data = r
  <2>1. Text(d, "email") = OrNull(form.email)
    BY <1>1 DEF Text, Given, SentUnlessBlank
  <2>2. QED BY <1>1, <2>1 DEF CreateSupplier, Reply
<1>3. d.document \in Documents /\ Given(d, "document", NoDocument) = d.document
  BY <1>1, DocumentTyped DEF SupplierForms, NoDocument, Documents, DocumentTypes, Numbers, Digits, Given
<1>4. document = (IF d.document.type = "NIT" THEN FormattedNit(d.document) ELSE d.document)
  BY <1>3 DEF SupplierDocument
<1>5. document \in Documents
  BY <1>3, <1>4, DigitTyped DEF FormattedNit, Documents
<1>6. r \in SupplierRows
  BY <1>1, <1>5 DEF SupplierRows, SupplierForms, Life, OrNull, Optional, Entry
<1>7. DocumentAsEntered(form, document)
  <2> SUFFICES ASSUME form.number # <<>> PROVE DocumentAsEntered(form, document)
    BY DEF DocumentAsEntered
  <2>1. d.document = DocumentOf(form)
    BY <1>1
  <2>2. CASE form.type = "NIT"
    <3>1. d.document = [type |-> "NIT", number |-> form.number, dv |-> form.dv]
      BY <2>1, <2>2 DEF DocumentOf
    <3>2. document = [type |-> "NIT", number |-> form.number, dv |-> VerificationDigit(form.number)]
      BY <3>1, <1>4 DEF FormattedNit
    <3>3. form.dv \in {<<>>, VerificationDigit(form.number)}
      BY <1>1, <2>1, <2>2, <3>1 DEF NitIsValid
    <3>4. QED BY <2>2, <3>2, <3>3 DEF DocumentAsEntered
  <2>3. CASE form.type # "NIT"
    <3>1. d.document = [type |-> form.type, number |-> form.number, dv |-> <<>>]
      BY <2>1, <2>3 DEF DocumentOf
    <3>2. document = [type |-> form.type, number |-> form.number, dv |-> <<>>]
      BY <3>1, <1>4, <2>3
    <3>3. QED BY <2>3, <3>2 DEF DocumentAsEntered
  <2>4. QED BY <2>2, <2>3
<1> HIDE DEF document
<1>8. AsEntered(form, r, before)
  BY <1>1, <1>7 DEF AsEntered
<1>9. QED BY <1>2, <1>6, <1>8

\* The employee that is created.
LEMMA EmployeeCreated ==
  ASSUME kind = "employee", NEW mode, mode # "pin", NEW form, NEW d, Submitted(mode, form, d), NEW before
  PROVE  /\ CreateEmployee(d).data \in EmployeeRows
         /\ CreateEmployee(d).data.life = "live"
         /\ AsEntered(form, CreateEmployee(d).data, before)
<1>1. form \in EmployeeForms
  BY DEF Submitted, Forms
<1>2. DOMAIN form = {"email", "password", "active"}
  BY <1>1 DEF EmployeeForms
<1>3. EmployeeValid(form) /\ d = form
  BY <1>2 DEF Submitted, Valid, Payload, EmployeePayload
<1> DEFINE r == [life |-> "live", email |-> form.email, branch |-> "b1", active |-> form.active, pin |-> Null]
<1>4. CreateEmployee(d).data = r
  BY <1>2, <1>3 DEF CreateEmployee, Reply, Given
<1>5. r \in EmployeeRows
  BY <1>1, <1>3 DEF EmployeeRows, EmployeeForms, EmployeeValid, Life, Optional
<1>6. AsEntered(form, r, before)
  BY <1>2 DEF AsEntered
<1>7. QED BY <1>4, <1>5, <1>6

\* What the dialog of a PIN sends.
LEMMA PinSent ==
  ASSUME kind = "employee", NEW form, NEW d, Submitted("pin", form, d)
  PROVE  form \in PinForms /\ form.pin \in Texts /\ d = [pin |-> form.pin]
<1>1. form \in PinForms
  BY DEF Submitted, Forms
<1>2. DOMAIN form = {"pin", "confirm"}
  BY <1>1 DEF PinForms
<1>3. PinValid(form) /\ d = PinPayload(form)
  BY <1>2 DEF Submitted, Valid, Payload
<1>4. QED BY <1>1, <1>3 DEF PinForms, PinValid, PinPayload, Entry

\* The PIN that is stored.
LEMMA PinStored ==
  ASSUME kind = "employee", NEW form, NEW d, Submitted("pin", form, d), NEW r \in EmployeeRows, NEW before
  PROVE  AsEntered(form, Merged(r, d), before)
<1>1. form \in PinForms /\ form.pin \in Texts /\ d = [pin |-> form.pin]
  BY PinSent
<1>2. "pin" \in DOMAIN form /\ "pin" \in DOMAIN r
  BY <1>1 DEF PinForms, EmployeeRows
<1>3. Merged(r, d).pin = form.pin
  BY <1>1, <1>2 DEF Merged, Given
<1>4. QED BY <1>2, <1>3 DEF AsEntered

\* The inventory item that is created.
LEMMA ItemCreated ==
  ASSUME kind = "item", NEW mode, NEW form, NEW d, Submitted(mode, form, d), NEW before
  PROVE  /\ CreateItem(d).data \in ItemRows
         /\ CreateItem(d).data.life = "live"
         /\ AsEntered(form, CreateItem(d).data, before)
<1>1. form \in ItemForms /\ form.name \in Names /\ d = form
  BY DEF Submitted, Forms, Valid, ItemValid, Payload, ItemPayload, ItemForms
<1>2. DOMAIN form = {"category", "name", "product", "stock", "cost", "minimum", "negative"}
  BY <1>1 DEF ItemForms
<1> DEFINE r == [life |-> "live", name |-> form.name, product |-> form.product, stock |-> form.stock,
                 minimum |-> form.minimum, negative |-> form.negative]
<1>3. OrNull(form.product) = form.product
  BY <1>1 DEF ItemForms, OrNull, Null, Blank
<1>4. CreateItem(d).data = r
  BY <1>1, <1>2, <1>3 DEF CreateItem, Reply, Given
<1>5. r \in ItemRows
  BY <1>1 DEF ItemRows, ItemForms, Life
<1>6. AsEntered(form, r, before)
  <2>1. \A f \in DOMAIN form \cap DOMAIN r : r[f] = form[f]
    BY <1>2
  <2>2. QED BY <2>1 DEF AsEntered
<1>7. QED BY <1>4, <1>5, <1>6

\* The lines of a purchase add up to a number.
LEMMA SubtotalTyped ==
  ASSUME NEW lines \in Seq(PurchaseLine)
  PROVE  Subtotal(lines) \in Nat
<1> DEFINE g == [n \in DOMAIN lines |-> lines[n].quantity * lines[n].cost]
<1>1. IsFiniteSet(DOMAIN lines)
  BY FS_Interval
<1>2. \A n \in DOMAIN lines : lines[n] \in PurchaseLine
  OBVIOUS
<1>3. g \in [DOMAIN lines -> Nat]
  BY <1>2 DEF PurchaseLine
<1>4. SumFunctionOnSet(g, DOMAIN lines) \in Nat
  BY <1>1, <1>3, SumIsNat
<1>5. DOMAIN g = DOMAIN lines
  OBVIOUS
<1>6. QED BY <1>4, <1>5 DEF Subtotal, SumFunction

\* The purchase that is created.
LEMMA PurchaseCreated ==
  ASSUME kind = "purchase", NEW mode, NEW form, NEW d, Submitted(mode, form, d), NEW before
  PROVE  /\ CreatePurchase(d).data \in PurchaseRows
         /\ CreatePurchase(d).data.life = "live"
         /\ AsEntered(form, CreatePurchase(d).data, before)
<1>1. form \in PurchaseForms /\ d = Sent(form, {"reference"})
  BY DEF Submitted, Forms, Payload, PurchasePayload
<1>2. DOMAIN form = {"supplier", "reference", "tax", "lines"}
  BY <1>1 DEF PurchaseForms
<1>3. /\ d.lines = form.lines /\ d.tax = form.tax
      /\ "reference" \in DOMAIN d <=> form.reference # Blank
      /\ form.reference # Blank => d.reference = form.reference
  BY <1>1, <1>2 DEF Sent
<1> DEFINE r == [life |-> "live", reference |-> OrNull(form.reference), subtotal |-> Subtotal(form.lines),
                 tax |-> form.tax, total |-> Subtotal(form.lines) + form.tax]
<1>4. CreatePurchase(d).data = r
  BY <1>3 DEF CreatePurchase, Reply, Text, Given
<1>5. Subtotal(form.lines) \in Nat
  BY <1>1, SubtotalTyped DEF PurchaseForms
<1>6. r \in PurchaseRows
  BY <1>1, <1>5 DEF PurchaseRows, PurchaseForms, Life, OrNull, Optional, Entry
<1>7. AsEntered(form, r, before)
  BY DEF AsEntered
<1>8. QED BY <1>4, <1>6, <1>7

\* The fiscal profile that is written over the one there is, or created.
LEMMA ProfileCreated ==
  ASSUME kind = "fiscal", NEW mode, NEW form, NEW d, Submitted(mode, form, d), NEW before
  PROVE  /\ UpsertProfile(d).data \in FiscalRows
         /\ UpsertProfile(d).data.life = "live"
         /\ AsEntered(form, UpsertProfile(d).data, before)
<1>1. form \in FiscalForms /\ form.legalName \in Names /\ d = form
  BY DEF Submitted, Forms, Valid, FiscalValid, Payload, FiscalPayload, FiscalForms
<1>2. DOMAIN form = {"legalName", "resolution", "from", "to", "provider", "providerName", "softwareId",
                     "endpoint"}
  BY <1>1 DEF FiscalForms
<1> DEFINE ready == \E i \in Profiles : row[i].ready
           r == [life |-> "live", legalName |-> form.legalName, resolution |-> OrNull(form.resolution),
                 from |-> form.from, to |-> form.to, provider |-> form.provider,
                 providerName |-> OrNull(form.providerName), softwareId |-> OrNull(form.softwareId),
                 endpoint |-> OrNull(form.endpoint), status |-> "CONFIGURED", ready |-> ready]
           c == UpsertProfile(d).data
<1>3. /\ DOMAIN c = DOMAIN d \cup {"life", "status", "ready"}
      /\ c.life = "live" /\ c.status = "CONFIGURED" /\ c.ready = ready
      /\ c.resolution = OrNull(d.resolution) /\ c.providerName = OrNull(d.providerName)
      /\ c.softwareId = OrNull(d.softwareId) /\ c.endpoint = OrNull(d.endpoint)
      /\ c.legalName = d.legalName /\ c.from = d.from /\ c.to = d.to /\ c.provider = d.provider
      /\ c = [f \in DOMAIN c |-> c[f]]
  BY <1>1, <1>2 DEF UpsertProfile, Reply, OptionalOfProfile
<1> HIDE DEF c, ready
<1>4. c = r
  BY <1>1, <1>2, <1>3
<1>5. ready \in BOOLEAN
  BY DEF ready
<1>6. r \in FiscalRows
  BY <1>1, <1>5 DEF FiscalRows, FiscalForms, Life, OrNull, Optional, Entry
<1>7. /\ form.resolution # Null /\ form.providerName # Null /\ form.softwareId # Null
      /\ form.endpoint # Null /\ form.legalName # Null
  BY <1>1 DEF FiscalForms, Entry, Names, Texts, Null, Blank
<1>8. AsEntered(form, r, before)
  <2>1. r # NoRow
    BY DEF NoRow
  <2>2. \A f \in DOMAIN form : FiscalDefaults(r)[f] = form[f]
    BY <1>2, <1>7, <2>1 DEF FiscalDefaults, Showing, Having, OrNull
  <2>3. QED BY <2>2 DEF AsEntered, ShowsAgain, Defaults
<1>9. QED BY <1>4, <1>6, <1>8 DEF c

\* A whole row is inserted as it is; nothing remains of a profile that was there.
LEMMA InsertedWhole ==
  ASSUME NEW r \in Rows(kind), NEW old \in {NoRow} \cup Rows(kind)
  PROVE  Inserted(old, r) = r
<1>1. CASE kind # "fiscal"
  BY <1>1 DEF Inserted
<1>2. CASE kind = "fiscal"
  <2> DEFINE kept == IF old = NoRow THEN NoProvider ELSE old
  <2>1. r \in FiscalRows /\ old \in {NoRow} \cup FiscalRows
    BY <1>2 DEF Rows
  <2>2. DOMAIN kept \subseteq DOMAIN r /\ r = [f \in DOMAIN r |-> r[f]]
    BY <2>1 DEF FiscalRows, NoProvider
  <2>3. Inserted(old, r) = [f \in DOMAIN r \cup DOMAIN kept |-> Given(r, f, kept[f])]
    BY <1>2 DEF Inserted
  <2> HIDE DEF kept
  <2>4. Inserted(old, r) = [f \in DOMAIN r |-> r[f]]
    BY <2>2, <2>3 DEF Given
  <2>5. QED BY <2>2, <2>4
<1>3. QED BY <1>1, <1>2

\* A profile that is sent without its provider keeps the one it has.
LEMMA ProfileWithout ==
  ASSUME kind = "fiscal", NEW form \in FiscalForms, form.legalName \in Names,
         NEW old \in {NoRow} \cup FiscalRows
  PROVE  LET r == Inserted(old, UpsertProfile(WithoutProvider(form)).data)
         IN r \in FiscalRows /\ r.life = "live"
<1> DEFINE d == WithoutProvider(form)
           c == UpsertProfile(d).data
           ready == \E i \in Profiles : row[i].ready
           kept == IF old = NoRow THEN NoProvider ELSE old
           r == [life |-> "live", legalName |-> form.legalName, resolution |-> OrNull(form.resolution),
                 from |-> form.from, to |-> form.to, provider |-> kept.provider,
                 providerName |-> kept.providerName, softwareId |-> kept.softwareId,
                 endpoint |-> kept.endpoint, status |-> kept.status, ready |-> ready]
<1>1. /\ DOMAIN d = {"legalName", "resolution", "from", "to"}
      /\ \A f \in DOMAIN d : d[f] = form[f]
  BY DEF WithoutProvider, Restrict, FiscalIdentity, FiscalResolution
<1> HIDE DEF d
<1>2. /\ DOMAIN c = {"legalName", "resolution", "from", "to", "life", "ready"}
      /\ c.life = "live" /\ c.ready = ready /\ c.resolution = OrNull(d.resolution)
      /\ c.legalName = d.legalName /\ c.from = d.from /\ c.to = d.to
  BY <1>1 DEF UpsertProfile, Reply, OptionalOfProfile
<1>3. /\ kept.provider \in ProviderTypes
      /\ {kept.providerName, kept.softwareId, kept.endpoint} \subseteq Optional
      /\ kept.status \in {"NOT_CONFIGURED", "CONFIGURED", "CONNECTION_TESTED", "ERROR"}
      /\ {"provider", "providerName", "softwareId", "endpoint", "status"} \subseteq DOMAIN kept
      /\ DOMAIN kept \subseteq DOMAIN r
  BY DEF FiscalRows, NoProvider, ProviderTypes, Optional
<1>4. ready \in BOOLEAN
  BY DEF ready
<1>5. Inserted(old, c) = [f \in DOMAIN c \cup DOMAIN kept |-> Given(c, f, kept[f])]
  BY DEF Inserted
<1> HIDE DEF c, kept, ready
<1>6. Inserted(old, c) = r
  BY <1>1, <1>2, <1>3, <1>5 DEF Given
<1>7. r \in FiscalRows
  BY <1>3, <1>4 DEF FiscalRows, FiscalForms, Life, OrNull, Optional, Entry
<1>8. QED BY <1>6, <1>7 DEF c, d

\* What the dialog of a product sends.
LEMMA ProductSent ==
  ASSUME kind = "product", NEW mode, NEW form, NEW d, Submitted(mode, form, d)
  PROVE  /\ form \in ProductForms /\ form.name \in Names
         /\ DOMAIN d \ {"sku", "category"} = {"name", "amount", "active", "inventoried", "lines"}
         /\ d.name = form.name /\ d.amount = form.amount /\ d.active = form.active
         /\ d.inventoried = form.inventoried
         /\ SentUnlessBlank(form, d, "sku") /\ SentUnlessBlank(form, d, "category")
         /\ Recipe(d.lines) \in [Ingredients -> Nat] /\ RecipeAsEntered(form, Recipe(d.lines))
<1>1. PICK a \in SUBSET {"g", "p1"} : Offered(form, a # {}) /\ d = Payload(form, a)
  BY DEF Submitted
<1> DEFINE loaded == a # {}
           sent == IF form.inventoried THEN BaseLines(form, loaded) ELSE <<>>
           kept == {"name", "sku", "category", "amount", "active", "inventoried", "lines"}
                     \ {f \in {"sku", "category"} : form[f] = Blank}
<1>2. form \in ProductForms /\ ProductValid(form, NoId, Nothing) /\ d = ProductPayload(form, loaded)
  BY <1>1 DEF Submitted, Forms, Valid, Payload
<1>3. /\ form.name \in Names
      /\ \A n \in DOMAIN form.lines : form.lines[n].quantity > 0
  BY <1>2 DEF ProductForms, ProductValid
<1>4. DOMAIN form = {"name", "sku", "category", "amount", "active", "inventoried", "lines"}
  BY <1>2 DEF ProductForms
<1>5. d = [[f \in kept |-> form[f]] EXCEPT !.lines = sent]
  BY <1>2, <1>4 DEF ProductPayload, Sent
<1>6. "lines" \in kept /\ kept \ {"sku", "category"} = {"name", "amount", "active", "inventoried", "lines"}
      /\ ("sku" \in kept <=> form.sku # Blank) /\ ("category" \in kept <=> form.category # Blank)
  OBVIOUS
<1> HIDE DEF kept, sent
<1>7. /\ DOMAIN d = kept /\ d.lines = sent
      /\ d.name = form.name /\ d.amount = form.amount /\ d.active = form.active
      /\ d.inventoried = form.inventoried
      /\ "sku" \in kept => d.sku = form.sku
      /\ "category" \in kept => d.category = form.category
  BY <1>5, <1>6
<1>8. SentUnlessBlank(form, d, "sku") /\ SentUnlessBlank(form, d, "category")
  BY <1>6, <1>7 DEF SentUnlessBlank
<1>9. ~loaded => \A n \in DOMAIN form.lines : form.lines[n].unit = "und"
  BY <1>1 DEF Offered
<1>10. Recipe(sent) \in [Ingredients -> Nat] /\ RecipeAsEntered(form, Recipe(sent))
  <2>1. loaded \in BOOLEAN
    OBVIOUS
  <2> HIDE DEF loaded
  <2>2. QED BY <1>2, <1>3, <1>9, <2>1, RecipeSent DEF sent
<1>11. QED BY <1>2, <1>3, <1>6, <1>7, <1>8, <1>10

\* A product as it was entered, but for what was cleared.
LEMMA ProductShows ==
  ASSUME kind = "product", NEW form \in ProductForms, form.name \in Names,
         NEW r \in ProductRows, r.name = form.name, r.amount = form.amount,
         r.active = form.active, r.inventoried = form.inventoried,
         RecipeAsEntered(form, r.recipe), NEW before,
         \/ r.sku = OrNull(form.sku)
         \/ form.sku = Blank /\ before # NoRow /\ r.sku = before.sku,
         \/ r.category = OrNull(form.category)
         \/ form.category = Blank /\ before # NoRow /\ r.category = before.category
  PROVE  AsEntered(form, r, before)
<1>1. r # NoRow
  <2>1. r.life # "none" /\ NoRow.life = "none"
    BY DEF NoRow, Life, ProductRows
  <2>2. QED BY <2>1
<1>2. form.sku # Null /\ form.name # Null /\ form.name # Blank /\ form.category # Null
  BY DEF Names, Null, Blank, ProductForms, Entry, Texts
<1>3. DOMAIN form = {"name", "sku", "category", "amount", "active", "inventoried", "lines"}
  BY DEF ProductForms
<1> DEFINE shown == Defaults(r, aside)
<1>4. /\ shown.name = Showing(r, "name") /\ shown.sku = Showing(r, "sku")
      /\ shown.category = Showing(r, "category") /\ shown.amount = Having(r, "amount", 0)
      /\ shown.active = Having(r, "active", TRUE) /\ shown.inventoried = Having(r, "inventoried", FALSE)
  BY DEF Defaults, ProductDefaults
<1>5. /\ shown.name = form.name /\ shown.amount = form.amount
      /\ shown.active = form.active /\ shown.inventoried = form.inventoried
      /\ r.sku = OrNull(form.sku) => shown.sku = form.sku
      /\ r.category = OrNull(form.category) => shown.category = form.category
  BY <1>1, <1>2, <1>4 DEF Showing, Having, OrNull
<1> HIDE DEF shown
<1>6. \A f \in DOMAIN form \ {"dv", "lines"} :
        shown[f] = form[f] \/ (f \in Unset /\ form[f] = Blank /\ before # NoRow /\ r[f] = before[f])
  BY <1>3, <1>5 DEF Unset
<1>7. ShowsAgain(form, r, before)
  BY <1>6 DEF ShowsAgain, shown
<1>8. QED BY <1>7 DEF AsEntered

\* The product that is created of it.
LEMMA ProductCreated ==
  ASSUME kind = "product", NEW mode, NEW form, NEW d, Submitted(mode, form, d), NEW before
  PROVE  /\ CreateProduct(d).data \in ProductRows
         /\ CreateProduct(d).data.life = "live"
         /\ AsEntered(form, CreateProduct(d).data, before)
<1>1. /\ form \in ProductForms /\ form.name \in Names
      /\ DOMAIN d \ {"sku", "category"} = {"name", "amount", "active", "inventoried", "lines"}
      /\ d.name = form.name /\ d.amount = form.amount /\ d.active = form.active
      /\ d.inventoried = form.inventoried
      /\ SentUnlessBlank(form, d, "sku") /\ SentUnlessBlank(form, d, "category")
      /\ Recipe(d.lines) \in [Ingredients -> Nat] /\ RecipeAsEntered(form, Recipe(d.lines))
  BY ProductSent
<1> DEFINE r == [life |-> "live", name |-> form.name, sku |-> OrNull(form.sku),
                 category |-> OrNull(form.category), amount |-> form.amount, active |-> form.active,
                 inventoried |-> form.inventoried, recipe |-> Recipe(d.lines)]
<1>2. CreateProduct(d).data = r
  <2>1. Text(d, "sku") = OrNull(form.sku) /\ Text(d, "category") = OrNull(form.category)
    BY <1>1 DEF Text, Given, SentUnlessBlank
  <2>2. /\ Given(d, "active", TRUE) = form.active
        /\ Given(d, "inventoried", FALSE) = form.inventoried
        /\ Given(d, "lines", <<>>) = d.lines
    BY <1>1 DEF Given
  <2>3. QED BY <1>1, <2>1, <2>2 DEF CreateProduct, Reply
<1>3. r \in ProductRows
  BY <1>1 DEF ProductRows, ProductForms, Life, OrNull, Optional, Entry
<1>4. AsEntered(form, r, before)
  BY <1>1, <1>3, ProductShows
<1>5. QED BY <1>2, <1>3, <1>4

\* The product that is updated with it.
LEMMA ProductUpdated ==
  ASSUME kind = "product", NEW mode, NEW form, NEW d, Submitted(mode, form, d),
         NEW r \in ProductRows, NEW i
  PROVE  /\ Merged(r, UpdateProduct(i, d).data) \in ProductRows
         /\ AsEntered(form, Merged(r, UpdateProduct(i, d).data), r)
<1>1. /\ form \in ProductForms /\ form.name \in Names
      /\ DOMAIN d \ {"sku", "category"} = {"name", "amount", "active", "inventoried", "lines"}
      /\ d.name = form.name /\ d.amount = form.amount /\ d.active = form.active
      /\ d.inventoried = form.inventoried
      /\ SentUnlessBlank(form, d, "sku") /\ SentUnlessBlank(form, d, "category")
      /\ Recipe(d.lines) \in [Ingredients -> Nat] /\ RecipeAsEntered(form, Recipe(d.lines))
  BY ProductSent
<1> DEFINE c == UpdateProduct(i, d).data
           m == [life |-> r.life, name |-> form.name,
                 sku |-> IF form.sku = Blank THEN r.sku ELSE form.sku,
                 category |-> IF form.category = Blank THEN r.category ELSE form.category,
                 amount |-> form.amount, active |-> form.active,
                 inventoried |-> form.inventoried, recipe |-> Recipe(d.lines)]
<1>2. DOMAIN r = {"life", "name", "sku", "category", "amount", "active", "inventoried", "recipe"}
  BY DEF ProductRows
<1>3. c = [f \in (DOMAIN d \ {"lines"}) \cup {"recipe"} |->
             IF f = "recipe" THEN Recipe(d.lines) ELSE Texted(d, {"sku"})[f]]
  BY <1>1 DEF UpdateProduct, Reply
<1>4. /\ DOMAIN c = (DOMAIN d \ {"lines"}) \cup {"recipe"} /\ c.recipe = Recipe(d.lines)
      /\ c.name = form.name /\ c.amount = form.amount /\ c.active = form.active
      /\ c.inventoried = form.inventoried
      /\ form.sku # Blank => c.sku = form.sku
      /\ form.category # Blank => c.category = form.category
  BY <1>1, <1>3 DEF Texted, OrNull, SentUnlessBlank
<1> HIDE DEF c
<1>5. Merged(r, c) = m
  BY <1>1, <1>2, <1>4 DEF Given, Merged, SentUnlessBlank
<1>6. m \in ProductRows
  BY <1>1 DEF ProductRows, ProductForms, Life, OrNull, Optional, Entry
<1>7. /\ m.sku = OrNull(form.sku) \/ (form.sku = Blank /\ r # NoRow /\ m.sku = r.sku)
      /\ m.category = OrNull(form.category) \/ (form.category = Blank /\ r # NoRow /\ m.category = r.category)
  <2>1. r # NoRow
    <3>1. r.life # "none" /\ NoRow.life = "none"
      BY DEF NoRow, Life, ProductRows
    <3>2. QED BY <3>1
  <2>2. QED BY <2>1 DEF OrNull
<1>8. AsEntered(form, m, r)
  BY <1>1, <1>6, <1>7, ProductShows
<1>9. QED BY <1>5, <1>6, <1>8 DEF c

-----------------------------------------------------------------------------
(* What is sent otherwise *)

\* What is written over a row leaves a row.
Fitting(d) == \A r \in Rows(kind) : Merged(r, d) \in Rows(kind)

\* The access of an employee is switched, a PIN is set, a connection is tested.
LEMMA AccessFits ==
  ASSUME kind = "employee", NEW b \in BOOLEAN
  PROVE  Fitting([active |-> b])
<1>1. ASSUME NEW r \in EmployeeRows
      PROVE  Merged(r, [active |-> b]) \in EmployeeRows
  <2>1. DOMAIN r = {"life", "email", "branch", "active", "pin"}
    BY DEF EmployeeRows
  <2>2. Merged(r, [active |-> b]) = [life |-> r.life, email |-> r.email, branch |-> r.branch, active |-> b,
                                     pin |-> r.pin]
    BY <2>1 DEF Merged, Given
  <2>3. QED BY <2>2 DEF EmployeeRows
<1>2. QED BY <1>1 DEF Fitting, Rows

\* What the API allows beyond the dialogs.
LEMMA ApiFits ==
  ASSUME kind \in Kinds, NEW d \in ApiPayloads, NEW i
  PROVE  Fitting(Updated(i, d).data)
<1>1. CASE kind = "employee"
  <2>1. d \in {[active |-> TRUE], [branch |-> "b2"]}
    BY <1>1 DEF ApiPayloads
  <2>2. Updated(i, d).data = d
    BY <1>1 DEF Updated, UpdateEmployee, Reply
  <2>3. ASSUME NEW r \in EmployeeRows
        PROVE  Merged(r, d) \in EmployeeRows
    <3>1. DOMAIN r = {"life", "email", "branch", "active", "pin"}
      BY DEF EmployeeRows
    <3>2. CASE d = [active |-> TRUE]
      <4>1. Fitting([active |-> TRUE])
        BY <1>1, AccessFits
      <4>2. QED BY <1>1, <3>2, <4>1 DEF Fitting, Rows
    <3>3. CASE d = [branch |-> "b2"]
      <4>1. Merged(r, d) = [life |-> r.life, email |-> r.email, branch |-> "b2", active |-> r.active,
                            pin |-> r.pin]
        BY <3>1, <3>3 DEF Merged, Given
      <4>2. QED BY <4>1 DEF EmployeeRows
    <3>4. QED BY <2>1, <3>2, <3>3
  <2>4. QED BY <1>1, <2>2, <2>3 DEF Fitting, Rows
<1>2. CASE kind = "supplier"
  <2>1. d = [email |-> Blank]
    BY <1>2 DEF ApiPayloads
  <2>2. Updated(i, d).data = [email |-> Null]
    <3>1. UpdateSupplier(i, d).data = [f \in DOMAIN d |-> IF f = "document" THEN SupplierDocument(d)
                                             ELSE IF f = "email" THEN OrNull(d.email) ELSE d[f]]
      BY DEF UpdateSupplier, Reply
    <3>2. UpdateSupplier(i, d).data = [f \in {"email"} |-> Null]
      BY <2>1, <3>1 DEF OrNull
    <3>3. QED BY <1>2, <3>2 DEF Updated
  <2>3. ASSUME NEW r \in SupplierRows
        PROVE  Merged(r, [email |-> Null]) \in SupplierRows
    <3>1. DOMAIN r = {"life", "name", "document", "email"}
      BY DEF SupplierRows
    <3>2. Merged(r, [email |-> Null]) = [life |-> r.life, name |-> r.name, document |-> r.document,
                                         email |-> Null]
      BY <3>1 DEF Merged, Given
    <3>3. QED BY <3>2 DEF SupplierRows, Optional
  <2>4. QED BY <1>2, <2>2, <2>3 DEF Fitting, Rows
<1>3. CASE kind = "item"
  <2>1. d \in {[minimum |-> 1], [product |-> "p1"]}
    BY <1>3 DEF ApiPayloads
  <2>2. Updated(i, d).data = d
    BY <1>3 DEF Updated, UpdateItem, Reply
  <2>3. ASSUME NEW r \in ItemRows
        PROVE  Merged(r, d) \in ItemRows
    <3>1. DOMAIN r = {"life", "name", "product", "stock", "minimum", "negative"}
      BY DEF ItemRows
    <3>2. CASE d = [minimum |-> 1]
      <4>1. Merged(r, d) = [life |-> r.life, name |-> r.name, product |-> r.product, stock |-> r.stock,
                            minimum |-> 1, negative |-> r.negative]
        BY <3>1, <3>2 DEF Merged, Given
      <4>2. QED BY <4>1 DEF ItemRows
    <3>3. CASE d = [product |-> "p1"]
      <4>1. Merged(r, d) = [life |-> r.life, name |-> r.name, product |-> "p1", stock |-> r.stock,
                            minimum |-> r.minimum, negative |-> r.negative]
        BY <3>1, <3>3 DEF Merged, Given
      <4>2. QED BY <4>1 DEF ItemRows
    <3>4. QED BY <2>1, <3>2, <3>3
  <2>4. QED BY <1>3, <2>2, <2>3 DEF Fitting, Rows
<1>4. CASE kind \notin {"employee", "supplier", "item"}
  BY <1>4 DEF ApiPayloads
<1>5. QED BY <1>1, <1>2, <1>3, <1>4

\* A PIN is set.
LEMMA PinFits ==
  ASSUME kind = "employee", NEW p \in Texts
  PROVE  Fitting([pin |-> p])
<1>1. ASSUME NEW r \in EmployeeRows
      PROVE  Merged(r, [pin |-> p]) \in EmployeeRows
  <2>1. DOMAIN r = {"life", "email", "branch", "active", "pin"}
    BY DEF EmployeeRows
  <2>2. Merged(r, [pin |-> p]) = [life |-> r.life, email |-> r.email, branch |-> r.branch,
                                  active |-> r.active, pin |-> p]
    BY <2>1 DEF Merged, Given
  <2>3. QED BY <2>2 DEF EmployeeRows, Optional
<1>2. QED BY <1>1 DEF Fitting, Rows

\* A connection is tested.
LEMMA TestFits ==
  ASSUME kind = "fiscal", NEW i
  PROVE  Fitting(TestConnection(i).data)
<1> DEFINE status == IF ProviderIsReady(row[i]) THEN "CONNECTION_TESTED" ELSE "ERROR"
           ready == ProviderIsReady(row[i]) /\ HasRequiredData(row[i])
           d == [status |-> status, ready |-> ready]
<1>1. TestConnection(i).data = d
  BY DEF TestConnection, Reply
<1>2. status \in {"CONNECTION_TESTED", "ERROR"} /\ ready \in BOOLEAN
  BY DEF ProviderIsReady, HasRequiredData
<1>3. DOMAIN d = {"status", "ready"} /\ d.status = status /\ d.ready = ready
  OBVIOUS
<1> HIDE DEF status, ready, d
<1>4. ASSUME NEW r \in FiscalRows
      PROVE  Merged(r, d) \in FiscalRows
  <2>1. DOMAIN r = {"life", "legalName", "resolution", "from", "to", "provider", "providerName",
                    "softwareId", "endpoint", "status", "ready"}
    BY DEF FiscalRows
  <2>2. Merged(r, d) = [life |-> r.life, legalName |-> r.legalName, resolution |-> r.resolution,
                        from |-> r.from, to |-> r.to, provider |-> r.provider,
                        providerName |-> r.providerName, softwareId |-> r.softwareId,
                        endpoint |-> r.endpoint, status |-> status, ready |-> ready]
    BY <1>3, <2>1 DEF Merged, Given
  <2>3. QED BY <1>2, <2>2 DEF FiscalRows
<1>5. QED BY <1>1, <1>4 DEF Fitting, Rows

\* A row that is removed keeps what it held.
LEMMA RemovedFits ==
  ASSUME kind \in Kinds, NEW r \in Rows(kind)
  PROVE  Merged([r EXCEPT !.life = "removed"],
                IF kind = "employee" THEN [active |-> FALSE] ELSE [life |-> "removed"]) \in Rows(kind)
<1> DEFINE s == [r EXCEPT !.life = "removed"]
<1>1. s \in Rows(kind)
  <2>1. CASE kind = "category"
    BY <2>1 DEF Rows, CategoryRows, Life
  <2>2. CASE kind = "product"
    BY <2>2 DEF Rows, ProductRows, Life
  <2>3. CASE kind = "customer"
    BY <2>3 DEF Rows, CustomerRows, Life
  <2>4. CASE kind = "supplier"
    BY <2>4 DEF Rows, SupplierRows, Life
  <2>5. CASE kind = "employee"
    BY <2>5 DEF Rows, EmployeeRows, Life
  <2>6. CASE kind = "item"
    BY <2>6 DEF Rows, ItemRows, Life
  <2>7. CASE kind = "purchase"
    BY <2>7 DEF Rows, PurchaseRows, Life
  <2>8. CASE kind = "fiscal"
    BY <2>8 DEF Rows, FiscalRows, Life
  <2>9. QED BY <2>1, <2>2, <2>3, <2>4, <2>5, <2>6, <2>7, <2>8 DEF Kinds
<1>2. CASE kind = "employee"
  BY <1>1, <1>2, AccessFits DEF Fitting
<1>3. CASE kind # "employee"
  <2>1. "life" \in DOMAIN r /\ r = [f \in DOMAIN r |-> r[f]]
    <3>1. CASE kind = "category"
      BY <3>1 DEF Rows, CategoryRows
    <3>2. CASE kind = "product"
      BY <3>2 DEF Rows, ProductRows
    <3>3. CASE kind = "customer"
      BY <3>3 DEF Rows, CustomerRows
    <3>4. CASE kind = "supplier"
      BY <3>4 DEF Rows, SupplierRows
    <3>5. CASE kind = "item"
      BY <3>5 DEF Rows, ItemRows
    <3>6. CASE kind = "purchase"
      BY <3>6 DEF Rows, PurchaseRows
    <3>7. CASE kind = "fiscal"
      BY <3>7 DEF Rows, FiscalRows
    <3>8. QED BY <1>3, <3>1, <3>2, <3>3, <3>4, <3>5, <3>6, <3>7 DEF Kinds
  <2>2. Merged(s, [life |-> "removed"]) = s
    BY <2>1 DEF Merged, Given
  <2>3. QED BY <1>1, <1>3, <2>2
<1>4. QED BY <1>2, <1>3

-----------------------------------------------------------------------------
(* What a form holds when it is opened and after an edit *)

\* One field is edited.
LEMMA EditedField ==
  ASSUME NEW form, NEW fields, NEW f \in Typed(form, fields)
  PROVE  \E x \in DOMAIN fields : \E v \in fields[x] : f = [form EXCEPT ![x] = v]
  BY DEF Typed

\* A field of a category is edited.
LEMMA CategoryTyped ==
  ASSUME NEW form \in CategoryForms, NEW f,
         f \in Typed(form, CategoryFields)
  PROVE  f \in CategoryForms
<1>1. CASE f \in Typed(form, CategoryFields)
  <2>1. PICK x \in DOMAIN CategoryFields : \E v \in CategoryFields[x] : f = [form EXCEPT ![x] = v]
    BY <1>1, EditedField
  <2>2. x \in {"name", "active"}
    BY DEF CategoryFields
  <2>3. CASE x = "name"
    BY <2>1, <2>3 DEF CategoryForms, CategoryFields
  <2>4. CASE x = "active"
    BY <2>1, <2>4 DEF CategoryForms, CategoryFields
  <2>5. QED BY <2>2, <2>3, <2>4
<1>2. QED BY <1>1

\* A field of a product is edited.
LEMMA ProductTyped ==
  ASSUME NEW form \in ProductForms, NEW f,
         f \in Typed(form, ProductIdentity) \/ f \in Typed(form, ProductPricing) \/ f \in Typed(form, ProductAvailability)
  PROVE  f \in ProductForms
<1>1. CASE f \in Typed(form, ProductIdentity)
  <2>1. PICK x \in DOMAIN ProductIdentity : \E v \in ProductIdentity[x] : f = [form EXCEPT ![x] = v]
    BY <1>1, EditedField
  <2>2. x \in {"name", "sku", "category"}
    BY DEF ProductIdentity
  <2>3. CASE x = "name"
    BY <2>1, <2>3 DEF ProductForms, ProductIdentity
  <2>4. CASE x = "sku"
    BY <2>1, <2>4 DEF ProductForms, ProductIdentity
  <2>5. CASE x = "category"
    BY <2>1, <2>5 DEF ProductForms, ProductIdentity
  <2>6. QED BY <2>2, <2>3, <2>4, <2>5
<1>2. CASE f \in Typed(form, ProductPricing)
  <2>1. PICK x \in DOMAIN ProductPricing : \E v \in ProductPricing[x] : f = [form EXCEPT ![x] = v]
    BY <1>2, EditedField
  <2>2. x \in {"amount"}
    BY DEF ProductPricing
  <2>3. CASE x = "amount"
    BY <2>1, <2>3 DEF ProductForms, ProductPricing
  <2>4. QED BY <2>2, <2>3
<1>3. CASE f \in Typed(form, ProductAvailability)
  <2>1. PICK x \in DOMAIN ProductAvailability : \E v \in ProductAvailability[x] : f = [form EXCEPT ![x] = v]
    BY <1>3, EditedField
  <2>2. x \in {"active", "inventoried"}
    BY DEF ProductAvailability
  <2>3. CASE x = "active"
    BY <2>1, <2>3 DEF ProductForms, ProductAvailability
  <2>4. CASE x = "inventoried"
    BY <2>1, <2>4 DEF ProductForms, ProductAvailability
  <2>5. QED BY <2>2, <2>3, <2>4
<1>4. QED BY <1>1, <1>2, <1>3

\* A field of a customer is edited.
LEMMA CustomerTyped ==
  ASSUME NEW form \in CustomerForms, NEW f,
         f \in Typed(form, CustomerFields)
  PROVE  f \in CustomerForms
<1>1. CASE f \in Typed(form, CustomerFields)
  <2>1. PICK x \in DOMAIN CustomerFields : \E v \in CustomerFields[x] : f = [form EXCEPT ![x] = v]
    BY <1>1, EditedField
  <2>2. x \in {"type", "name", "email", "active"}
    BY DEF CustomerFields
  <2>3. CASE x = "type"
    BY <2>1, <2>3 DEF CustomerForms, CustomerFields
  <2>4. CASE x = "name"
    BY <2>1, <2>4 DEF CustomerForms, CustomerFields
  <2>5. CASE x = "email"
    BY <2>1, <2>5 DEF CustomerForms, CustomerFields
  <2>6. CASE x = "active"
    BY <2>1, <2>6 DEF CustomerForms, CustomerFields
  <2>7. QED BY <2>2, <2>3, <2>4, <2>5, <2>6
<1>2. QED BY <1>1

\* A field of a supplier is edited.
LEMMA SupplierTyped ==
  ASSUME NEW form \in SupplierForms, NEW f,
         f \in Typed(form, SupplierFields)
  PROVE  f \in SupplierForms
<1>1. CASE f \in Typed(form, SupplierFields)
  <2>1. PICK x \in DOMAIN SupplierFields : \E v \in SupplierFields[x] : f = [form EXCEPT ![x] = v]
    BY <1>1, EditedField
  <2>2. x \in {"name", "email"}
    BY DEF SupplierFields
  <2>3. CASE x = "name"
    BY <2>1, <2>3 DEF SupplierForms, SupplierFields
  <2>4. CASE x = "email"
    BY <2>1, <2>4 DEF SupplierForms, SupplierFields
  <2>5. QED BY <2>2, <2>3, <2>4
<1>2. QED BY <1>1

\* A field of an employee is edited.
LEMMA EmployeeTyped ==
  ASSUME NEW form \in EmployeeForms, NEW f,
         f \in Typed(form, EmployeeFields)
  PROVE  f \in EmployeeForms
<1>1. CASE f \in Typed(form, EmployeeFields)
  <2>1. PICK x \in DOMAIN EmployeeFields : \E v \in EmployeeFields[x] : f = [form EXCEPT ![x] = v]
    BY <1>1, EditedField
  <2>2. x \in {"email", "password", "active"}
    BY DEF EmployeeFields
  <2>3. CASE x = "email"
    BY <2>1, <2>3 DEF EmployeeForms, EmployeeFields
  <2>4. CASE x = "password"
    BY <2>1, <2>4 DEF EmployeeForms, EmployeeFields
  <2>5. CASE x = "active"
    BY <2>1, <2>5 DEF EmployeeForms, EmployeeFields
  <2>6. QED BY <2>2, <2>3, <2>4, <2>5
<1>2. QED BY <1>1

\* A field of a PIN is edited.
LEMMA PinTyped ==
  ASSUME NEW form \in PinForms, NEW f,
         f \in Typed(form, PinFields)
  PROVE  f \in PinForms
<1>1. CASE f \in Typed(form, PinFields)
  <2>1. PICK x \in DOMAIN PinFields : \E v \in PinFields[x] : f = [form EXCEPT ![x] = v]
    BY <1>1, EditedField
  <2>2. x \in {"pin", "confirm"}
    BY DEF PinFields
  <2>3. CASE x = "pin"
    BY <2>1, <2>3 DEF PinForms, PinFields
  <2>4. CASE x = "confirm"
    BY <2>1, <2>4 DEF PinForms, PinFields
  <2>5. QED BY <2>2, <2>3, <2>4
<1>2. QED BY <1>1

\* A field of an item is edited.
LEMMA ItemTyped ==
  ASSUME NEW form \in ItemForms, NEW f,
         f \in Typed(form, ItemFields)
  PROVE  f \in ItemForms
<1>1. CASE f \in Typed(form, ItemFields)
  <2>1. PICK x \in DOMAIN ItemFields : \E v \in ItemFields[x] : f = [form EXCEPT ![x] = v]
    BY <1>1, EditedField
  <2>2. x \in {"category", "name", "product", "stock", "cost", "minimum", "negative"}
    BY DEF ItemFields
  <2>3. CASE x = "category"
    BY <2>1, <2>3 DEF ItemForms, ItemFields
  <2>4. CASE x = "name"
    BY <2>1, <2>4 DEF ItemForms, ItemFields
  <2>5. CASE x = "product"
    BY <2>1, <2>5 DEF ItemForms, ItemFields
  <2>6. CASE x = "stock"
    BY <2>1, <2>6 DEF ItemForms, ItemFields
  <2>7. CASE x = "cost"
    BY <2>1, <2>7 DEF ItemForms, ItemFields
  <2>8. CASE x = "minimum"
    BY <2>1, <2>8 DEF ItemForms, ItemFields
  <2>9. CASE x = "negative"
    BY <2>1, <2>9 DEF ItemForms, ItemFields
  <2>10. QED BY <2>2, <2>3, <2>4, <2>5, <2>6, <2>7, <2>8, <2>9
<1>2. QED BY <1>1

\* A field of a purchase is edited.
LEMMA PurchaseTyped ==
  ASSUME NEW form \in PurchaseForms, NEW f,
         f \in Typed(form, PurchaseFields)
  PROVE  f \in PurchaseForms
<1>1. CASE f \in Typed(form, PurchaseFields)
  <2>1. PICK x \in DOMAIN PurchaseFields : \E v \in PurchaseFields[x] : f = [form EXCEPT ![x] = v]
    BY <1>1, EditedField
  <2>2. x \in {"supplier", "reference", "tax"}
    BY DEF PurchaseFields
  <2>3. CASE x = "supplier"
    BY <2>1, <2>3 DEF PurchaseForms, PurchaseFields
  <2>4. CASE x = "reference"
    BY <2>1, <2>4 DEF PurchaseForms, PurchaseFields
  <2>5. CASE x = "tax"
    BY <2>1, <2>5 DEF PurchaseForms, PurchaseFields
  <2>6. QED BY <2>2, <2>3, <2>4, <2>5
<1>2. QED BY <1>1

\* A field of the profile is edited.
LEMMA FiscalTyped ==
  ASSUME NEW form \in FiscalForms, NEW f,
         f \in Typed(form, FiscalIdentity) \/ f \in Typed(form, FiscalResolution) \/ f \in Typed(form, FiscalProvider)
  PROVE  f \in FiscalForms
<1>1. CASE f \in Typed(form, FiscalIdentity)
  <2>1. PICK x \in DOMAIN FiscalIdentity : \E v \in FiscalIdentity[x] : f = [form EXCEPT ![x] = v]
    BY <1>1, EditedField
  <2>2. x \in {"legalName"}
    BY DEF FiscalIdentity
  <2>3. CASE x = "legalName"
    BY <2>1, <2>3 DEF FiscalForms, FiscalIdentity
  <2>4. QED BY <2>2, <2>3
<1>2. CASE f \in Typed(form, FiscalResolution)
  <2>1. PICK x \in DOMAIN FiscalResolution : \E v \in FiscalResolution[x] : f = [form EXCEPT ![x] = v]
    BY <1>2, EditedField
  <2>2. x \in {"resolution", "from", "to"}
    BY DEF FiscalResolution
  <2>3. CASE x = "resolution"
    BY <2>1, <2>3 DEF FiscalForms, FiscalResolution
  <2>4. CASE x = "from"
    BY <2>1, <2>4 DEF FiscalForms, FiscalResolution
  <2>5. CASE x = "to"
    BY <2>1, <2>5 DEF FiscalForms, FiscalResolution
  <2>6. QED BY <2>2, <2>3, <2>4, <2>5
<1>3. CASE f \in Typed(form, FiscalProvider)
  <2>1. PICK x \in DOMAIN FiscalProvider : \E v \in FiscalProvider[x] : f = [form EXCEPT ![x] = v]
    BY <1>3, EditedField
  <2>2. x \in {"provider", "providerName", "softwareId", "endpoint"}
    BY DEF FiscalProvider
  <2>3. CASE x = "provider"
    BY <2>1, <2>3 DEF FiscalForms, FiscalProvider
  <2>4. CASE x = "providerName"
    BY <2>1, <2>4 DEF FiscalForms, FiscalProvider
  <2>5. CASE x = "softwareId"
    BY <2>1, <2>5 DEF FiscalForms, FiscalProvider
  <2>6. CASE x = "endpoint"
    BY <2>1, <2>6 DEF FiscalForms, FiscalProvider
  <2>7. QED BY <2>2, <2>3, <2>4, <2>5, <2>6
<1>4. QED BY <1>1, <1>2, <1>3
\* A document is edited.
LEMMA DocumentEdited ==
  ASSUME NEW form, NEW f \in DocumentEdits(form)
  PROVE  \/ \E n \in Numbers :
              f = [form EXCEPT !.number = n,
                               !.dv = IF form.type = "NIT" THEN VerificationDigit(n) ELSE form.dv]
         \/ \E d \in {<<>>, <<0>>} : f = [form EXCEPT !.dv = d]
  BY DEF DocumentEdits

\* The form of a customer is edited.
LEMMA CustomerEdited ==
  ASSUME NEW form \in CustomerForms, NEW f \in CustomerEdits(form)
  PROVE  f \in CustomerForms
<1>1. CASE f \in Typed(form, CustomerFields)
  BY <1>1, CustomerTyped
<1>2. ASSUME NEW n \in Numbers, NEW d \in Digits, f = [form EXCEPT !.number = n, !.dv = d]
      PROVE  f \in CustomerForms
  BY <1>2 DEF CustomerForms
<1>3. ASSUME NEW d \in Digits, f = [form EXCEPT !.dv = d]
      PROVE  f \in CustomerForms
  BY <1>3 DEF CustomerForms
<1>4. CASE f \in DocumentEdits(form)
  <2>1. form.dv \in Digits /\ \A n \in Numbers : VerificationDigit(n) \in Digits
    BY DigitTyped DEF CustomerForms
  <2>2. <<>> \in Digits /\ <<0>> \in Digits
    BY DEF Digits
  <2>3. QED BY <1>2, <1>3, <1>4, <2>1, <2>2, DocumentEdited
<1>5. QED BY <1>1, <1>4 DEF CustomerEdits

\* The form of a supplier is edited.
LEMMA SupplierEdited ==
  ASSUME NEW form \in SupplierForms, NEW f \in SupplierEdits(form)
  PROVE  f \in SupplierForms
<1>1. CASE f \in Typed(form, SupplierFields)
  BY <1>1, SupplierTyped
<1>2. ASSUME NEW n \in Numbers, NEW d \in Digits, f = [form EXCEPT !.number = n, !.dv = d]
      PROVE  f \in SupplierForms
  BY <1>2 DEF SupplierForms
<1>3. ASSUME NEW d \in Digits, f = [form EXCEPT !.dv = d]
      PROVE  f \in SupplierForms
  BY <1>3 DEF SupplierForms
<1>4. CASE f \in DocumentEdits(form)
  <2>1. form.dv \in Digits /\ \A n \in Numbers : VerificationDigit(n) \in Digits
    BY DigitTyped DEF SupplierForms
  <2>2. <<>> \in Digits /\ <<0>> \in Digits
    BY DEF Digits
  <2>3. QED BY <1>2, <1>3, <1>4, <2>1, <2>2, DocumentEdited
<1>5. CASE f \in {[form EXCEPT !.person = "JURIDICA", !.type = "NIT"],
                  [form EXCEPT !.person = "NATURAL", !.type = "CC"]}
  BY <1>5 DEF SupplierForms, DocumentTypes
<1>6. QED BY <1>1, <1>4, <1>5 DEF SupplierEdits

\* The form of the profile is edited.
LEMMA FiscalEdited ==
  ASSUME NEW form \in FiscalForms, NEW f \in FiscalEdits(form)
  PROVE  f \in FiscalForms
  BY FiscalTyped DEF FiscalEdits

\* Lines are added, edited and removed.
LEMMA LineAdded ==
  ASSUME NEW S, NEW lines \in Seq(S), NEW x \in S
  PROVE  Append(lines, x) \in Seq(S)
  OBVIOUS

\* A line is edited.
LEMMA LineEdited ==
  ASSUME NEW S, NEW lines \in Seq(S), NEW n, NEW x \in S
  PROVE  [lines EXCEPT ![n] = x] \in Seq(S)
<1> DEFINE k == Len(lines)
<1>1. lines \in [1..k -> S] /\ k \in Nat
  OBVIOUS
<1> HIDE DEF k
<1>2. [lines EXCEPT ![n] = x] \in [1..k -> S]
  BY <1>1
<1>3. QED BY <1>1, <1>2, SequenceOf

\* A line is removed.
LEMMA LineRemoved ==
  ASSUME NEW S, NEW lines \in Seq(S), NEW n \in DOMAIN lines
  PROVE  RemoveLine(lines, n) \in Seq(S)
<1>1. Len(lines) - 1 \in Nat
  OBVIOUS
<1>2. RemoveLine(lines, n) \in [1..(Len(lines) - 1) -> S]
  BY DEF RemoveLine
<1>3. QED BY <1>1, <1>2, SequenceOf

\* A form whose lines change.
LEMMA PurchaseWithLines ==
  ASSUME NEW form \in PurchaseForms, NEW lines \in Seq(PurchaseLine)
  PROVE  [form EXCEPT !.lines = lines] \in PurchaseForms
  BY DEF PurchaseForms

\* The form of a purchase is edited.
LEMMA PurchaseEdited ==
  ASSUME NEW form \in PurchaseForms, NEW f \in PurchaseEdits(form)
  PROVE  f \in PurchaseForms
<1>1. form.lines \in Seq(PurchaseLine)
  BY DEF PurchaseForms
<1>2. CASE f \in Typed(form, PurchaseFields)
  BY <1>2, PurchaseTyped
<1>3. CASE f \in PurchaseLines(form)
  <2>1. CASE f = [form EXCEPT !.lines = Append(@, EmptyItem)]
    <3>1. EmptyItem \in PurchaseLine
      BY DEF EmptyItem, PurchaseLine
    <3>2. Append(form.lines, EmptyItem) \in Seq(PurchaseLine)
      BY <1>1, <3>1, LineAdded
    <3>3. f = [form EXCEPT !.lines = Append(form.lines, EmptyItem)]
      BY <2>1
    <3>4. QED BY <3>2, <3>3, PurchaseWithLines
  <2>2. ASSUME NEW n \in DOMAIN form.lines,
               \/ \E x \in {"n1", Blank} : f = [form EXCEPT !.lines[n].name = x]
               \/ \E q \in 0..2 : f = [form EXCEPT !.lines[n].quantity = q]
               \/ \E c \in 0..1 : f = [form EXCEPT !.lines[n].cost = c]
        PROVE  f \in PurchaseForms
    <3>1. form.lines[n] \in PurchaseLine
      BY <1>1
    <3>2. PICK line \in PurchaseLine : f = [form EXCEPT !.lines = [form.lines EXCEPT ![n] = line]]
      <4>1. ASSUME NEW x \in {"n1", Blank}, f = [form EXCEPT !.lines[n].name = x]
            PROVE  \E line \in PurchaseLine : f = [form EXCEPT !.lines = [form.lines EXCEPT ![n] = line]]
        <5>1. [form.lines[n] EXCEPT !.name = x] \in PurchaseLine
          BY <3>1 DEF PurchaseLine
        <5>2. f = [form EXCEPT !.lines = [form.lines EXCEPT ![n] = [form.lines[n] EXCEPT !.name = x]]]
          BY <4>1
        <5>3. QED BY <5>1, <5>2
      <4>2. ASSUME NEW q \in 0..2, f = [form EXCEPT !.lines[n].quantity = q]
            PROVE  \E line \in PurchaseLine : f = [form EXCEPT !.lines = [form.lines EXCEPT ![n] = line]]
        <5>1. [form.lines[n] EXCEPT !.quantity = q] \in PurchaseLine
          BY <3>1 DEF PurchaseLine
        <5>2. f = [form EXCEPT !.lines = [form.lines EXCEPT ![n] = [form.lines[n] EXCEPT !.quantity = q]]]
          BY <4>2
        <5>3. QED BY <5>1, <5>2
      <4>3. ASSUME NEW c \in 0..1, f = [form EXCEPT !.lines[n].cost = c]
            PROVE  \E line \in PurchaseLine : f = [form EXCEPT !.lines = [form.lines EXCEPT ![n] = line]]
        <5>1. [form.lines[n] EXCEPT !.cost = c] \in PurchaseLine
          BY <3>1 DEF PurchaseLine
        <5>2. f = [form EXCEPT !.lines = [form.lines EXCEPT ![n] = [form.lines[n] EXCEPT !.cost = c]]]
          BY <4>3
        <5>3. QED BY <5>1, <5>2
      <4>4. QED BY <2>2, <4>1, <4>2, <4>3
    <3>3. [form.lines EXCEPT ![n] = line] \in Seq(PurchaseLine)
      BY <1>1, LineEdited
    <3>4. QED BY <3>2, <3>3, PurchaseWithLines
  <2>3. ASSUME NEW n \in DOMAIN form.lines, f = [form EXCEPT !.lines = RemoveLine(@, n)]
        PROVE  f \in PurchaseForms
    <3>1. RemoveLine(form.lines, n) \in Seq(PurchaseLine)
      BY <1>1, LineRemoved
    <3>2. f = [form EXCEPT !.lines = RemoveLine(form.lines, n)]
      BY <2>3
    <3>3. QED BY <3>1, <3>2, PurchaseWithLines
  <2>4. QED BY <1>3, <2>1, <2>2, <2>3 DEF PurchaseLines
<1>4. QED BY <1>2, <1>3 DEF PurchaseEdits

\* A form of a product with other lines, which keep to pieces where nothing else is known.
InPieces(lines) == \A n \in DOMAIN lines : lines[n].unit = "und"
RecipeOK(lines, loaded) == lines \in Seq(Line) /\ (~loaded => InPieces(lines))

\* The lines of a product are replaced.
LEMMA ProductWithLines ==
  ASSUME NEW form \in ProductForms, NEW loaded, NEW lines, RecipeOK(lines, loaded)
  PROVE  LET f == [form EXCEPT !.lines = lines] IN f \in ProductForms /\ RecipeOK(f.lines, loaded)
  BY DEF ProductForms, RecipeOK

\* A line of a recipe is replaced.
LEMMA RecipeWithLine ==
  ASSUME NEW loaded, NEW lines, RecipeOK(lines, loaded), NEW n \in DOMAIN lines, NEW line \in Line,
         ~loaded => line.unit = "und"
  PROVE  RecipeOK([lines EXCEPT ![n] = line], loaded)
<1>1. [lines EXCEPT ![n] = line] \in Seq(Line)
  BY LineEdited DEF RecipeOK
<1>2. ~loaded => InPieces([lines EXCEPT ![n] = line])
  BY DEF RecipeOK, InPieces
<1>3. QED BY <1>1, <1>2 DEF RecipeOK

\* One line of the recipe is edited.
LEMMA LineOfRecipe ==
  ASSUME NEW form \in ProductForms, NEW loaded \in BOOLEAN, RecipeOK(form.lines, loaded),
         NEW n \in DOMAIN form.lines,
         NEW f \in {PickIngredient(form, n, g, loaded) : g \in Ingredients \cup {Blank}}
                     \cup {[form EXCEPT !.lines[n].quantity = q * Grid] : q \in 0..1}
                     \cup {PickUnit(form, n, u) : u \in UnitsOffered(form.lines[n], loaded)}
  PROVE  \E line \in Line : /\ ~loaded => line.unit = "und"
                            /\ f = [form EXCEPT !.lines = [form.lines EXCEPT ![n] = line]]
<1> DEFINE old == form.lines[n]
           With(line) == [form EXCEPT !.lines = [form.lines EXCEPT ![n] = line]]
<1>1. old \in Line /\ (~loaded => old.unit = "und") /\ form.lines \in Seq(Line)
  BY DEF RecipeOK, InPieces
<1>2. ASSUME NEW g \in Ingredients \cup {Blank}, f = PickIngredient(form, n, g, loaded)
      PROVE  \E line \in Line : (~loaded => line.unit = "und") /\ f = With(line)
  <2> DEFINE picked == [form EXCEPT !.lines[n].ingredient = g]
             line == [old EXCEPT !.ingredient = g]
             based == [line EXCEPT !.unit = BaseUnit(loaded)]
  <2>1. picked = With(line)
    OBVIOUS
  <2>2. line \in Line /\ line.unit = old.unit
    BY <1>1 DEF Line
  <2>3. CASE g # Blank /\ loaded
    <3>1. f = [picked EXCEPT !.lines[n].unit = BaseUnit(loaded)]
      BY <1>2, <2>3 DEF PickIngredient
    <3>2. f = With(based)
      <4>1. picked.lines[n] = line /\ picked.lines = [form.lines EXCEPT ![n] = line]
        BY <2>1 DEF ProductForms
      <4>2. f = [picked EXCEPT !.lines = [picked.lines EXCEPT ![n] = [picked.lines[n] EXCEPT !.unit = BaseUnit(loaded)]]]
        BY <3>1
      <4> HIDE DEF line, picked
      <4>3. f = [picked EXCEPT !.lines = [[form.lines EXCEPT ![n] = line] EXCEPT ![n] = based]]
        BY <4>1, <4>2
      <4>4. [[form.lines EXCEPT ![n] = line] EXCEPT ![n] = based] = [form.lines EXCEPT ![n] = based]
        OBVIOUS
      <4>5. f = [picked EXCEPT !.lines = [form.lines EXCEPT ![n] = based]]
        BY <4>3, <4>4
      <4>6. QED BY <4>5, <2>1
    <3>3. based \in Line
      BY <2>2, <2>3 DEF Line, BaseUnit, Factor
    <3>4. QED BY <2>3, <3>2, <3>3
  <2>4. CASE ~(g # Blank /\ loaded)
    <3>1. f = With(line)
      BY <1>2, <2>1, <2>4 DEF PickIngredient
    <3>2. QED BY <1>1, <2>2, <3>1
  <2>5. QED BY <2>3, <2>4
<1>3. ASSUME NEW q \in 0..1, f = [form EXCEPT !.lines[n].quantity = q * Grid]
      PROVE  \E line \in Line : (~loaded => line.unit = "und") /\ f = With(line)
  <2> DEFINE line == [old EXCEPT !.quantity = q * Grid]
  <2>1. line \in Line /\ line.unit = old.unit
    BY <1>1 DEF Line, Grid
  <2>2. f = With(line)
    BY <1>3
  <2>3. QED BY <1>1, <2>1, <2>2
<1>4. ASSUME NEW u \in UnitsOffered(form.lines[n], loaded), f = PickUnit(form, n, u)
      PROVE  \E line \in Line : (~loaded => line.unit = "und") /\ f = With(line)
  <2> DEFINE quantity == IF Converts(old.unit, u) THEN ConvertQuantity(old.quantity, old.unit, u)
                         ELSE old.quantity
             line == [old EXCEPT !.unit = u, !.quantity = quantity]
  <2>1. u \in DOMAIN Factor /\ (~loaded => u = "und")
    BY <1>4 DEF UnitsOffered, BaseUnit, Dimension, Factor
  <2>2. quantity \in Nat
    <3>1. old.quantity \in Nat /\ old.unit \in {"g", "kg", "und"} /\ u \in {"g", "kg", "und"}
      BY <1>1, <2>1 DEF Line, Factor
    <3>2. Factor["g"] = 1 /\ Factor["kg"] = 2 /\ Factor["und"] = 1
      BY DEF Factor
    <3>3. Factor[old.unit] \in {1, 2} /\ Factor[u] \in {1, 2}
      BY <3>1, <3>2
    <3>4. \A a \in {1, 2}, b \in {1, 2} : (2 * (old.quantity * a) + b) \div (2 * b) \in Nat
      BY <3>1
    <3>5. ConvertQuantity(old.quantity, old.unit, u) \in Nat
      BY <3>3, <3>4 DEF ConvertQuantity, RoundDiv
    <3>6. QED BY <3>1, <3>5
  <2>3. f = With(line)
    <3>1. f = [form EXCEPT !.lines[n].unit = u, !.lines[n].quantity = quantity]
      BY <1>4 DEF PickUnit
    <3> DEFINE mid == [old EXCEPT !.unit = u]
               form1 == [form EXCEPT !.lines = [form.lines EXCEPT ![n] = mid]]
    <3>2. f = [form1 EXCEPT !.lines = [form1.lines EXCEPT ![n] = [form1.lines[n] EXCEPT !.quantity = quantity]]]
      BY <3>1
    <3>3. form1.lines = [form.lines EXCEPT ![n] = mid] /\ form1.lines[n] = mid
      BY DEF ProductForms
    <3> HIDE DEF form1, mid, quantity
    <3>4. f = [form1 EXCEPT !.lines = [[form.lines EXCEPT ![n] = mid] EXCEPT ![n] = [mid EXCEPT !.quantity = quantity]]]
      BY <3>2, <3>3
    <3>5. [mid EXCEPT !.quantity = quantity] = line
      BY DEF mid
    <3> HIDE DEF line
    <3>6. [[form.lines EXCEPT ![n] = mid] EXCEPT ![n] = line] = [form.lines EXCEPT ![n] = line]
      OBVIOUS
    <3>7. f = [form1 EXCEPT !.lines = [form.lines EXCEPT ![n] = line]]
      BY <3>4, <3>5, <3>6
    <3>8. QED BY <3>7 DEF form1
  <2>4. line \in Line /\ line.unit = u
    BY <1>1, <2>1, <2>2 DEF Line
  <2>5. QED BY <2>1, <2>3, <2>4
<1>5. QED BY <1>2, <1>3, <1>4

\* The form of a product is edited.
LEMMA ProductEdited ==
  ASSUME NEW form \in ProductForms, NEW loaded \in BOOLEAN, RecipeOK(form.lines, loaded),
         NEW f \in ProductEdits(form, loaded)
  PROVE  f \in ProductForms /\ RecipeOK(f.lines, loaded)
<1>1. ASSUME \/ f \in Typed(form, ProductIdentity) \/ f \in Typed(form, ProductPricing)
             \/ f \in Typed(form, ProductAvailability)
      PROVE  f \in ProductForms /\ RecipeOK(f.lines, loaded)
  <2>1. f \in ProductForms
    BY <1>1, ProductTyped
  <2>2. f.lines = form.lines
    <3>1. CASE f \in Typed(form, ProductIdentity)
      <4>1. PICK x \in {"name", "sku", "category"} : \E v \in ProductIdentity[x] : f = [form EXCEPT ![x] = v]
        BY <3>1, EditedField DEF ProductIdentity
      <4>2. QED BY <4>1 DEF ProductForms
    <3>2. CASE f \in Typed(form, ProductPricing)
      <4>1. PICK x \in {"amount"} : \E v \in ProductPricing[x] : f = [form EXCEPT ![x] = v]
        BY <3>2, EditedField DEF ProductPricing
      <4>2. QED BY <4>1 DEF ProductForms
    <3>3. CASE f \in Typed(form, ProductAvailability)
      <4>1. PICK x \in {"active", "inventoried"} : \E v \in ProductAvailability[x] : f = [form EXCEPT ![x] = v]
        BY <3>3, EditedField DEF ProductAvailability
      <4>2. QED BY <4>1 DEF ProductForms
    <3>4. QED BY <1>1, <3>1, <3>2, <3>3
  <2>3. QED BY <2>1, <2>2
<1>2. ASSUME f \in RecipeEdits(form, loaded)
      PROVE  f \in ProductForms /\ RecipeOK(f.lines, loaded)
  <2>1. CASE f = [form EXCEPT !.lines = Append(@, EmptyIngredient)]
    <3> DEFINE lines == Append(form.lines, EmptyIngredient)
    <3>1. EmptyIngredient \in Line /\ EmptyIngredient.unit = "und"
      BY DEF EmptyIngredient, Line, Grid, Factor
    <3>2. lines \in Seq(Line)
      BY <3>1, LineAdded DEF RecipeOK
    <3>3. ~loaded => InPieces(lines)
      BY <3>1 DEF RecipeOK, InPieces
    <3>4. f = [form EXCEPT !.lines = lines] /\ RecipeOK(lines, loaded)
      BY <2>1, <3>2, <3>3 DEF RecipeOK
    <3>5. QED BY <3>4, ProductWithLines
  <2>2. ASSUME NEW n \in DOMAIN form.lines,
               f \in {PickIngredient(form, n, g, loaded) : g \in Ingredients \cup {Blank}}
                       \cup {[form EXCEPT !.lines[n].quantity = q * Grid] : q \in 0..1}
                       \cup {PickUnit(form, n, u) : u \in UnitsOffered(form.lines[n], loaded)}
        PROVE  f \in ProductForms /\ RecipeOK(f.lines, loaded)
    <3>1. PICK line \in Line : /\ ~loaded => line.unit = "und"
                               /\ f = [form EXCEPT !.lines = [form.lines EXCEPT ![n] = line]]
      BY <2>2, LineOfRecipe
    <3>2. RecipeOK([form.lines EXCEPT ![n] = line], loaded)
      BY <3>1, RecipeWithLine
    <3>3. QED BY <3>1, <3>2, ProductWithLines
  <2>3. ASSUME NEW n \in DOMAIN form.lines, f = [form EXCEPT !.lines = RemoveLine(@, n)]
        PROVE  f \in ProductForms /\ RecipeOK(f.lines, loaded)
    <3> DEFINE lines == RemoveLine(form.lines, n)
    <3>1. lines \in Seq(Line)
      BY LineRemoved DEF RecipeOK
    <3>2. ~loaded => InPieces(lines)
      BY DEF RecipeOK, InPieces, RemoveLine
    <3>3. f = [form EXCEPT !.lines = lines] /\ RecipeOK(lines, loaded)
      BY <2>3, <3>1, <3>2 DEF RecipeOK
    <3>4. QED BY <3>3, ProductWithLines
  <2>4. QED BY <1>2, <2>1, <2>2, <2>3 DEF RecipeEdits
<1>3. QED BY <1>1, <1>2 DEF ProductEdits

\* What is shown of a text, and of another value.
LEMMA ShownText ==
  ASSUME NEW r, NEW field, NEW S, r # NoRow => r[field] \in S \cup {Null}
  PROVE  Showing(r, field) \in S \cup {Blank}
  BY DEF Showing

\* What is shown of another value.
LEMMA ShownValue ==
  ASSUME NEW r, NEW field, NEW S, NEW otherwise \in S, r # NoRow => r[field] \in S
  PROVE  Having(r, field, otherwise) \in S
  BY DEF Having

\* A dialog of a product shows the lines of its recipe in some order.
LEMMA RecipeShown ==
  ASSUME NEW r \in ProductRows, NEW loaded \in BOOLEAN
  PROVE  RecipeOK(CHOOSE s \in ProductLines(r, loaded) : TRUE, loaded)
<1> DEFINE inUse == {g \in Ingredients : r.recipe[g] > 0}
           line(g) == [ingredient |-> g, quantity |-> r.recipe[g] * Grid, unit |-> BaseUnit(loaded)]
           L == {line(g) : g \in inUse}
           k == Cardinality(inUse)
<1>1. IsFiniteSet(inUse) /\ k \in Nat
  BY IngredientsAssumption, FS_Subset, FS_CardinalityType
<1>2. PICK b : b \in Bijection(1..k, inUse)
  BY <1>1, FS_CountingElements, FS_CardinalityType DEF ExistsBijection
<1>3. b \in [1..k -> inUse] /\ \A g \in inUse : \E n \in 1..k : b[n] = g
  BY <1>2 DEF Bijection, Injection, Surjection
<1> DEFINE s == [n \in 1..k |-> line(b[n])]
<1>4. s \in ProductLines(r, loaded)
  <2>1. s \in [1..k -> L]
    BY <1>3
  <2>2. \A g \in inUse : \E n \in DOMAIN s : s[n] = line(g)
    BY <1>3
  <2>3. QED BY <2>1, <2>2 DEF ProductLines
<1>5. PICK t : t = (CHOOSE x \in ProductLines(r, loaded) : TRUE) /\ t \in ProductLines(r, loaded)
  BY <1>4
<1>6. t \in [1..k -> L]
  BY <1>5 DEF ProductLines
<1>7. ASSUME NEW x \in L
      PROVE  x \in Line /\ (~loaded => x.unit = "und")
  <2>1. PICK g \in inUse : x = line(g)
    BY <1>7
  <2>2. r.recipe[g] \in Nat
    BY <2>1 DEF ProductRows
  <2>3. r.recipe[g] * Grid \in Nat /\ BaseUnit(loaded) \in DOMAIN Factor
    BY <2>2 DEF Grid, BaseUnit, Factor
  <2>4. ~loaded => BaseUnit(loaded) = "und"
    BY DEF BaseUnit
  <2> HIDE DEF inUse
  <2>5. g \in Ingredients
    BY <2>1 DEF inUse
  <2>6. QED BY <2>1, <2>3, <2>4, <2>5 DEF Line
<1> HIDE DEF L, k
<1>8. t \in [1..k -> Line]
  BY <1>6, <1>7
<1>9. t \in Seq(Line)
  BY <1>1, <1>8, SequenceOf
<1>10. ~loaded => InPieces(t)
  BY <1>6, <1>7 DEF InPieces
<1>11. QED BY <1>5, <1>9, <1>10 DEF RecipeOK

\* What the dialog of a category shows at first.
LEMMA CategoryDefaulted ==
  ASSUME NEW r \in {NoRow} \cup CategoryRows
  PROVE  CategoryDefaults(r) \in CategoryForms
<1>1. Showing(r, "name") \in Names \cup {Blank}
  BY ShownText DEF CategoryRows
<1>2. Having(r, "active", TRUE) \in BOOLEAN
  BY ShownValue DEF CategoryRows
<1>3. QED BY <1>1, <1>2 DEF CategoryDefaults, CategoryForms

\* What the dialog of a product shows at first.
LEMMA ProductDefaulted ==
  ASSUME NEW r \in {NoRow} \cup ProductRows, NEW loaded \in BOOLEAN
  PROVE  ProductDefaults(r, loaded) \in ProductForms /\ RecipeOK(ProductDefaults(r, loaded).lines, loaded)
<1>1. /\ Showing(r, "name") \in Names \cup {Blank}
      /\ Showing(r, "sku") \in Texts \cup {Blank}
      /\ Showing(r, "category") \in {"c1"} \cup {Blank}
  BY ShownText DEF ProductRows, Optional
<1>2. /\ Having(r, "amount", 0) \in 0..1
      /\ Having(r, "active", TRUE) \in BOOLEAN /\ Having(r, "inventoried", FALSE) \in BOOLEAN
  <2>1. Having(r, "amount", 0) \in 0..1
    BY DEF Having, ProductRows
  <2>2. Having(r, "active", TRUE) \in BOOLEAN /\ Having(r, "inventoried", FALSE) \in BOOLEAN
    BY ShownValue DEF ProductRows
  <2>3. QED BY <2>1, <2>2
<1> DEFINE lines == IF r = NoRow THEN <<>> ELSE CHOOSE s \in ProductLines(r, loaded) : TRUE
<1>3. RecipeOK(lines, loaded)
  <2>1. RecipeOK(<<>>, loaded)
    BY DEF RecipeOK, InPieces
  <2>2. QED BY <2>1, RecipeShown
<1> HIDE DEF lines
<1>4. ProductDefaults(r, loaded) =
        [name |-> Showing(r, "name"), sku |-> Showing(r, "sku"), category |-> Showing(r, "category"),
         amount |-> Having(r, "amount", 0), active |-> Having(r, "active", TRUE),
         inventoried |-> Having(r, "inventoried", FALSE), lines |-> lines]
  BY DEF ProductDefaults, lines
<1>5. ASSUME NEW x \in Names \cup {Blank}, NEW s \in Entry, NEW c \in {"c1", Blank}, NEW n \in 0..1,
             NEW b \in BOOLEAN, NEW i \in BOOLEAN, NEW l \in Seq(Line)
      PROVE  [name |-> x, sku |-> s, category |-> c, amount |-> n, active |-> b, inventoried |-> i,
              lines |-> l] \in ProductForms
  BY DEF ProductForms
<1>6. /\ Showing(r, "sku") \in Entry /\ Showing(r, "category") \in {"c1", Blank}
      /\ lines \in Seq(Line) /\ ProductDefaults(r, loaded).lines = lines
  BY <1>1, <1>3, <1>4 DEF Entry, RecipeOK
<1> DEFINE x == Showing(r, "name")  s == Showing(r, "sku")  c == Showing(r, "category")
           n == Having(r, "amount", 0)  b == Having(r, "active", TRUE)
           i == Having(r, "inventoried", FALSE)
<1>7. x \in Names \cup {Blank} /\ s \in Entry /\ c \in {"c1", Blank} /\ n \in 0..1
      /\ b \in BOOLEAN /\ i \in BOOLEAN /\ lines \in Seq(Line)
  BY <1>1, <1>2, <1>6
<1>8. ProductDefaults(r, loaded) =
        [name |-> x, sku |-> s, category |-> c, amount |-> n, active |-> b, inventoried |-> i,
         lines |-> lines]
  BY <1>4
<1> HIDE DEF x, s, c, n, b, i
<1>9. ProductDefaults(r, loaded) \in ProductForms
  BY <1>5, <1>7, <1>8
<1>10. QED BY <1>3, <1>6, <1>9

\* What the dialog of a customer shows at first.
LEMMA CustomerDefaulted ==
  ASSUME NEW r \in {NoRow} \cup CustomerRows
  PROVE  CustomerDefaults(r) \in CustomerForms
<1> DEFINE document == IF r = NoRow THEN NoDocument ELSE r.document
<1>1. document \in Documents
  BY DEF CustomerRows, NoDocument, Documents, DocumentTypes, Numbers, Digits
<1>2. document.type \in DocumentTypes /\ document.number \in Numbers /\ document.dv \in Digits
  BY <1>1 DEF Documents
<1>3. Showing(r, "name") \in Names \cup {Blank} /\ Showing(r, "email") \in Texts \cup {Blank}
  BY ShownText DEF CustomerRows, Optional
<1>4. Having(r, "active", TRUE) \in BOOLEAN
  BY ShownValue DEF CustomerRows
<1>5. CustomerDefaults(r) =
        [type |-> document.type, number |-> document.number, dv |-> document.dv,
         name |-> Showing(r, "name"), email |-> Showing(r, "email"), active |-> Having(r, "active", TRUE)]
  BY DEF CustomerDefaults
<1> HIDE DEF document
<1>6. ASSUME NEW t \in DocumentTypes, NEW n \in Numbers, NEW d \in Digits, NEW x \in Names \cup {Blank},
             NEW e \in Entry, NEW b \in BOOLEAN
      PROVE  [type |-> t, number |-> n, dv |-> d, name |-> x, email |-> e, active |-> b] \in CustomerForms
  BY DEF CustomerForms
<1>7. Showing(r, "email") \in Entry
  BY <1>3 DEF Entry
<1>8. QED BY <1>2, <1>3, <1>4, <1>5, <1>6, <1>7

\* What the dialog of the profile shows at first.
LEMMA FiscalDefaulted ==
  ASSUME NEW r \in {NoRow} \cup FiscalRows
  PROVE  FiscalDefaults(r) \in FiscalForms
<1>1. /\ Showing(r, "legalName") \in Names \cup {Blank}
      /\ Showing(r, "resolution") \in Texts \cup {Blank}
      /\ Showing(r, "providerName") \in Texts \cup {Blank}
      /\ Showing(r, "softwareId") \in Texts \cup {Blank}
      /\ Showing(r, "endpoint") \in Texts \cup {Blank}
  BY ShownText DEF FiscalRows, Optional
<1>2. Having(r, "from", 0) \in 0..2 /\ Having(r, "to", 0) \in 0..2
  BY DEF Having, FiscalRows
<1>3. Having(r, "provider", "TECHNOLOGY_PROVIDER") \in ProviderTypes
  BY ShownValue DEF FiscalRows, ProviderTypes
<1>4. QED BY <1>1, <1>2, <1>3 DEF FiscalDefaults, FiscalForms, Entry

\* A form is typed; its recipe keeps to pieces where the list of items is not loaded.
FormOK(form, mode, loaded) ==
  form \in Forms(mode) /\ (kind = "product" => RecipeOK(form.lines, loaded))

\* A dialog that opens, and the reset of one.
LEMMA DefaultsTyped ==
  ASSUME kind \in Kinds, NEW r \in {NoRow} \cup Rows(kind), NEW a, NEW mode, mode # "pin"
  PROVE  FormOK(Defaults(r, a), mode, a # {})
<1>1. CASE kind = "category"
  BY <1>1, CategoryDefaulted DEF Defaults, Forms, FormOK, Rows
<1>2. CASE kind = "product"
  BY <1>2, ProductDefaulted DEF Defaults, Forms, FormOK, Rows
<1>3. CASE kind = "customer"
  BY <1>3, CustomerDefaulted DEF Defaults, Forms, FormOK, Rows
<1>4. CASE kind = "supplier"
  <2>1. SupplierDefaults \in SupplierForms
    BY DEF SupplierDefaults, SupplierForms, DocumentTypes, Numbers, Digits, Entry
  <2>2. QED BY <1>4, <2>1 DEF Defaults, Forms, FormOK
<1>5. CASE kind = "employee"
  <2>1. EmployeeDefaults \in EmployeeForms
    BY DEF EmployeeDefaults, EmployeeForms, Entry
  <2>2. QED BY <1>5, <2>1 DEF Defaults, Forms, FormOK
<1>6. CASE kind = "item"
  <2>1. ItemDefaults \in ItemForms
    BY DEF ItemDefaults, ItemForms
  <2>2. QED BY <1>6, <2>1 DEF Defaults, Forms, FormOK
<1>7. CASE kind = "purchase"
  <2>1. EmptyItem \in PurchaseLine
    BY DEF EmptyItem, PurchaseLine
  <2>2. <<EmptyItem>> \in Seq(PurchaseLine)
    BY <2>1
  <2>3. PurchaseDefaults \in PurchaseForms
    BY <2>2 DEF PurchaseDefaults, PurchaseForms, Entry
  <2>4. QED BY <1>7, <2>3 DEF Defaults, Forms, FormOK
<1>8. CASE kind = "fiscal"
  BY <1>8, FiscalDefaulted DEF Defaults, Forms, FormOK, Rows
<1>9. QED BY <1>1, <1>2, <1>3, <1>4, <1>5, <1>6, <1>7, <1>8 DEF Kinds

\* The dialog of a PIN.
LEMMA PinDefaulted ==
  ASSUME kind = "employee", NEW a
  PROVE  FormOK(PinDefaults, "pin", a)
<1>1. PinDefaults \in PinForms
  BY DEF PinDefaults, PinForms, Entry
<1>2. QED BY <1>1 DEF FormOK, Forms

\* One edit.
LEMMA EditsTyped ==
  ASSUME kind \in Kinds, NEW mode, NEW a, NEW form, FormOK(form, mode, a # {}), NEW f \in Edits(form, a)
  PROVE  FormOK(f, mode, a # {})
<1>1. CASE kind = "category"
  BY <1>1, CategoryTyped DEF Edits, Forms, FormOK
<1>2. CASE kind = "product"
  <2>1. form \in ProductForms /\ RecipeOK(form.lines, a # {}) /\ f \in ProductEdits(form, a # {})
    BY <1>2 DEF Edits, Forms, FormOK
  <2>2. (a # {}) \in BOOLEAN
    OBVIOUS
  <2>3. f \in ProductForms /\ RecipeOK(f.lines, a # {})
    BY <2>1, <2>2, ProductEdited
  <2>4. QED BY <1>2, <2>3 DEF Forms, FormOK
<1>3. CASE kind = "customer"
  BY <1>3, CustomerEdited DEF Edits, Forms, FormOK
<1>4. CASE kind = "supplier"
  BY <1>4, SupplierEdited DEF Edits, Forms, FormOK
<1>5. CASE kind = "employee"
  <2>1. CASE mode = "pin"
    <3>1. form \in PinForms /\ "pin" \in DOMAIN form
      BY <1>5, <2>1 DEF FormOK, Forms, PinForms
    <3>2. f \in Typed(form, PinFields)
      BY <1>5, <3>1 DEF Edits
    <3>3. f \in PinForms
      BY <3>1, <3>2, PinTyped
    <3>4. QED BY <1>5, <2>1, <3>3 DEF FormOK, Forms
  <2>2. CASE mode # "pin"
    <3>1. form \in EmployeeForms /\ "pin" \notin DOMAIN form
      BY <1>5, <2>2 DEF FormOK, Forms, EmployeeForms
    <3>2. f \in Typed(form, EmployeeFields)
      BY <1>5, <3>1 DEF Edits
    <3>3. f \in EmployeeForms
      BY <3>1, <3>2, EmployeeTyped
    <3>4. QED BY <1>5, <2>2, <3>3 DEF FormOK, Forms
  <2>3. QED BY <2>1, <2>2
<1>6. CASE kind = "item"
  BY <1>6, ItemTyped DEF Edits, ItemEdits, Forms, FormOK
<1>7. CASE kind = "purchase"
  BY <1>7, PurchaseEdited DEF Edits, Forms, FormOK
<1>8. CASE kind = "fiscal"
  BY <1>8, FiscalEdited DEF Edits, Forms, FormOK
<1>9. QED BY <1>1, <1>2, <1>3, <1>4, <1>5, <1>6, <1>7, <1>8 DEF Kinds

-----------------------------------------------------------------------------
(* What is stored of what was submitted *)

\* A record that is created is of its kind, live, and as it was entered.
LEMMA CreatedAsEntered ==
  ASSUME kind \in Kinds, NEW mode, mode # "pin", NEW form, NEW d, Submitted(mode, form, d), NEW before
  PROVE  /\ Created(d).data \in Rows(kind) /\ Created(d).data.life = "live"
         /\ AsEntered(form, Created(d).data, before)
<1>1. CASE kind = "category"
  BY <1>1, CategoryCreated DEF Created, Rows
<1>2. CASE kind = "product"
  BY <1>2, ProductCreated DEF Created, Rows
<1>3. CASE kind = "customer"
  BY <1>3, CustomerCreated DEF Created, Rows
<1>4. CASE kind = "supplier"
  BY <1>4, SupplierCreated DEF Created, Rows
<1>5. CASE kind = "employee"
  BY <1>5, EmployeeCreated DEF Created, Rows
<1>6. CASE kind = "item"
  BY <1>6, ItemCreated DEF Created, Rows
<1>7. CASE kind = "purchase"
  BY <1>7, PurchaseCreated DEF Created, Rows
<1>8. CASE kind = "fiscal"
  BY <1>8, ProfileCreated DEF Created, Rows
<1>9. QED BY <1>1, <1>2, <1>3, <1>4, <1>5, <1>6, <1>7, <1>8 DEF Kinds

\* The kinds of record that have a dialog to edit them, beside the profile.
Edited == {"category", "product", "customer"}

\* A record that is updated stays one of its kind, and is as it was entered.
LEMMA UpdatedAsEntered ==
  ASSUME kind \in Edited, NEW mode, NEW form, NEW d, Submitted(mode, form, d), NEW i,
         NEW r \in Rows(kind)
  PROVE  /\ Merged(r, Updated(i, d).data) \in Rows(kind)
         /\ AsEntered(form, Merged(r, Updated(i, d).data), r)
<1>1. CASE kind = "category"
  BY <1>1, CategoryUpdated DEF Updated, Rows
<1>2. CASE kind = "product"
  BY <1>2, ProductUpdated DEF Updated, Rows
<1>3. CASE kind = "customer"
  BY <1>3, CustomerUpdated DEF Updated, Rows
<1>4. QED BY <1>1, <1>2, <1>3 DEF Edited

\* What the dialog knows from another list matters to the lines of a recipe alone.
LEMMA AsideIsAside ==
  ASSUME kind \in Kinds, kind' = kind, NEW form, kind = "product" => form \in ProductForms,
         NEW r, NEW before
  PROVE  AsEntered(form, r, before) <=> AsEntered(form, r, before)'
<1>1. CASE kind = "product"
  <2>1. DOMAIN form \ {"dv", "lines"} = {"name", "sku", "category", "amount", "active", "inventoried"}
    BY <1>1 DEF ProductForms
  <2>2. ASSUME NEW f \in DOMAIN form \ {"dv", "lines"}
        PROVE  Defaults(r, aside)[f] = Defaults(r, aside)'[f]
    <3>1. f \in {"name", "sku", "category", "amount", "active", "inventoried"}
      BY <2>1
    <3>2. Defaults(r, aside) = ProductDefaults(r, aside # {})
          /\ Defaults(r, aside)' = ProductDefaults(r, (aside # {})')
      BY <1>1 DEF Defaults
    <3>3. ASSUME NEW l
          PROVE  /\ ProductDefaults(r, l)["name"] = Showing(r, "name")
                 /\ ProductDefaults(r, l)["sku"] = Showing(r, "sku")
                 /\ ProductDefaults(r, l)["category"] = Showing(r, "category")
                 /\ ProductDefaults(r, l)["amount"] = Having(r, "amount", 0)
                 /\ ProductDefaults(r, l)["active"] = Having(r, "active", TRUE)
                 /\ ProductDefaults(r, l)["inventoried"] = Having(r, "inventoried", FALSE)
      BY DEF ProductDefaults
    <3>4. QED BY <3>1, <3>2, <3>3
  <2>3. ShowsAgain(form, r, before) <=> ShowsAgain(form, r, before)'
    BY <2>2 DEF ShowsAgain
  <2>4. QED BY <1>1, <2>3 DEF AsEntered
<1>2. CASE kind = "category"
  BY <1>2 DEF AsEntered, ShowsAgain, Defaults
<1>3. CASE kind = "customer"
  BY <1>3 DEF AsEntered, ShowsAgain, Defaults
<1>4. CASE kind = "fiscal"
  BY <1>4 DEF AsEntered, ShowsAgain, Defaults
<1>5. CASE kind = "supplier"
  BY <1>5 DEF AsEntered
<1>6. CASE kind = "employee"
  BY <1>6 DEF AsEntered
<1>7. CASE kind = "item"
  BY <1>7 DEF AsEntered
<1>8. CASE kind = "purchase"
  BY <1>8 DEF AsEntered
<1>9. QED BY <1>1, <1>2, <1>3, <1>4, <1>5, <1>6, <1>7, <1>8 DEF Kinds


-----------------------------------------------------------------------------
(* The invariant of PINs and profiles *)

\* The fields of a profile and those of its provider.
ProfileFields == {"legalName", "resolution", "from", "to"}
ProviderFields == {"provider", "providerName", "softwareId", "endpoint"}
FormFields == ProfileFields \cup ProviderFields

\* The fields that the rows of a kind have, as far as it matters here.
RowFields ==
  IF kind = "employee" THEN {"life", "branch", "active", "pin"}
                       ELSE {"life", "status", "ready"} \cup FormFields

RowsShape ==
  /\ DOMAIN row = Ids
  /\ kind \in {"employee", "fiscal"} =>
       \A i \in Ids :
         /\ "life" \in DOMAIN row[i]
         /\ Live(i) => RowFields \subseteq DOMAIN row[i]

\* What a request brings along, by its operation.
EmployeeRequest(op, d) ==
  /\ op \in {"create", "update", "access", "pin", "remove"}
  /\ op \in {"update", "access"} => {"life", "pin"} \cap DOMAIN d = {}
  /\ op = "pin" => DOMAIN d = {"pin"}

ProfileRequest(op, d) ==
  /\ op \in {"create", "test"}
  /\ op = "create" => DOMAIN d \in {ProfileFields, FormFields}

WellSent(op, d) ==
  /\ kind = "employee" => EmployeeRequest(op, d)
  /\ kind = "fiscal" => ProfileRequest(op, d)

\* What it is about to write.
EmployeeWrite(op, d) ==
  /\ op \in {"create", "update", "access", "pin", "remove"}
  /\ op \in {"update", "access"} => {"life", "pin"} \cap DOMAIN d = {}
  /\ op = "pin" => DOMAIN d = {"pin"}
  /\ op = "create" => RowFields \subseteq DOMAIN d /\ d.pin = Null

ProfileWrite(op, d) ==
  /\ op \in {"create", "test"}
  /\ op = "create" => /\ d.life = "live"
                      /\ \/ DOMAIN d = {"life", "ready"} \cup ProfileFields
                         \/ DOMAIN d = {"life", "ready", "status"} \cup FormFields
                            /\ d.status = "CONFIGURED"
  /\ op = "test" => DOMAIN d = {"status", "ready"}

WellWritten(op, d) ==
  /\ kind = "employee" => EmployeeWrite(op, d)
  /\ kind = "fiscal" => ProfileWrite(op, d)

RequestsShape ==
  /\ DOMAIN req = Workers
  /\ \A w \in Workers :
       /\ DOMAIN req[w] = {"step", "op", "id", "data"}
       /\ req[w].step = "read" => WellSent(req[w].op, req[w].data)
       /\ req[w].step = "write" => WellWritten(req[w].op, req[w].data)

DialogShape ==
  /\ DOMAIN dialog = {"mode", "id", "row", "form"}
  /\ kind = "employee" => /\ dialog.mode # "edit"
                          /\ dialog.mode = "pin" => "pin" \in DOMAIN dialog.form
  /\ kind = "fiscal" => /\ dialog.mode \in {"closed", "create", "edit"}
                        /\ dialog.mode # "closed" => DOMAIN dialog.form = FormFields

\* Nobody else is at work while a PIN is set, nor an upsert while a test is.
PinAlone ==
  \A v, w \in Workers :
    v # w /\ req[w].op = "pin" /\ ~Idle(w) /\ req[w].id \notin doubtful => Idle(v)

TestApart ==
  kind = "fiscal" /\ doubtful = {} =>
    \A v, w \in Workers : req[v].op = "test" /\ req[w].op = "create" => Idle(v) \/ Idle(w)

OneProfile == kind = "fiscal" => \A i, j \in Ids : Live(i) /\ Live(j) => i = j

\* What was read is still so when it is written.
PinFree(i, pin) ==
  \A j \in Ids \ {i} :
    Live(j) /\ row[j].active /\ row[j].pin # Null /\ row[j].branch = row[i].branch
      => row[j].pin # pin

PinCurrent ==
  kind = "employee" =>
    \A w \in Workers :
      req[w].step = "write" /\ req[w].op = "pin" /\ req[w].id \notin doubtful
        => PinFree(req[w].id, req[w].data.pin)

\* What a test may write over row r.
Verdict(r, d) ==
  /\ r.life = "live"
  /\ d.status = "CONNECTION_TESTED" => ProviderIsReady(r)
  /\ d.status = "ERROR" => ~ProviderIsReady(r)
  /\ d.ready => ProviderIsReady(r)
  /\ d.status # "NOT_CONFIGURED"

TestCurrent ==
  kind = "fiscal" /\ doubtful = {} =>
    \A w \in Workers :
      req[w].step = "write" /\ req[w].op = "test" /\ req[w].id \in Ids =>
        Verdict(row[req[w].id], req[w].data)

\* The readiness that an upsert carries is still that of the profile.
SomeReady == \E i \in Profiles : row[i].ready

CarriedCurrent ==
  kind = "fiscal" /\ doubtful = {} =>
    \A w \in Workers :
      req[w].step = "write" /\ req[w].op = "create" => req[w].data.ready = SomeReady

\* What the invariant says of the records, without the screen.
RecordInv ==
  /\ RowsShape /\ RequestsShape /\ OneProfile
  /\ PinAlone /\ TestApart /\ PinCurrent /\ TestCurrent /\ CarriedCurrent
  /\ PinsUnique /\ ReadyAsTested

-----------------------------------------------------------------------------
(* Requests arrive, are refused and are dismissed *)

\* Nothing that the invariant of the records is about changes.
LEMMA QuietRecords ==
  ASSUME RecordInv, UNCHANGED <<kind, row, req, doubtful>>
  PROVE  RecordInv'
  <1>1. RowsShape' /\ RequestsShape' /\ OneProfile'
    BY DEF RecordInv, RowsShape, RowFields, RequestsShape, WellSent, WellWritten, OneProfile, Live,
           EmployeeRequest, ProfileRequest, EmployeeWrite, ProfileWrite
  <1>2. PinAlone' /\ TestApart' /\ PinCurrent'
    BY DEF RecordInv, PinAlone, TestApart, PinCurrent, PinFree, Live, Idle
  <1>3. TestCurrent' /\ CarriedCurrent'
    BY DEF RecordInv, TestCurrent, CarriedCurrent, Verdict, SomeReady, Profiles, ProviderIsReady,
           RequiredProviderFields, Live
  <1>4. PinsUnique' /\ ReadyAsTested'
    BY DEF RecordInv, PinsUnique, SharePin, ReadyAsTested, AsTested, Profiles, ProviderIsReady,
           RequiredProviderFields, Live
  <1>5. QED BY <1>1, <1>2, <1>3, <1>4 DEF RecordInv

\* The rows stay, and doubts are only added: what was so of the rows is still so.
LEMMA SameRows ==
  ASSUME RecordInv, UNCHANGED <<kind, row>>, doubtful \subseteq doubtful'
  PROVE  RowsShape' /\ OneProfile' /\ PinsUnique' /\ ReadyAsTested'
  <1>1. RowsShape' /\ OneProfile'
    BY DEF RecordInv, RowsShape, RowFields, OneProfile, Live
  <1>2. PinsUnique'
    BY DEF RecordInv, PinsUnique, SharePin
  <1>3. ReadyAsTested'
    BY DEF RecordInv, ReadyAsTested, AsTested, Profiles, ProviderIsReady, RequiredProviderFields, Live
  <1>4. QED BY <1>1, <1>2, <1>3

\* What requests bring along depends on the kind of record alone.
LEMMA ShapeAfter ==
  ASSUME kind' = kind, DOMAIN req' = Workers,
         \A v \in Workers :
           /\ DOMAIN req'[v] = {"step", "op", "id", "data"}
           /\ req'[v].step = "read" => WellSent(req'[v].op, req'[v].data)
           /\ req'[v].step = "write" => WellWritten(req'[v].op, req'[v].data)
  PROVE  RequestsShape'
  BY DEF RequestsShape, WellSent, WellWritten, EmployeeRequest, ProfileRequest, EmployeeWrite,
         ProfileWrite, RowFields

\* A PIN that was free among the rows is free as long as they stay.
LEMMA PinsAfter ==
  ASSUME UNCHANGED <<kind, row>>,
         kind = "employee" =>
           \A v \in Workers :
             req'[v].step = "write" /\ req'[v].op = "pin" /\ req'[v].id \notin doubtful'
               => PinFree(req'[v].id, req'[v].data.pin)
  PROVE  PinCurrent'
  BY DEF PinCurrent, PinFree, Live

\* A test that found a profile so finds it so as long as the rows stay.
LEMMA TestAfter ==
  ASSUME UNCHANGED <<kind, row>>,
         kind = "fiscal" /\ doubtful' = {} =>
           \A v \in Workers :
             req'[v].step = "write" /\ req'[v].op = "test" /\ req'[v].id \in Ids =>
               Verdict(row[req'[v].id], req'[v].data)
  PROVE  TestCurrent'
  BY DEF TestCurrent, Verdict, ProviderIsReady, RequiredProviderFields

\* The readiness that upserts carry is that of the profile as long as the rows stay.
LEMMA CarriedAfter ==
  ASSUME UNCHANGED <<kind, row>>,
         kind = "fiscal" /\ doubtful' = {} =>
           \A v \in Workers :
             req'[v].step = "write" /\ req'[v].op = "create" => req'[v].data.ready = SomeReady
  PROVE  CarriedCurrent'
  BY DEF CarriedCurrent, SomeReady, Profiles, Live

\* A request arrives: if it meets another one that matters, both are doubtful.
LEMMA ArriveKeeps ==
  ASSUME RecordInv, NEW w \in Workers, NEW op, NEW i, NEW d,
         WellSent(op, d), Arrive(w, op, i, d)
  PROVE  RecordInv'
  <1> DEFINE q == [step |-> "read", op |-> op, id |-> i, data |-> d]
  <1>1. /\ Idle(w) /\ UNCHANGED <<kind, row>>
        /\ doubtful' = doubtful \cup Doubts(w, op, i)
        /\ req' = [req EXCEPT ![w] = q]
    BY DEF Arrive
  <1>2. /\ DOMAIN req' = Workers /\ req'[w] = q
        /\ \A v \in Workers \ {w} : req'[v] = req[v]
    BY <1>1 DEF RecordInv, RequestsShape
  <1>q. /\ q.step = "read" /\ q.op = op /\ q.id = i /\ q.data = d
        /\ DOMAIN q = {"step", "op", "id", "data"}
    OBVIOUS
  <1> HIDE DEF q
  <1>3. RowsShape' /\ OneProfile' /\ PinsUnique' /\ ReadyAsTested'
    BY <1>1, SameRows
  <1>4. RequestsShape'
    <2>1. ASSUME NEW v \in Workers
          PROVE  /\ DOMAIN req'[v] = {"step", "op", "id", "data"}
                 /\ req'[v].step = "read" => WellSent(req'[v].op, req'[v].data)
                 /\ req'[v].step = "write" => WellWritten(req'[v].op, req'[v].data)
      BY <1>2, <1>q DEF RecordInv, RequestsShape
    <2>2. QED BY <2>1, <1>1, <1>2, ShapeAfter
  <1>5. PinAlone'
    <2> SUFFICES ASSUME NEW u \in Workers, NEW v \in Workers, u # v,
                        req'[v].op = "pin", ~Idle(v)', req'[v].id \notin doubtful'
                 PROVE  Idle(u)'
      BY DEF PinAlone
    <2>1. CASE v = w
      <3>1. op = "pin" /\ i \notin Doubts(w, op, i)
        BY <2>1, <1>1, <1>2, <1>q
      <3>2. Idle(u)
        BY <3>1, <2>1 DEF Doubts
      <3>3. QED BY <3>2, <2>1, <1>2 DEF Idle
    <2>2. CASE v # w
      <3>1. req[v].op = "pin" /\ ~Idle(v) /\ req[v].id \notin doubtful
        BY <2>2, <1>1, <1>2 DEF Idle
      <3>2. CASE u = w
        <4>1. req[v].id \in Doubts(w, op, i)
          BY <3>1, <3>2, <2>2 DEF Doubts
        <4>2. QED BY <4>1, <1>1, <1>2, <2>2
      <3>3. CASE u # w
        BY <3>1, <3>3, <1>2 DEF RecordInv, PinAlone, Idle
      <3>4. QED BY <3>2, <3>3
    <2>3. QED BY <2>1, <2>2
  <1>6. TestApart'
    <2> SUFFICES ASSUME kind = "fiscal", doubtful' = {}, NEW u \in Workers, NEW v \in Workers,
                        req'[u].op = "test", req'[v].op = "create", ~Idle(u)', ~Idle(v)'
                 PROVE  FALSE
      BY <1>1 DEF TestApart
    <2>1. doubtful = {} /\ Doubts(w, op, i) = {} /\ u # v
      BY <1>1
    <2>2. CASE u # w /\ v # w
      BY <2>1, <2>2, <1>2 DEF RecordInv, TestApart, Idle
    <2>3. ASSUME NEW x \in Workers \ {w}, ~Idle(x), {op, req[x].op} = {"create", "test"}
          PROVE  FALSE
      <3> DEFINE rest == {y \in Workers \ {w} : ~Idle(y)}
      <3>1. rest # {} /\ {"create", "test"} \subseteq {op} \cup {req[y].op : y \in rest}
        BY <2>3
      <3>2. i \in Doubts(w, op, i)
        BY <3>1 DEF Doubts
      <3>3. QED BY <3>2, <2>1
    <2>4. CASE u = w
      <3>1. op = "test" /\ req[v].op = "create" /\ ~Idle(v)
        BY <2>4, <2>1, <1>2, <1>q DEF Idle
      <3>2. QED BY <3>1, <2>3, <2>1, <2>4
    <2>5. CASE v = w
      <3>1. op = "create" /\ req[u].op = "test" /\ ~Idle(u)
        BY <2>5, <2>1, <1>2, <1>q DEF Idle
      <3>2. QED BY <3>1, <2>3, <2>1, <2>5
    <2>6. QED BY <2>2, <2>4, <2>5
  <1>7. PinCurrent'
    <2>1. ASSUME kind = "employee", NEW v \in Workers, req'[v].step = "write",
                 req'[v].op = "pin", req'[v].id \notin doubtful'
          PROVE  PinFree(req'[v].id, req'[v].data.pin)
      BY <2>1, <1>1, <1>2, <1>q DEF RecordInv, PinCurrent
    <2>2. QED BY <2>1, <1>1, PinsAfter
  <1>8. TestCurrent'
    <2>1. ASSUME kind = "fiscal", doubtful' = {}, NEW v \in Workers, req'[v].step = "write",
                 req'[v].op = "test", req'[v].id \in Ids
          PROVE  Verdict(row[req'[v].id], req'[v].data)
      <3>1. v # w /\ req'[v] = req[v] /\ doubtful = {}
        BY <2>1, <1>1, <1>2, <1>q
      <3>2. QED BY <3>1, <2>1 DEF RecordInv, TestCurrent
    <2>2. QED BY <2>1, <1>1, TestAfter
  <1>9. CarriedCurrent'
    <2>1. ASSUME kind = "fiscal", doubtful' = {}, NEW v \in Workers, req'[v].step = "write",
                 req'[v].op = "create"
          PROVE  req'[v].data.ready = SomeReady
      <3>1. v # w /\ req'[v] = req[v] /\ doubtful = {}
        BY <2>1, <1>1, <1>2, <1>q
      <3>2. QED BY <3>1, <2>1 DEF RecordInv, CarriedCurrent
    <2>2. QED BY <2>1, <1>1, CarriedAfter
  <1>10. QED BY <1>3, <1>4, <1>5, <1>6, <1>7, <1>8, <1>9 DEF RecordInv

\* A request goes on without a write: what it found must be what it may write.
LEMMA StepKeeps ==
  ASSUME RecordInv, NEW w \in Workers, NEW q, ~Idle(w),
         req' = [req EXCEPT ![w] = q], UNCHANGED <<kind, row, doubtful>>,
         DOMAIN q = {"step", "op", "id", "data"},
         q.step = "free" \/ (q.op = req[w].op /\ q.id = req[w].id),
         q.step # "read",
         q.step = "write" =>
           /\ WellWritten(q.op, q.data)
           /\ kind = "employee" /\ q.op = "pin" => PinFree(q.id, q.data.pin)
           /\ kind = "fiscal" /\ q.op = "test" => Verdict(row[q.id], q.data)
           /\ kind = "fiscal" /\ q.op = "create" => q.data.ready = SomeReady
  PROVE  RecordInv'
  <1>1. /\ req'[w] = q /\ DOMAIN req' = Workers
        /\ \A v \in Workers \ {w} : req'[v] = req[v]
    BY DEF RecordInv, RequestsShape
  <1>2. RowsShape' /\ OneProfile' /\ PinsUnique' /\ ReadyAsTested'
    BY SameRows
  <1>3. RequestsShape'
    <2>1. ASSUME NEW v \in Workers
          PROVE  /\ DOMAIN req'[v] = {"step", "op", "id", "data"}
                 /\ req'[v].step = "read" => WellSent(req'[v].op, req'[v].data)
                 /\ req'[v].step = "write" => WellWritten(req'[v].op, req'[v].data)
      BY <1>1 DEF RecordInv, RequestsShape
    <2>2. QED BY <2>1, <1>1, ShapeAfter
  <1>4. PinAlone'
    BY <1>1 DEF RecordInv, PinAlone, Idle
  <1>5. TestApart'
    BY <1>1 DEF RecordInv, TestApart, Idle
  <1>6. PinCurrent'
    <2>1. ASSUME kind = "employee", NEW v \in Workers, req'[v].step = "write",
                 req'[v].op = "pin", req'[v].id \notin doubtful'
          PROVE  PinFree(req'[v].id, req'[v].data.pin)
      BY <2>1, <1>1 DEF RecordInv, PinCurrent
    <2>2. QED BY <2>1, PinsAfter
  <1>7. TestCurrent'
    <2>1. ASSUME kind = "fiscal", doubtful' = {}, NEW v \in Workers, req'[v].step = "write",
                 req'[v].op = "test", req'[v].id \in Ids
          PROVE  Verdict(row[req'[v].id], req'[v].data)
      BY <2>1, <1>1 DEF RecordInv, TestCurrent
    <2>2. QED BY <2>1, TestAfter
  <1>8. CarriedCurrent'
    <2>1. ASSUME kind = "fiscal", doubtful' = {}, NEW v \in Workers, req'[v].step = "write",
                 req'[v].op = "create"
          PROVE  req'[v].data.ready = SomeReady
      BY <2>1, <1>1 DEF RecordInv, CarriedCurrent
    <2>2. QED BY <2>1, CarriedAfter
  <1>9. QED BY <1>2, <1>3, <1>4, <1>5, <1>6, <1>7, <1>8 DEF RecordInv

\* A request is refused.
LEMMA RefuseKeeps ==
  ASSUME RecordInv, NEW w \in Workers, ~Idle(w), Refuse(w)
  PROVE  RecordInv'
  <1> DEFINE q == [req[w] EXCEPT !.step = "refused"]
  <1>1. req' = [req EXCEPT ![w] = q] /\ UNCHANGED <<kind, row, doubtful>>
    BY DEF Refuse
  <1>2. DOMAIN req[w] = {"step", "op", "id", "data"}
    BY DEF RecordInv, RequestsShape
  <1>3. /\ DOMAIN q = {"step", "op", "id", "data"} /\ q.step = "refused"
        /\ q.op = req[w].op /\ q.id = req[w].id
    BY <1>2
  <1> HIDE DEF q
  <1>4. QED BY <1>1, <1>3, StepKeeps

\* An answer is taken note of.
LEMMA DismissKeeps ==
  ASSUME RecordInv, NEW w \in Workers, Dismiss(w)
  PROVE  RecordInv'
  <1>1. /\ req' = [req EXCEPT ![w] = NoRequest] /\ UNCHANGED <<kind, row, doubtful>> /\ ~Idle(w)
    BY DEF Dismiss, Idle
  <1>2. DOMAIN NoRequest = {"step", "op", "id", "data"} /\ NoRequest.step = "free"
    BY DEF NoRequest
  <1>3. QED BY <1>1, <1>2, StepKeeps

\* A request that decides is refused, or goes on to write what it was given.
LEMMA DecideKeeps ==
  ASSUME RecordInv, NEW w \in Workers, ~Idle(w), NEW reply, Decide(w, reply),
         reply.ok =>
           /\ WellWritten(req[w].op, reply.data)
           /\ kind = "employee" /\ req[w].op = "pin" => PinFree(req[w].id, reply.data.pin)
           /\ kind = "fiscal" /\ req[w].op = "test" => Verdict(row[req[w].id], reply.data)
           /\ kind = "fiscal" /\ req[w].op = "create" => reply.data.ready = SomeReady
  PROVE  RecordInv'
  <1> DEFINE q == [req[w] EXCEPT !.step = IF reply.ok THEN "write" ELSE "refused", !.data = reply.data]
  <1>1. req' = [req EXCEPT ![w] = q] /\ UNCHANGED <<kind, row, doubtful>>
    BY DEF Decide
  <1>2. DOMAIN req[w] = {"step", "op", "id", "data"}
    BY DEF RecordInv, RequestsShape
  <1>3. /\ DOMAIN q = {"step", "op", "id", "data"} /\ q.data = reply.data
        /\ q.step = IF reply.ok THEN "write" ELSE "refused"
        /\ q.op = req[w].op /\ q.id = req[w].id
    BY <1>2
  <1> HIDE DEF q
  <1>4. QED BY <1>1, <1>3, StepKeeps

\* What a request reads before it creates a record.
LEMMA ReadCreateKeeps ==
  ASSUME RecordInv, NEW w \in Workers, ReadCreate(w)
  PROVE  RecordInv'
  <1> DEFINE d == req[w].data
  <1>1. /\ req[w].step = "read" /\ req[w].op = "create" /\ Decide(w, Created(d)) /\ ~Idle(w)
        /\ WellSent("create", d)
    BY DEF ReadCreate, Idle, RecordInv, RequestsShape
  <1>2. kind = "employee" => RowFields \subseteq DOMAIN Created(d).data /\ Created(d).data.pin = Null
    BY DEF Created, CreateEmployee, Reply, RowFields
  <1>3. ASSUME kind = "fiscal"
        PROVE  ProfileWrite("create", Created(d).data) /\ Created(d).data.ready = SomeReady
    <2>1. DOMAIN d \in {ProfileFields, FormFields}
      BY <1>1, <1>3 DEF WellSent, ProfileRequest
    <2>2. Created(d) = UpsertProfile(d)
      BY <1>3 DEF Created
    <2> DEFINE c == Created(d).data
    <2> DEFINE some == SomeReady
    <2> DEFINE fields == DOMAIN d \cup {"life", "ready"}
                            \cup (IF "provider" \in DOMAIN d THEN {"status"} ELSE {})
    <2>a. c = [f \in fields |->
                 CASE f = "life" -> "live"
                   [] f = "status" -> "CONFIGURED"
                   [] f = "ready" -> some
                   [] f \in OptionalOfProfile -> OrNull(d[f])
                   [] OTHER -> d[f]]
      BY <2>2 DEF UpsertProfile, Reply, SomeReady
    <2>b. {"life", "ready"} \subseteq fields
      OBVIOUS
    <2> HIDE DEF fields, c, some
    <2>c. {"life", "status", "ready"} \cap OptionalOfProfile = {}
      BY DEF OptionalOfProfile
    <2>3. /\ DOMAIN c = fields
          /\ c.life = "live" /\ c.ready = some
          /\ "status" \in DOMAIN c => c.status = "CONFIGURED"
      <3>1. DOMAIN c = fields
        BY <2>a
      <3>2. c["life"] = "live"
        BY <2>a, <2>b, <2>c
      <3>3. c["ready"] = some
        BY <2>a, <2>b, <2>c
      <3>4. "status" \in fields => c["status"] = "CONFIGURED"
        BY <2>a, <2>c
      <3>5. QED BY <3>1, <3>2, <3>3, <3>4
    <2>4. DOMAIN c \in {{"life", "ready"} \cup ProfileFields,
                        {"life", "ready", "status"} \cup FormFields}
      BY <2>1, <2>3 DEF ProfileFields, ProviderFields, FormFields, fields
    <2>5. ProfileWrite("create", c)
      BY <2>3, <2>4 DEF ProfileWrite, some
    <2>6. QED BY <2>3, <2>5 DEF c, some
  <1>4. WellWritten("create", Created(d).data)
    BY <1>2, <1>3 DEF WellWritten, EmployeeWrite
  <1>5. QED BY <1>1, <1>3, <1>4, DecideKeeps

\* What it reads before it changes one.
LEMMA ReadRecordKeeps ==
  ASSUME RecordInv, NEW w \in Workers, ReadRecord(w)
  PROVE  RecordInv'
  <1> DEFINE d == req[w].data
             i == req[w].id
  <1>1. /\ req[w].step = "read" /\ req[w].op # "create" /\ ~Idle(w)
        /\ WellSent(req[w].op, d)
    BY DEF ReadRecord, Idle, RecordInv, RequestsShape
  <1>2. CASE ~Live(i)
    BY <1>1, <1>2, RefuseKeeps DEF ReadRecord
  <1>3. CASE Live(i) /\ req[w].op = "update" /\ Decide(w, Updated(i, d))
    <2>1. kind = "employee" => Updated(i, d).data = d
      BY DEF Updated, UpdateEmployee, Reply
    <2>2. WellWritten("update", Updated(i, d).data)
      BY <1>1, <1>3, <2>1 DEF WellSent, WellWritten, EmployeeRequest, EmployeeWrite, ProfileRequest
    <2>3. QED BY <1>1, <1>3, <2>2, DecideKeeps
  <1>4. CASE Live(i) /\ req[w].op \in {"access", "remove"} /\ Decide(w, Reply(TRUE, d))
    <2>1. Reply(TRUE, d).data = d
      BY DEF Reply
    <2>2. WellWritten(req[w].op, d)
      BY <1>1, <1>4 DEF WellSent, WellWritten, EmployeeRequest, EmployeeWrite, ProfileRequest
    <2>3. QED BY <1>1, <1>4, <2>1, <2>2, DecideKeeps
  <1>5. CASE Live(i) /\ req[w].op = "pin" /\ Decide(w, SetPin(i, d))
    <2>1. /\ SetPin(i, d).data = d
          /\ SetPin(i, d).ok => \A j \in PinnedWith(i) : row[j].pin # d.pin
      BY DEF SetPin, Reply
    <2>2. SetPin(i, d).ok => PinFree(i, d.pin)
      BY <2>1 DEF PinFree, PinnedWith
    <2>3. WellWritten("pin", d)
      BY <1>1, <1>5 DEF WellSent, WellWritten, EmployeeRequest, EmployeeWrite, ProfileRequest
    <2>4. QED BY <1>1, <1>5, <2>1, <2>2, <2>3, DecideKeeps
  <1>6. CASE Live(i) /\ req[w].op = "test" /\ Decide(w, TestConnection(i))
    <2>1. /\ DOMAIN TestConnection(i).data = {"status", "ready"}
          /\ Verdict(row[i], TestConnection(i).data)
      BY <1>6 DEF TestConnection, Reply, Verdict, Live
    <2>2. WellWritten("test", TestConnection(i).data)
      BY <1>1, <1>6, <2>1 DEF WellSent, WellWritten, EmployeeRequest, ProfileWrite
    <2>3. QED BY <1>1, <1>6, <2>1, <2>2, DecideKeeps
  <1>7. QED BY <1>2, <1>3, <1>4, <1>5, <1>6 DEF ReadRecord

-----------------------------------------------------------------------------
(* Rows are written *)

\* The provider of a profile is the same.
SameProvider(s, r) ==
  /\ r.life = s.life
  /\ \A f \in ProviderFields : r[f] = s[f]

\* It is as ready as it was.
LEMMA ProviderStays ==
  ASSUME NEW s, NEW r, SameProvider(s, r)
  PROVE  ProviderIsReady(r) = ProviderIsReady(s)
  BY DEF SameProvider, ProviderFields, ProviderIsReady, RequiredProviderFields

\* A request that writes a row is alone with it, or the row is doubtful.
LEMMA WriteKeeps ==
  ASSUME RecordInv, NEW w \in Workers, req[w].step = "write", NEW i, NEW r, NEW q, kind' = kind,
         row' = [row EXCEPT ![i] = r],
         req' = [req EXCEPT ![w] = q],
         doubtful \subseteq doubtful',
         DOMAIN q = {"step", "op", "id", "data"}, q.step = "done",
         q.op = req[w].op, q.op = "pin" => q.id = req[w].id,
         kind \in {"employee", "fiscal"} /\ i \in Ids =>
           "life" \in DOMAIN r /\ (r.life = "live" => RowFields \subseteq DOMAIN r),
         kind = "employee" /\ i \in Ids =>
           \A k \in Ids \ {i} : SharePin(r, row[k]) => {i, k} \cap doubtful' # {},
         kind = "fiscal" /\ i \in Ids =>
           /\ r.life = "live" => \A k \in Ids \ {i} : ~Live(k)
           /\ req[w].op = "test" /\ Live(i) => SameProvider(row[i], r)
           /\ doubtful = {} /\ r.life = "live" => AsTested(r)
           /\ doubtful = {} /\ req[w].op = "create" => r.life = "live" /\ r.ready = SomeReady
  PROVE  RecordInv'
  <1>w. ~Idle(w) /\ (kind = "fiscal" => req[w].op \in {"create", "test"})
    BY DEF Idle, RecordInv, RequestsShape, WellWritten, ProfileWrite
  <1>1. /\ req'[w] = q /\ DOMAIN req' = Workers
        /\ \A v \in Workers \ {w} : req'[v] = req[v]
    BY DEF RecordInv, RequestsShape
  <1>2. /\ DOMAIN row' = Ids
        /\ \A k \in Ids : row'[k] = IF k = i THEN r ELSE row[k]
    BY DEF RecordInv, RowsShape
  <1>3. RowsShape'
    BY <1>2 DEF RecordInv, RowsShape, RowFields, Live
  <1>4. RequestsShape'
    <2>1. ASSUME NEW v \in Workers
          PROVE  /\ DOMAIN req'[v] = {"step", "op", "id", "data"}
                 /\ req'[v].step = "read" => WellSent(req'[v].op, req'[v].data)
                 /\ req'[v].step = "write" => WellWritten(req'[v].op, req'[v].data)
      BY <1>1 DEF RecordInv, RequestsShape
    <2>2. QED BY <2>1, <1>1, ShapeAfter
  <1>5. PinAlone'
    BY <1>w, <1>1 DEF RecordInv, PinAlone, Idle
  <1>6. TestApart'
    <2> SUFFICES ASSUME kind = "fiscal", doubtful' = {}, NEW u \in Workers, NEW v \in Workers,
                        req'[u].op = "test", req'[v].op = "create", ~Idle(u)', ~Idle(v)'
                 PROVE  FALSE
      BY DEF TestApart
    <2>1. doubtful = {}
      OBVIOUS
    <2>2. \A x \in Workers : req'[x].op = req[x].op /\ (~Idle(x)' => ~Idle(x))
      BY <1>w, <1>1 DEF Idle
    <2>3. QED BY <2>1, <2>2 DEF RecordInv, TestApart
  <1>7. PinCurrent'
    <2>1. ASSUME NEW v \in Workers, req'[v].step = "write", req'[v].op = "pin",
                 req'[v].id \notin doubtful'
          PROVE  FALSE
      <3>1. v # w /\ req'[v] = req[v]
        BY <2>1, <1>1
      <3>2. ~Idle(v) /\ req[v].id \notin doubtful
        BY <2>1, <3>1 DEF Idle
      <3>3. QED BY <1>w, <2>1, <3>1, <3>2 DEF RecordInv, PinAlone
    <2>2. QED BY <2>1 DEF PinCurrent
  <1>8. TestCurrent'
    <2> SUFFICES ASSUME kind = "fiscal", doubtful' = {}, NEW v \in Workers, req'[v].step = "write",
                        req'[v].op = "test", req'[v].id \in Ids
                 PROVE  Verdict(row'[req'[v].id], req'[v].data)
      BY DEF TestCurrent, Verdict, ProviderIsReady, RequiredProviderFields
    <2>1. v # w /\ req'[v] = req[v] /\ doubtful = {} /\ ~Idle(v)
      BY <1>1 DEF Idle
    <2> DEFINE k == req[v].id
    <2>2. Verdict(row[k], req[v].data)
      BY <2>1 DEF RecordInv, TestCurrent
    <2>3. req[w].op = "test"
      BY <1>w, <2>1 DEF RecordInv, TestApart
    <2>4. row'[k] = row[k] \/ SameProvider(row[k], row'[k])
      BY <1>2, <2>1, <2>2, <2>3 DEF Verdict, Live
    <2>5. SameProvider(row[k], row'[k]) => ProviderIsReady(row'[k]) = ProviderIsReady(row[k])
      BY ProviderStays
    <2>6. Verdict(row'[k], req[v].data)
      BY <2>2, <2>4, <2>5 DEF Verdict, SameProvider
    <2>7. QED BY <2>1, <2>6
  <1>c. CarriedCurrent'
    <2> SUFFICES ASSUME kind = "fiscal", doubtful' = {}, NEW v \in Workers, req'[v].step = "write",
                        req'[v].op = "create"
                 PROVE  req'[v].data.ready = SomeReady'
      BY DEF CarriedCurrent
    <2>1. v # w /\ req'[v] = req[v] /\ doubtful = {} /\ ~Idle(v)
      BY <1>1 DEF Idle
    <2>2. req[v].data.ready = SomeReady
      BY <2>1 DEF RecordInv, CarriedCurrent
    <2>3. req[w].op = "create"
      BY <1>w, <2>1 DEF RecordInv, TestApart
    <2>4. SomeReady' = SomeReady
      BY <1>2, <2>1, <2>3 DEF SomeReady, Profiles, Live
    <2>5. QED BY <2>1, <2>2, <2>4
  <1>o. OneProfile'
    BY <1>2 DEF RecordInv, OneProfile, Live
  <1>9. PinsUnique'
    <2> SUFFICES ASSUME kind = "employee", NEW j \in Ids, NEW k \in Ids, j # k,
                        SharePin(row'[j], row'[k])
                 PROVE  {j, k} \cap doubtful' # {}
      BY DEF PinsUnique, SharePin
    <2>1. CASE j = i
      BY <2>1, <1>2
    <2>2. CASE k = i
      <3>1. SharePin(r, row[j])
        BY <2>2, <1>2 DEF SharePin
      <3>2. {i, j} \cap doubtful' # {}
        BY <3>1, <2>2
      <3>3. QED BY <3>2, <2>2
    <2>3. CASE j # i /\ k # i
      BY <2>3, <1>2 DEF RecordInv, PinsUnique
    <2>4. QED BY <2>1, <2>2, <2>3
  <1>10. ReadyAsTested'
    <2> SUFFICES ASSUME kind = "fiscal", doubtful' = {}, NEW k \in Ids, row'[k].life = "live"
                 PROVE  AsTested(row'[k])
      BY DEF ReadyAsTested, Profiles, Live, AsTested, ProviderIsReady, RequiredProviderFields
    <2>1. CASE k = i
      BY <2>1, <1>2
    <2>2. CASE k # i
      BY <2>2, <1>2 DEF RecordInv, ReadyAsTested, Profiles, Live
    <2>3. QED BY <2>1, <2>2
  <1>11. QED BY <1>3, <1>4, <1>5, <1>6, <1>7, <1>8, <1>c, <1>o, <1>9, <1>10 DEF RecordInv

\* A new employee has no PIN, and a profile that is entered again awaits its test.
LEMMA InsertKeeps ==
  ASSUME RecordInv, NEW w \in Workers, Insert(w)
  PROVE  RecordInv'
  <1> DEFINE d == req[w].data
  <1>1. /\ req[w].step = "write" /\ req[w].op = "create" /\ ~Idle(w)
        /\ WellWritten("create", d) /\ DOMAIN req[w] = {"step", "op", "id", "data"}
    BY DEF Insert, Idle, RecordInv, RequestsShape
  <1>2. CASE Refuse(w)
    BY <1>1, <1>2, RefuseKeeps
  <1>3. ASSUME NEW i \in InsertedAt,
               row' = [row EXCEPT ![i] = Inserted(@, d)],
               req' = [req EXCEPT ![w].step = "done", ![w].id = i],
               UNCHANGED <<kind, gone, doubtful>>
        PROVE  RecordInv'
    <2> DEFINE q == [req[w] EXCEPT !.step = "done", !.id = i]
               r == Inserted(row[i], d)
               old == IF row[i] = NoRow THEN NoProvider ELSE row[i]
    <2>1. req' = [req EXCEPT ![w] = q] /\ i \in Ids /\ row' = [row EXCEPT ![i] = r]
      BY <1>3 DEF InsertedAt, FreshIds, Profiles, RecordInv, RowsShape
    <2>2. DOMAIN q = {"step", "op", "id", "data"} /\ q.step = "done" /\ q.op = req[w].op
      BY <1>1
    <2>3. /\ kind # "fiscal" => r = d
          /\ kind = "fiscal" => /\ DOMAIN r = DOMAIN d \cup DOMAIN old
                                /\ \A f \in DOMAIN r : r[f] = IF f \in DOMAIN d THEN d[f] ELSE old[f]
      BY DEF Inserted, Given
    <2> HIDE DEF q, r, old, d
    <2>4. kind = "employee" => /\ "life" \in DOMAIN r /\ RowFields \subseteq DOMAIN r
                               /\ \A k \in Ids : ~SharePin(r, row[k])
      BY <1>1, <2>3 DEF WellWritten, EmployeeWrite, SharePin, RowFields
    <2>5. ASSUME kind = "fiscal"
          PROVE  /\ r.life = "live" /\ "life" \in DOMAIN r /\ RowFields \subseteq DOMAIN r
                 /\ \A k \in Ids \ {i} : ~Live(k)
                 /\ doubtful = {} => AsTested(r) /\ r.ready = SomeReady
      <3>1. \/ row[i] = NoRow /\ Profiles = {} /\ old = NoProvider
            \/ Live(i) /\ row[i] # NoRow /\ old = row[i]
        BY <1>3, <2>5 DEF InsertedAt, FreshIds, Profiles, NoRow, Live, old
      <3>2. \A k \in Ids \ {i} : ~Live(k)
        BY <3>1, <2>1, <2>5 DEF Profiles, RecordInv, OneProfile
      <3>3. ProfileWrite("create", d)
        BY <1>1, <2>5 DEF WellWritten
      <3>4. {"life", "ready"} \cup ProfileFields \subseteq DOMAIN d /\ d.life = "live"
        BY <3>3 DEF ProfileWrite, FormFields
      <3>5. {"status"} \cup ProviderFields \subseteq DOMAIN old
        BY <3>1, <2>1, <2>5 DEF RecordInv, RowsShape, RowFields, FormFields, NoProvider, ProviderFields
      <3>6. /\ r.life = "live" /\ "life" \in DOMAIN r /\ RowFields \subseteq DOMAIN r
            /\ r.ready = d.ready
        BY <2>3, <2>5, <3>4, <3>5 DEF RowFields, FormFields
      <3>7. ASSUME doubtful = {}
            PROVE  AsTested(r) /\ r.ready = SomeReady
        <4>1. d.ready = SomeReady
          BY <3>7, <1>1, <2>5 DEF RecordInv, CarriedCurrent, d
        <4>2. CASE "status" \in DOMAIN d
          <5>1. d.status = "CONFIGURED" /\ r.status = d.status
            BY <4>2, <3>3, <2>3, <2>5 DEF ProfileWrite, ProfileFields
          <5>2. QED BY <5>1, <4>1, <3>6 DEF AsTested
        <4>3. CASE "status" \notin DOMAIN d
          <5>1. DOMAIN d = {"life", "ready"} \cup ProfileFields
            BY <4>3, <3>3 DEF ProfileWrite
          <5>2. r.status = old.status /\ \A f \in ProviderFields : r[f] = old[f]
            BY <5>1, <2>3, <2>5, <3>5 DEF ProfileFields, ProviderFields
          <5>3. ProviderIsReady(r) = ProviderIsReady(old)
            BY <5>2 DEF ProviderIsReady, RequiredProviderFields, ProviderFields
          <5>4. CASE row[i] = NoRow /\ Profiles = {} /\ old = NoProvider
            <6>1. ~r.ready /\ r.status = "NOT_CONFIGURED"
              BY <5>4, <5>2, <4>1, <3>6 DEF SomeReady, NoProvider
            <6>2. QED BY <6>1, <4>1, <3>6 DEF AsTested
          <5>5. CASE Live(i) /\ old = row[i]
            <6>1. AsTested(row[i])
              BY <5>5, <3>7, <2>1, <2>5 DEF RecordInv, ReadyAsTested, Profiles
            <6>2. SomeReady => row[i].ready
              BY <3>2 DEF SomeReady, Profiles
            <6>3. QED BY <6>1, <6>2, <5>2, <5>3, <5>5, <4>1, <3>6 DEF AsTested
          <5>6. QED BY <5>4, <5>5, <3>1
        <4>4. QED BY <4>2, <4>3
      <3>8. QED BY <3>2, <3>6, <3>7
    <2>6. req[w].step = "write" /\ req[w].op # "test" /\ q.op # "pin"
      BY <1>1, <2>2
    <2>7. kind' = kind /\ doubtful \subseteq doubtful'
      BY <1>3
    <2>8. QED BY <2>1, <2>2, <2>4, <2>5, <2>6, <2>7, WriteKeeps
  <1>4. QED BY <1>2, <1>3 DEF Insert

\* An employee keeps the PIN, or gets one that nobody has; a profile gets the
\* verdict on the very provider that it has.
LEMMA UpdateKeeps ==
  ASSUME RecordInv, NEW w \in Workers, UpdateRow(w)
  PROVE  RecordInv'
  <1> DEFINE i == req[w].id
             d == req[w].data
             r == Merged(row[i], d)
             q == [req[w] EXCEPT !.step = "done"]
  <1>1. /\ req[w].step = "write" /\ req[w].op \in {"update", "access", "pin", "test"} /\ ~Idle(w)
        /\ WellWritten(req[w].op, d) /\ DOMAIN req[w] = {"step", "op", "id", "data"}
    BY DEF UpdateRow, Idle, RecordInv, RequestsShape
  <1>2. CASE Refuse(w)
    BY <1>1, <1>2, RefuseKeeps
  <1>3. ASSUME row' = [row EXCEPT ![i] = r],
               req' = [req EXCEPT ![w].step = "done"],
               doubtful' = IF ComesBack(i, r) THEN doubtful \cup {i} ELSE doubtful,
               UNCHANGED <<kind, gone>>
        PROVE  RecordInv'
    <2>1. req' = [req EXCEPT ![w] = q]
      BY <1>3
    <2>2. /\ DOMAIN q = {"step", "op", "id", "data"} /\ q.step = "done"
          /\ q.op = req[w].op /\ q.id = i
      BY <1>1
    <2> HIDE DEF q
    <2>3. /\ DOMAIN r = DOMAIN row[i]
          /\ \A f \in DOMAIN row[i] : r[f] = IF f \in DOMAIN d THEN d[f] ELSE row[i][f]
      BY DEF Merged, Given
    <2> HIDE DEF r
    <2>4. kind \in {"employee", "fiscal"} => "life" \notin DOMAIN d
      BY <1>1 DEF WellWritten, EmployeeWrite, ProfileWrite
    <2>5. kind \in {"employee", "fiscal"} /\ i \in Ids =>
            /\ "life" \in DOMAIN r /\ r.life = row[i].life
            /\ r.life = "live" => RowFields \subseteq DOMAIN r
      <3> SUFFICES ASSUME kind \in {"employee", "fiscal"}, i \in Ids
                   PROVE  /\ "life" \in DOMAIN r /\ r.life = row[i].life
                          /\ r.life = "live" => RowFields \subseteq DOMAIN r
        OBVIOUS
      <3>1. "life" \in DOMAIN row[i] /\ (Live(i) => RowFields \subseteq DOMAIN row[i])
        BY DEF RecordInv, RowsShape
      <3>2. "life" \in DOMAIN r /\ r.life = row[i].life
        BY <3>1, <2>3, <2>4
      <3>3. QED BY <3>1, <3>2, <2>3 DEF Live
    <2>6. ASSUME kind = "employee", i \in Ids, NEW k \in Ids \ {i}, SharePin(r, row[k])
          PROVE  {i, k} \cap doubtful' # {}
      <3>1. /\ Live(i) /\ {"life", "branch", "active", "pin"} \subseteq DOMAIN row[i]
            /\ r.life = row[i].life
        BY <2>5, <2>6, <2>3 DEF SharePin, Live, RecordInv, RowsShape, RowFields
      <3>2. CASE req[w].op = "pin"
        <4>1. DOMAIN d = {"pin"}
          BY <3>2, <2>6, <1>1 DEF WellWritten, EmployeeWrite
        <4>2. r.pin = d.pin /\ r.branch = row[i].branch
          BY <4>1, <3>1, <2>3
        <4>3. ~PinFree(i, d.pin)
          BY <4>2, <2>6 DEF SharePin, PinFree, Live
        <4>4. i \in doubtful
          BY <4>3, <3>2, <2>6, <1>1 DEF RecordInv, PinCurrent
        <4>5. QED BY <4>4, <1>3
      <3>3. CASE req[w].op # "pin"
        <4>1. "pin" \notin DOMAIN d
          BY <3>3, <2>6, <1>1 DEF WellWritten, EmployeeWrite
        <4>2. r.pin = row[i].pin
          BY <4>1, <3>1, <2>3
        <4>3. CASE ComesBack(i, r)
          BY <4>3, <1>3
        <4>4. CASE ~ComesBack(i, r)
          <5>1. SharePin(row[i], row[k])
            BY <4>2, <4>4, <2>6, <3>1 DEF ComesBack, SharePin, Live
          <5>2. QED BY <5>1, <1>3, <2>6 DEF RecordInv, PinsUnique
        <4>5. QED BY <4>3, <4>4
      <3>4. QED BY <3>2, <3>3
    <2>7. ASSUME kind = "fiscal", i \in Ids
          PROVE  /\ r.life = "live" => \A k \in Ids \ {i} : ~Live(k)
                 /\ req[w].op = "test" /\ Live(i) => SameProvider(row[i], r)
                 /\ doubtful = {} /\ r.life = "live" => AsTested(r)
                 /\ req[w].op # "create"
      <3>1. req[w].op = "test" /\ DOMAIN d = {"status", "ready"}
        BY <2>7, <1>1 DEF WellWritten, ProfileWrite
      <3>2. r.life = "live" => Live(i)
        BY <2>5, <2>7 DEF Live
      <3>3. r.life = "live" => \A k \in Ids \ {i} : ~Live(k)
        BY <3>2, <2>7 DEF RecordInv, OneProfile
      <3>4. ASSUME Live(i)
            PROVE  SameProvider(row[i], r)
        <4>1. \A f \in ProviderFields : r[f] = row[i][f]
          BY <3>1, <3>4, <2>3, <2>7 DEF RecordInv, RowsShape, RowFields, FormFields, ProviderFields
        <4>2. QED BY <4>1, <2>5, <2>7 DEF SameProvider
      <3>5. ASSUME doubtful = {}, r.life = "live"
            PROVE  AsTested(r)
        <4>1. Verdict(row[i], d)
          BY <3>1, <3>5, <2>7, <1>1 DEF RecordInv, TestCurrent
        <4>2. r.status = d.status /\ r.ready = d.ready
          BY <3>1, <3>2, <3>5, <2>3, <2>7 DEF RecordInv, RowsShape, RowFields
        <4>3. QED BY <4>1, <4>2, <3>2, <3>4, <3>5, ProviderStays DEF AsTested, Verdict
      <3>6. QED BY <3>1, <3>3, <3>4, <3>5
    <2>8. doubtful \subseteq doubtful'
      BY <1>3
    <2>9. q.op = req[w].op /\ q.id = req[w].id
      BY <2>2
    <2>10. row' = [row EXCEPT ![i] = r] /\ kind' = kind
      BY <1>3
    <2> HIDE DEF i, d
    <2>11. QED BY <1>1, <2>1, <2>2, <2>5, <2>6, <2>7, <2>8, <2>9, <2>10, WriteKeeps
  <1>4. QED BY <1>2, <1>3 DEF UpdateRow

\* A row that is removed is not live any more.
LEMMA RemoveKeeps ==
  ASSUME RecordInv, NEW w \in Workers, RemoveRow(w)
  PROVE  RecordInv'
  <1> DEFINE i == req[w].id
             access == IF kind = "employee" THEN [active |-> FALSE] ELSE [life |-> "removed"]
             old == [row[i] EXCEPT !.life = "removed"]
             r == Merged(old, access)
             q == [req[w] EXCEPT !.step = "done"]
  <1>1. /\ req[w].step = "write" /\ req[w].op = "remove" /\ ~Idle(w)
        /\ DOMAIN req[w] = {"step", "op", "id", "data"}
    BY DEF RemoveRow, Idle, RecordInv, RequestsShape
  <1>2. /\ row' = [row EXCEPT ![i] = r] /\ req' = [req EXCEPT ![w] = q]
        /\ UNCHANGED <<kind, doubtful>>
    BY DEF RemoveRow
  <1>3. /\ DOMAIN q = {"step", "op", "id", "data"} /\ q.step = "done"
        /\ q.op = "remove" /\ q.id = i
    BY <1>1
  <1>4. kind \in {"employee", "fiscal"} /\ i \in Ids => "life" \in DOMAIN r /\ r.life = "removed"
    <2> SUFFICES ASSUME kind \in {"employee", "fiscal"}, i \in Ids
                 PROVE  "life" \in DOMAIN r /\ r.life = "removed"
      OBVIOUS
    <2>1. "life" \in DOMAIN row[i]
      BY DEF RecordInv, RowsShape
    <2>2. "life" \in DOMAIN old /\ old.life = "removed"
      BY <2>1
    <2>3. "life" \in DOMAIN access => access["life"] = "removed"
      OBVIOUS
    <2> HIDE DEF old, access
    <2>4. QED BY <2>2, <2>3 DEF Merged, Given
  <1> HIDE DEF r, q
  <1>5. kind = "employee" /\ i \in Ids => \A k \in Ids : ~SharePin(r, row[k])
    BY <1>4 DEF SharePin
  <1>f. kind # "fiscal"
    BY <1>1 DEF RecordInv, RequestsShape, WellWritten, ProfileWrite
  <1> HIDE DEF i
  <1>6. QED BY <1>1, <1>2, <1>3, <1>4, <1>5, <1>f, WriteKeeps

-----------------------------------------------------------------------------
(* The screen *)

\* A field that is typed is one that the form has.
LEMMA TypedKeepsFields ==
  ASSUME NEW form, NEW fields, NEW other \in Typed(form, fields)
  PROVE  DOMAIN other = DOMAIN form
  BY DEF Typed

\* Whatever statement a request comes to, the records stay in order.
LEMMA ServeKeeps ==
  ASSUME RecordInv, NEW w \in Workers, Serve(w)
  PROVE  RecordInv'
  BY ReadCreateKeeps, ReadRecordKeeps, InsertKeeps, UpdateKeeps, RemoveKeeps DEF Serve

\* The form of a profile has all the fields that decide on its readiness.
LEMMA ProfileForms ==
  ASSUME NEW r
  PROVE  /\ DOMAIN FiscalDefaults(r) = FormFields
         /\ \A form \in FiscalEdits(FiscalDefaults(r)) : DOMAIN form = FormFields
  <1>1. DOMAIN FiscalDefaults(r) = FormFields
    BY DEF FormFields, ProfileFields, ProviderFields, FiscalDefaults
  <1>2. \A form \in FiscalEdits(FiscalDefaults(r)) : DOMAIN form = DOMAIN FiscalDefaults(r)
    BY TypedKeepsFields DEF FiscalEdits
  <1>3. QED BY <1>1, <1>2

\* The dialogs of an employee are never those of an update, and those of a

\* profile never ask for a PIN or a removal.
LEMMA OpenedShape ==
  ASSUME NEW mode, NEW i, NEW r, NEW form, Opened(mode, i, r, form),
         kind = "employee" => mode # "edit" /\ (mode = "pin" => "pin" \in DOMAIN form),
         kind = "fiscal" => mode \in {"create", "edit"} /\ DOMAIN form = FormFields
  PROVE  DialogShape' /\ UNCHANGED recordVars
  BY DEF Opened, DialogShape, recordVars

\* A closed dialog is one.
LEMMA ClosedShape ==
  ASSUME kind' = kind, dialog' = NoDialog
  PROVE  DialogShape'
  BY DEF DialogShape, NoDialog

\* A dialog that stays as it is is one of the same kind.
LEMMA SameShape ==
  ASSUME DialogShape, UNCHANGED <<kind, dialog>>
  PROVE  DialogShape'
  BY DEF DialogShape

\* The answer to a request leaves the dialog or closes it.
LEMMA ClosedByShape ==
  ASSUME NEW d, NEW ops
  PROVE  ClosedBy(d, ops) \in {d, NoDialog}
  BY DEF ClosedBy

\* The same form, edited once.
LEMMA EditShape ==
  ASSUME DialogShape, Edit
  PROVE  DialogShape'
  <1>1. PICK form \in Edits(dialog.form, aside) : dialog' = [dialog EXCEPT !.form = form]
    BY DEF Edit
  <1>2. kind' = kind /\ dialog.mode # "closed"
    BY DEF Edit, FormModes, recordVars
  <1>3. kind \in {"employee", "fiscal"} => DOMAIN form = DOMAIN dialog.form
    BY <1>1, TypedKeepsFields DEF Edits, FiscalEdits
  <1>4. /\ DOMAIN dialog' = {"mode", "id", "row", "form"}
        /\ dialog'.mode = dialog.mode /\ dialog'.form = form
    BY <1>1 DEF DialogShape
  <1>5. QED BY <1>2, <1>3, <1>4 DEF DialogShape

\* Dialogs are closed, or the one of the profile starts anew.
LEMMA FetchShape ==
  ASSUME DialogShape, FetchArrives
  PROVE  DialogShape'
  <1>1. kind' = kind /\ dialog' \in {ResetBy(fetch.rows), NoDialog}
    BY ClosedByShape DEF FetchArrives, recordVars
  <1>2. CASE dialog' = NoDialog
    BY <1>1, <1>2, ClosedShape
  <1>3. CASE dialog' = ResetBy(fetch.rows) /\ ResetBy(fetch.rows) = dialog
    BY <1>1, <1>3, SameShape
  <1>4. CASE dialog' = ResetBy(fetch.rows) /\ ResetBy(fetch.rows) # dialog
    <2> DEFINE shown == {i \in Ids : fetch.rows[i] # NoRow}
               i == IF shown = {} THEN NoId ELSE CHOOSE i \in shown : TRUE
               r == IF shown = {} THEN NoRow ELSE fetch.rows[i]
               mode == IF shown = {} THEN "create" ELSE "edit"
    <2>1. kind = "fiscal" /\ dialog' = [mode |-> mode, id |-> i, row |-> r, form |-> FiscalDefaults(r)]
      BY <1>4 DEF ResetBy
    <2>2. mode \in {"create", "edit"}
      OBVIOUS
    <2> HIDE DEF shown, i, r, mode
    <2>3. DOMAIN FiscalDefaults(r) = FormFields
      BY ProfileForms
    <2>4. QED BY <1>1, <2>1, <2>2, <2>3 DEF DialogShape
  <1>5. QED BY <1>1, <1>2, <1>3, <1>4

-----------------------------------------------------------------------------
(* Requests that are sent *)

\* What a dialog sends when it is submitted.
LEMMA SubmitSends ==
  ASSUME DialogShape, NEW w \in Workers, Submit(w)
  PROVE  \E op, d : WellSent(op, d) /\ Arrive(w, op, dialog.id, d)
  <1> DEFINE op == IF kind # "fiscal" /\ dialog.mode = "edit" THEN "update" ELSE "create"
             d == Payload(dialog.form, aside)
  <1>1. Arrive(w, op, dialog.id, d) /\ dialog.mode \in {"create", "edit"}
    BY DEF Submit, Sends, FormModes
  <1>2. kind = "employee" => op = "create"
    BY DEF DialogShape
  <1>3. kind = "fiscal" => op = "create" /\ d = dialog.form
    BY DEF Payload, FiscalPayload
  <1>4. WellSent(op, d)
    BY <1>1, <1>2, <1>3 DEF WellSent, EmployeeRequest, ProfileRequest, DialogShape
  <1> HIDE DEF op, d
  <1>5. QED BY <1>1, <1>4

\* What the PIN dialog sends.
LEMMA SubmitPinSends ==
  ASSUME DialogShape, NEW w \in Workers, SubmitPin(w)
  PROVE  \E op, d : WellSent(op, d) /\ Arrive(w, op, dialog.id, d)
  <1> DEFINE d == Payload(dialog.form, aside)
  <1>1. Arrive(w, "pin", dialog.id, d) /\ dialog.mode = "pin"
    BY DEF SubmitPin, Sends
  <1>2. kind # "fiscal" /\ (kind = "employee" => d = [pin |-> dialog.form.pin])
    BY <1>1 DEF DialogShape, Payload, PinPayload
  <1>3. WellSent("pin", d)
    BY <1>2 DEF WellSent, EmployeeRequest
  <1> HIDE DEF d
  <1>4. QED BY <1>1, <1>3

\* What a confirmed removal sends.
LEMMA DeleteSends ==
  ASSUME DialogShape, NEW w \in Workers, ConfirmDelete(w)
  PROVE  WellSent("remove", NoRow) /\ Arrive(w, "remove", dialog.id, NoRow)
  <1>1. Arrive(w, "remove", dialog.id, NoRow) /\ dialog.mode = "delete"
    BY DEF ConfirmDelete, Sends
  <1>2. kind # "fiscal"
    BY <1>1 DEF DialogShape
  <1>3. QED BY <1>1, <1>2 DEF WellSent, EmployeeRequest

\* Only an employee has a switch, and only the profile is tested.
LEMMA ToggleSends ==
  ASSUME NEW w \in Workers, NEW i \in Ids, Toggle(w, i)
  PROVE  \E d : WellSent("access", d) /\ Arrive(w, "access", i, d)
  <1> DEFINE d == [active |-> ~list[i].active]
  <1>1. Arrive(w, "access", i, d) /\ "access" \in Buttons(list[i])
    BY DEF Toggle, Sends, Offers
  <1>2. kind # "fiscal"
    BY <1>1 DEF Buttons, ProfileButtons
  <1>3. WellSent("access", d)
    BY <1>2 DEF WellSent, EmployeeRequest
  <1> HIDE DEF d
  <1>4. QED BY <1>1, <1>3

\* The test of a profile brings nothing along.
LEMMA TestSends ==
  ASSUME NEW w \in Workers, NEW i \in Ids, TestProfile(w, i)
  PROVE  WellSent("test", NoRow) /\ Arrive(w, "test", i, NoRow)
  <1>1. Arrive(w, "test", i, NoRow) /\ "test" \in Buttons(list[i])
    BY DEF TestProfile, Sends, Offers
  <1>2. kind # "employee"
    BY <1>1 DEF Buttons, EmployeeButtons
  <1>3. QED BY <1>1, <1>2 DEF WellSent, ProfileRequest

\* Other managers send what they could enter in the same forms.
LEMMA OthersSend ==
  ASSUME NEW w \in Workers, OtherSends(w)
  PROVE  \E op, i, d : WellSent(op, d) /\ Arrive(w, op, i, d)
  <1>1. \/ kind = "fiscal" /\ \E d \in ProfilePayloads : Arrive(w, "create", NoId, d)
        \/ \E i \in Ids :
             \/ \E d \in OtherPayloads(i) : Arrive(w, "update", i, d)
             \/ kind = "fiscal" /\ Arrive(w, "test", i, NoRow)
             \/ kind = "employee" /\ Arrive(w, "pin", i, [pin |-> "x1"])
             \/ kind \notin {"fiscal", "purchase", "item"} /\ Arrive(w, "remove", i, NoRow)
    BY DEF OtherSends
  <1>2. ASSUME NEW i, NEW d \in OtherPayloads(i), Arrive(w, "update", i, d)
        PROVE  WellSent("update", d)
    BY <1>2 DEF OtherPayloads, ApiPayloads, WellSent, EmployeeRequest
  <1>3. ASSUME kind = "fiscal", NEW d \in ProfilePayloads
        PROVE  WellSent("create", d)
    <2>1. PICK f : /\ d \in {FiscalPayload(f), WithoutProvider(f)}
                   /\ \E r : f \in FiscalEdits(FiscalDefaults(r))
      BY DEF ProfilePayloads
    <2>2. DOMAIN f = FormFields
      BY <2>1, ProfileForms
    <2>3. DOMAIN WithoutProvider(f) = ProfileFields
      BY DEF WithoutProvider, Restrict, FiscalIdentity, FiscalResolution, ProfileFields
    <2>4. DOMAIN d \in {ProfileFields, FormFields}
      BY <2>1, <2>2, <2>3 DEF FiscalPayload
    <2>5. QED BY <2>4, <1>3 DEF WellSent, ProfileRequest
  <1>4. kind = "fiscal" => WellSent("test", NoRow)
    BY DEF WellSent, ProfileRequest
  <1>5. kind = "employee" => WellSent("pin", [pin |-> "x1"])
    BY DEF WellSent, EmployeeRequest
  <1>6. kind \notin {"fiscal", "purchase", "item"} => WellSent("remove", NoRow)
    BY DEF WellSent, EmployeeRequest
  <1>7. QED BY <1>1, <1>2, <1>3, <1>4, <1>5, <1>6

-----------------------------------------------------------------------------
(* The theorems *)

\* What is stored at first, and nobody at work.
LEMMA InitRecords == Init => RecordInv /\ DialogShape
<1> SUFFICES ASSUME Init
             PROVE  RecordInv /\ DialogShape
  OBVIOUS
<1>1. PICK s \in Starts : kind = s.kind /\ row = s.rows
  BY DEF Init
<1>2. /\ row \in [Ids -> {NoRow} \cup Rows(kind)]
      /\ kind = "employee" => \A i, j \in Ids : i # j => ~SharePin(row[i], row[j])
      /\ kind = "fiscal" => \A i \in Ids : row[i].life = "live" => AsTested(row[i])
      /\ OneProfile
  BY <1>1, StartsAssumption DEF OneProfile, Live
<1>3. /\ req = [w \in Workers |-> NoRequest] /\ dialog = NoDialog
      /\ NoRequest.step = "free" /\ NoRequest.op = "none"
      /\ DOMAIN NoRequest = {"step", "op", "id", "data"}
  BY DEF Init, InitialScreen, NoRequest
<1>4. /\ DOMAIN req = Workers
      /\ \A w \in Workers : /\ req[w].step = "free" /\ req[w].op = "none"
                            /\ DOMAIN req[w] = {"step", "op", "id", "data"}
  BY <1>3
<1>5. RowsShape
  <2>1. DOMAIN row = Ids /\ \A i \in Ids : row[i] \in {NoRow} \cup Rows(kind)
    BY <1>2
  <2>2. "life" \in DOMAIN NoRow /\ NoRow.life = "none"
    BY DEF NoRow
  <2>3. kind = "employee" => \A r \in Rows(kind) : RowFields \subseteq DOMAIN r
    BY DEF Rows, EmployeeRows, RowFields
  <2>4. kind = "fiscal" => \A r \in Rows(kind) : RowFields \subseteq DOMAIN r
    BY DEF Rows, FiscalRows, RowFields, FormFields, ProfileFields, ProviderFields
  <2>5. "life" \in RowFields
    BY DEF RowFields
  <2>6. QED BY <2>1, <2>2, <2>3, <2>4, <2>5 DEF RowsShape, Live
<1>6. RequestsShape /\ PinAlone /\ TestApart /\ PinCurrent /\ TestCurrent /\ CarriedCurrent
  BY <1>4 DEF RequestsShape, PinAlone, TestApart, PinCurrent, TestCurrent, CarriedCurrent, Idle
<1>7. PinsUnique
  BY <1>2 DEF PinsUnique
<1>8. ReadyAsTested
  BY <1>2 DEF ReadyAsTested, Profiles, Live
<1>9. DialogShape
  BY <1>3 DEF DialogShape, NoDialog
<1>10. QED
  BY <1>2, <1>5, <1>6, <1>7, <1>8, <1>9 DEF RecordInv

\* Whoever sends a request sends one that is well formed; whatever else happens

\* leaves the rows alone.
LEMMA NextRecords ==
  RecordInv /\ DialogShape /\ [Next]_vars => RecordInv' /\ DialogShape'
<1> SUFFICES ASSUME RecordInv, DialogShape, [Next]_vars
             PROVE  RecordInv' /\ DialogShape'
  OBVIOUS
<1>s. ASSUME UNCHANGED <<recordVars, dialog>>
      PROVE  RecordInv' /\ DialogShape'
  BY <1>s, QuietRecords, SameShape DEF recordVars
<1>a. ASSUME NEW w \in Workers, NEW op, NEW i, NEW d, WellSent(op, d), Arrive(w, op, i, d),
             dialog' \in {dialog, NoDialog}
      PROVE  RecordInv' /\ DialogShape'
  BY <1>a, ArriveKeeps, SameShape, ClosedShape DEF Arrive
<1>b. ASSUME NEW w \in Workers, Dismiss(w), dialog' \in {dialog, NoDialog}
      PROVE  RecordInv' /\ DialogShape'
  BY <1>b, DismissKeeps, SameShape, ClosedShape DEF Dismiss
<1>1. CASE UNCHANGED vars
  BY <1>1, <1>s DEF vars, screenVars
<1>2. CASE FetchReads
  BY <1>2, <1>s DEF FetchReads
<1>3. CASE FetchArrives
  BY <1>3, FetchShape, QuietRecords DEF FetchArrives, recordVars
<1>4. CASE AsideArrives
  <2>1. UNCHANGED recordVars /\ kind \notin {"employee", "fiscal"}
    BY <1>4 DEF AsideArrives
  <2>2. dialog' = dialog \/ dialog' = [dialog EXCEPT !.form = Defaults(dialog.row, aside')]
    BY <1>4 DEF AsideArrives
  <2>3. DialogShape'
    BY <2>1, <2>2 DEF DialogShape, recordVars
  <2>4. QED
    BY <2>1, <2>3, QuietRecords DEF recordVars
<1>5. CASE OpenCreate
  <2>1. Opened("create", NoId, NoRow, Defaults(NoRow, aside))
    BY <1>5 DEF OpenCreate
  <2>2. kind = "fiscal" => DOMAIN Defaults(NoRow, aside) = FormFields
    BY ProfileForms DEF Defaults
  <2>3. QED
    BY <2>1, <2>2, OpenedShape, QuietRecords DEF recordVars
<1>6. CASE Edit
  BY <1>6, EditShape, QuietRecords DEF Edit, recordVars
<1>7. CASE Cancel
  BY <1>7, ClosedShape, QuietRecords DEF Cancel, recordVars
<1>8. ASSUME NEW i \in Ids, OpenEdit(i)
      PROVE  RecordInv' /\ DialogShape'
  <2>1. Opened("edit", i, list[i], Defaults(list[i], aside)) /\ "edit" \in Buttons(list[i])
    BY <1>8 DEF OpenEdit, Offers
  <2>2. kind # "employee"
    BY <2>1 DEF Buttons, EmployeeButtons
  <2>3. kind = "fiscal" => DOMAIN Defaults(list[i], aside) = FormFields
    BY ProfileForms DEF Defaults
  <2>4. QED
    BY <2>1, <2>2, <2>3, OpenedShape, QuietRecords DEF recordVars
<1>9. ASSUME NEW i \in Ids, OpenDelete(i)
      PROVE  RecordInv' /\ DialogShape'
  <2>1. Opened("delete", i, list[i], NoForm) /\ "delete" \in Buttons(list[i])
    BY <1>9 DEF OpenDelete, Offers
  <2>2. kind # "fiscal"
    BY <2>1 DEF Buttons, ProfileButtons
  <2>3. QED
    BY <2>1, <2>2, OpenedShape, QuietRecords DEF recordVars
<1>10. ASSUME NEW i \in Ids, OpenPin(i)
       PROVE  RecordInv' /\ DialogShape'
  <2>1. Opened("pin", i, list[i], PinDefaults) /\ "pin" \in Buttons(list[i])
    BY <1>10 DEF OpenPin, Offers
  <2>2. kind # "fiscal" /\ "pin" \in DOMAIN PinDefaults
    BY <2>1 DEF Buttons, ProfileButtons, PinDefaults
  <2>3. QED
    BY <2>1, <2>2, OpenedShape, QuietRecords DEF recordVars
<1>11. ASSUME NEW w \in Workers, Submit(w)
       PROVE  RecordInv' /\ DialogShape'
  <2>1. dialog' = dialog
    BY <1>11 DEF Submit
  <2>2. QED
    BY <1>11, <2>1, <1>a, SubmitSends
<1>12. ASSUME NEW w \in Workers, SubmitPin(w)
       PROVE  RecordInv' /\ DialogShape'
  <2>1. dialog' = dialog
    BY <1>12 DEF SubmitPin
  <2>2. QED
    BY <1>12, <2>1, <1>a, SubmitPinSends
<1>13. ASSUME NEW w \in Workers, ConfirmDelete(w)
       PROVE  RecordInv' /\ DialogShape'
  <2>1. dialog' \in {dialog, NoDialog}
    BY <1>13 DEF ConfirmDelete
  <2>2. QED
    BY <1>13, <2>1, <1>a, DeleteSends
<1>14. ASSUME NEW w \in Workers, NEW i \in Ids, Toggle(w, i)
       PROVE  RecordInv' /\ DialogShape'
  <2>1. dialog' = dialog
    BY <1>14 DEF Toggle
  <2>2. QED
    BY <1>14, <2>1, <1>a, ToggleSends
<1>15. ASSUME NEW w \in Workers, NEW i \in Ids, TestProfile(w, i)
       PROVE  RecordInv' /\ DialogShape'
  <2>1. dialog' = dialog
    BY <1>15 DEF TestProfile
  <2>2. QED
    BY <1>15, <2>1, <1>a, TestSends
<1>16. ASSUME NEW w \in Workers, Served(w)
       PROVE  RecordInv' /\ DialogShape'
  <2>1. Serve(w) /\ dialog' = dialog
    BY <1>16 DEF Served, screenVars
  <2>2. kind' = kind
    BY <2>1 DEF Serve, ReadCreate, ReadRecord, Insert, UpdateRow, RemoveRow, Decide, Refuse
  <2>3. QED
    BY <2>1, <2>2, ServeKeeps, SameShape
<1>17. ASSUME NEW w \in Workers, AnswerDone(w)
       PROVE  RecordInv' /\ DialogShape'
  <2>1. Dismiss(w) /\ dialog' \in {dialog, NoDialog}
    BY <1>17, ClosedByShape DEF AnswerDone
  <2>2. QED
    BY <2>1, <1>b
<1>18. ASSUME NEW w \in Workers, AnswerRefused(w)
       PROVE  RecordInv' /\ DialogShape'
  BY <1>18, <1>b DEF AnswerRefused
<1>19. ASSUME NEW w \in Workers, AnswerLost(w)
       PROVE  RecordInv' /\ DialogShape'
  BY <1>19, <1>s DEF AnswerLost
<1>20. ASSUME NEW w \in Workers, OtherSends(w)
       PROVE  RecordInv' /\ DialogShape'
  <2>1. dialog' = dialog
    BY <1>20 DEF OtherSends, screenVars
  <2>2. QED
    BY <1>20, <2>1, <1>a, OthersSend
<1>21. ASSUME NEW w \in Workers, OtherDone(w)
       PROVE  RecordInv' /\ DialogShape'
  BY <1>21, <1>b DEF OtherDone
<1>22. CASE ReferredRemoved
  <2>1. UNCHANGED <<kind, row, req, doubtful, dialog>>
    BY <1>22 DEF ReferredRemoved, RemoveReferred, screenVars
  <2>2. QED
    BY <2>1, QuietRecords, SameShape
<1>23. QED
  BY <1>1, <1>2, <1>3, <1>4, <1>5, <1>6, <1>7, <1>8, <1>9, <1>10, <1>11, <1>12, <1>13, <1>14,
     <1>15, <1>16, <1>17, <1>18, <1>19, <1>20, <1>21, <1>22
     DEF Next

(* However many managers work on however many employees, two of a branch   *)
(* who may log in have different PINs: what employee.service.ts:174 checks *)
(* before it stores a PIN is still so when it does, unless requests        *)
(* overlapped or one of the two came back into use.                        *)
THEOREM PinsUniqueHolds == Spec => []PinsUnique
<1>1. Init => RecordInv /\ DialogShape
  BY InitRecords
<1>2. RecordInv /\ DialogShape /\ [Next]_vars => RecordInv' /\ DialogShape'
  BY NextRecords
<1>3. RecordInv => PinsUnique
  BY DEF RecordInv
<1>4. QED
  BY <1>1, <1>2, <1>3, PTL DEF Spec

(* The stored status of the provider is true of the provider, and no       *)
(* profile is ready with a provider in error or without one, for any       *)
(* number of upserts, with and without a provider, overlapping or not: the *)
(* readiness that fiscal.service.ts:124 carries over is that of a profile  *)
(* no test has judged since.  Only an upsert that overlaps a test may      *)
(* break it.                                                               *)
THEOREM ReadyAsTestedHolds == Spec => []ReadyAsTested
<1>1. Init => RecordInv /\ DialogShape
  BY InitRecords
<1>2. RecordInv /\ DialogShape /\ [Next]_vars => RecordInv' /\ DialogShape'
  BY NextRecords
<1>3. RecordInv => ReadyAsTested
  BY DEF RecordInv
<1>4. QED
  BY <1>1, <1>2, <1>3, PTL DEF Spec

-----------------------------------------------------------------------------
(* The invariant behind TypeOK and StoredAsEntered                          *)
(*                                                                         *)
(* A request that came from a dialog carries what was submitted there until *)
(* it has read, and then something that stores it as it was entered.       *)

RowsOf == {NoRow} \cup Rows(kind)

StoreOK ==
  /\ kind \in Kinds /\ row \in [Ids -> RowsOf]
  /\ gone \subseteq References /\ doubtful \subseteq Ids \cup {NoId}
  /\ OneProfile

\* What any request may ask for.
Asked(op, i, d) ==
  /\ op # "create" => i \in Ids
  /\ op = "create" => \E form : \/ Submitted("create", form, d)
                               \/ /\ kind = "fiscal" /\ d = WithoutProvider(form)
                                  /\ Submitted("create", form, form)
  /\ op = "update" => \/ kind \in Edited /\ \E form : Submitted("edit", form, d)
                      \/ d \in ApiPayloads
  /\ op = "access" => kind = "employee" /\ \E b \in BOOLEAN : d = [active |-> b]
  /\ op = "pin" => kind = "employee" /\ \E p \in Texts : d = [pin |-> p]
  /\ op = "test" => kind = "fiscal"

\* What it may then write: a row, or fields that fit into any row of the kind.
Writes(op, i, d) ==
  /\ op # "create" => i \in Ids /\ row[i] # NoRow
  /\ op = "create" => \A r \in RowsOf : /\ Inserted(r, d) \in Rows(kind)
                                        /\ Inserted(r, d).life = "live"
  /\ op \in {"update", "access", "pin", "test"} => Fitting(d)

Operations == {"create", "update", "access", "pin", "test", "remove"}

RequestOK(w) ==
  /\ req[w].step \in {"free", "read", "write", "done", "refused"}
  /\ req[w].id \in Ids \cup {NoId}
  /\ req[w].op \in Operations \cup {"none"}
  /\ req[w].step # "free" => req[w].op \in Operations
  /\ req[w].step = "read" => Asked(req[w].op, req[w].id, req[w].data)
  /\ req[w].step = "write" => Writes(req[w].op, req[w].id, req[w].data)

\* A profile that was listed is still there: nobody removes it.
StillLive(i) == kind = "fiscal" => Live(i)

ListOK ==
  /\ list \in [Ids -> RowsOf] /\ fetch.rows \in [Ids -> RowsOf]
  /\ fetch.step \in {"idle", "asked", "arriving"}
  /\ \A i \in Ids : list[i] # NoRow \/ fetch.rows[i] # NoRow => StillLive(i)

DialogOK ==
  /\ dialog.mode \in Modes /\ dialog.row \in RowsOf /\ dialog.id \in Ids \cup {NoId}
  /\ dialog.mode \in {"edit", "delete", "pin"} => dialog.id \in Ids /\ StillLive(dialog.id)
  /\ dialog.mode = "edit" => kind \in Edited \cup {"fiscal"}
  /\ dialog.mode = "pin" => kind = "employee"
  /\ dialog.mode \in FormModes \cup {"pin"} => FormOK(dialog.form, dialog.mode, aside # {})
  /\ dialog.mode \notin FormModes \cup {"pin"} => dialog.form = NoForm

\* What is written stores the form, over whatever row it meets.
Promise(op, form, d) ==
  /\ op = "create" => \A r \in RowsOf : AsEntered(form, Inserted(r, d), r)
  /\ op \in {"update", "pin"} => \A r \in Rows(kind) : AsEntered(form, Merged(r, d), r)

\* Request w was sent from the dialog that is noted with it.
SentFrom(w) ==
  LET e == entered[w]
      q == req[w]
  IN /\ q.op \in {"create", "update", "pin"}
     /\ e.mode = "pin" <=> q.op = "pin"
     /\ kind # "fiscal" => (e.mode = "edit" => q.op = "update")
     /\ e.mode \in {"edit", "pin"} => e.id \in Ids /\ StillLive(e.id)
     /\ q.op \in {"update", "pin"} => q.id = e.id
     /\ q.op = "update" => kind \in Edited
     /\ q.step = "read" => Submitted(e.mode, e.form, q.data)
     /\ q.step = "write" => Promise(q.op, e.form, q.data)

EntryOK(w) ==
  /\ DOMAIN entered[w] = {"by", "mode", "id", "form"}
  /\ entered[w].by \in {"nobody", "me", "lost"} /\ entered[w].mode \in Modes
  /\ entered[w].form \in FormsOf(entered[w].mode)
  /\ Idle(w) => entered[w] = NotEntered
  /\ entered[w].form # NoForm => SentFrom(w)

CountsOK ==
  /\ aside \subseteq {"g", "p1"} /\ settling \subseteq Operations
  /\ opens \in 0..MaxOpens /\ edits \in 0..MaxEdits /\ others \in 0..MaxOthers

RequestsOK == \A w \in Workers : RequestOK(w)
EntriesOK == DOMAIN entered = Workers /\ \A w \in Workers : EntryOK(w)

EntryInv == StoreOK /\ RequestsOK /\ ListOK /\ DialogOK /\ EntriesOK /\ CountsOK

-----------------------------------------------------------------------------
(* What stays so while the rows only grow *)

Grown ==
  /\ kind' = kind
  /\ \A i \in Ids : row[i] # NoRow => row'[i] # NoRow
  /\ kind = "fiscal" => \A i \in Ids : Live(i) => row'[i].life = "live"

\* Nothing is submitted differently as long as the kind is the same.
LEMMA SameSubmitted ==
  ASSUME kind \in Kinds, kind' = kind, NEW mode, NEW form, NEW d
  PROVE  Submitted(mode, form, d)' <=> Submitted(mode, form, d)
<1>1. CASE kind = "category"
  BY <1>1 DEF Submitted, Forms, Valid, Offered, Payload
<1>2. CASE kind = "product"
  BY <1>2 DEF Submitted, Forms, Valid, Offered, Payload
<1>3. CASE kind = "customer"
  BY <1>3 DEF Submitted, Forms, Valid, Offered, Payload
<1>4. CASE kind = "supplier"
  BY <1>4 DEF Submitted, Forms, Valid, Offered, Payload
<1>5. CASE kind = "employee"
  BY <1>5 DEF Submitted, Forms, Valid, Offered, Payload
<1>6. CASE kind = "item"
  BY <1>6 DEF Submitted, Forms, Valid, Offered, Payload
<1>7. CASE kind = "purchase"
  BY <1>7 DEF Submitted, Forms, Valid, Offered, Payload
<1>8. CASE kind = "fiscal"
  BY <1>8 DEF Submitted, Forms, Valid, Offered, Payload
<1>9. QED BY <1>1, <1>2, <1>3, <1>4, <1>5, <1>6, <1>7, <1>8 DEF Kinds

\* Nor are forms of another shape, or payloads.
LEMMA SameForms ==
  ASSUME kind \in Kinds, kind' = kind, NEW mode
  PROVE  /\ Forms(mode)' = Forms(mode) /\ FormsOf(mode)' = FormsOf(mode)
         /\ ApiPayloads' = ApiPayloads /\ RowsOf' = RowsOf
<1>1. Forms(mode)' = Forms(mode)
  <2>1. CASE kind = "category"
    BY <2>1 DEF Forms
  <2>2. CASE kind = "product"
    BY <2>2 DEF Forms
  <2>3. CASE kind = "customer"
    BY <2>3 DEF Forms
  <2>4. CASE kind = "supplier"
    BY <2>4 DEF Forms
  <2>5. CASE kind = "employee"
    BY <2>5 DEF Forms
  <2>6. CASE kind = "item"
    BY <2>6 DEF Forms
  <2>7. CASE kind = "purchase"
    BY <2>7 DEF Forms
  <2>8. CASE kind = "fiscal"
    BY <2>8 DEF Forms
  <2>9. QED BY <2>1, <2>2, <2>3, <2>4, <2>5, <2>6, <2>7, <2>8 DEF Kinds
<1>2. FormsOf(mode)' = FormsOf(mode)
  BY <1>1 DEF FormsOf
<1>3. ApiPayloads' = ApiPayloads
  <2>1. CASE kind = "employee"
    BY <2>1 DEF ApiPayloads
  <2>2. CASE kind = "supplier"
    BY <2>2 DEF ApiPayloads
  <2>3. CASE kind = "item"
    BY <2>3 DEF ApiPayloads
  <2>4. CASE kind \notin {"employee", "supplier", "item"}
    BY <2>4 DEF ApiPayloads
  <2>5. QED BY <2>1, <2>2, <2>3, <2>4
<1>4. RowsOf' = RowsOf
  BY DEF RowsOf
<1>5. QED BY <1>1, <1>2, <1>3, <1>4

\* A request that stays as it is.
LEMMA RequestKept ==
  ASSUME kind \in Kinds, Grown, NEW w, RequestOK(w), req'[w] = req[w]
  PROVE  RequestOK(w)'
<1>1. kind' = kind /\ ApiPayloads' = ApiPayloads
  BY SameForms DEF Grown
<1>2. \A form, d : /\ Submitted("create", form, d)' <=> Submitted("create", form, d)
                   /\ Submitted("edit", form, d)' <=> Submitted("edit", form, d)
  BY <1>1, SameSubmitted
<1>3. ASSUME NEW op, NEW i, NEW d, Asked(op, i, d)
      PROVE  Asked(op, i, d)'
  BY <1>1, <1>2, <1>3 DEF Asked
<1>4. ASSUME NEW op, NEW i, NEW d, Writes(op, i, d)
      PROVE  Writes(op, i, d)'
  BY <1>1, <1>4 DEF Writes, Grown, Fitting, RowsOf, Inserted
<1>5. QED BY <1>3, <1>4 DEF RequestOK

\* Who sent it and from where.
LEMMA PromiseKept ==
  ASSUME kind \in Kinds, kind' = kind, NEW op, NEW form, NEW d, Promise(op, form, d),
         kind = "product" => form \in ProductForms
  PROVE  Promise(op, form, d)'
<1>1. \A r, before : AsEntered(form, r, before) <=> AsEntered(form, r, before)'
  BY AsideIsAside
<1>2. RowsOf' = RowsOf /\ \A r : Inserted(r, d)' = Inserted(r, d)
  BY SameForms DEF Inserted
<1>3. QED BY <1>1, <1>2 DEF Promise

\* An entry of a request that stays as it is.
LEMMA EntryKept ==
  ASSUME kind \in Kinds, Grown, NEW w, EntryOK(w), req'[w] = req[w],
         DOMAIN entered'[w] = {"by", "mode", "id", "form"},
         entered'[w].by \in {"nobody", "me", "lost"}, Idle(w) => entered'[w] = entered[w],
         entered'[w].mode = entered[w].mode, entered'[w].id = entered[w].id,
         entered'[w].form = entered[w].form
  PROVE  EntryOK(w)'
<1>1. kind' = kind
  BY DEF Grown
<1>2. \A mode : FormsOf(mode)' = FormsOf(mode)
  BY <1>1, SameForms
<1>3. entered'[w].mode \in Modes /\ (entered[w].form \in FormsOf(entered[w].mode))'
  BY <1>2 DEF EntryOK
<1>4. Idle(w)' => entered'[w] = NotEntered
  BY DEF EntryOK, Idle
<1>5. ASSUME entered[w].form # NoForm
      PROVE  SentFrom(w)'
  <2>1. SentFrom(w)
    BY <1>5 DEF EntryOK
  <2>2. ASSUME kind = "product"
        PROVE  entered[w].form \in ProductForms
    BY <1>5, <2>2 DEF EntryOK, FormsOf, Forms
  <2>3. \A i \in Ids : StillLive(i) => StillLive(i)'
    BY <1>1 DEF Grown, StillLive, Live
  <2>4. ASSUME NEW mode, NEW form, NEW d, Submitted(mode, form, d)
        PROVE  Submitted(mode, form, d)'
    BY <2>4, <1>1, SameSubmitted
  <2>5. ASSUME NEW op, NEW form, NEW d, Promise(op, form, d), kind = "product" => form \in ProductForms
        PROVE  Promise(op, form, d)'
    BY <2>5, <1>1, PromiseKept
  <2>6. QED BY <1>1, <2>1, <2>2, <2>3, <2>4, <2>5 DEF SentFrom
<1>6. QED BY <1>3, <1>4, <1>5 DEF EntryOK

\* The list.
LEMMA ListKept ==
  ASSUME kind \in Kinds, Grown, ListOK, UNCHANGED <<list, fetch>>
  PROVE  ListOK'
<1>1. kind' = kind /\ RowsOf' = RowsOf
  BY SameForms DEF Grown
<1>2. \A i \in Ids : StillLive(i) => StillLive(i)'
  BY <1>1 DEF Grown, StillLive, Live
<1>3. QED BY <1>1, <1>2 DEF ListOK

\* The dialog.
LEMMA DialogKept ==
  ASSUME kind \in Kinds, Grown, DialogOK, UNCHANGED <<dialog, aside>>
  PROVE  DialogOK'
<1>1. kind' = kind /\ RowsOf' = RowsOf
  BY SameForms DEF Grown
<1>2. \A i \in Ids : StillLive(i) => StillLive(i)'
  BY <1>1 DEF Grown, StillLive, Live
<1>3. ASSUME NEW form, NEW mode, NEW loaded, FormOK(form, mode, loaded)
      PROVE  FormOK(form, mode, loaded)'
  <2>1. Forms(mode)' = Forms(mode)
    BY <1>1, SameForms
  <2>2. QED BY <2>1, <1>1, <1>3 DEF FormOK
<1>4. QED BY <1>1, <1>2, <1>3 DEF DialogOK

-----------------------------------------------------------------------------
(* Requests are sent *)

\* A form that may be submitted, and what is sent of it.
LEMMA FormSubmitted ==
  ASSUME kind \in Kinds, NEW mode, NEW form, NEW a \in SUBSET {"g", "p1"}, FormOK(form, mode, a # {}),
         NEW i, NEW shown, Valid(form, i, shown)
  PROVE  Submitted(mode, form, Payload(form, a))
<1>1. form \in Forms(mode)
  BY DEF FormOK
<1>2. Offered(form, a # {})
  BY DEF Offered, FormOK, RecipeOK, InPieces
<1>3. Valid(form, NoId, Nothing)
  <2>1. CASE kind = "product"
    <3>1. ~TakenName(form, NoId, Nothing) /\ ~TakenSku(form, NoId, Nothing)
      BY DEF TakenName, TakenSku, Nothing
    <3>2. QED BY <2>1, <3>1 DEF Valid, ProductValid
  <2>2. CASE kind = "category"
    BY <2>2 DEF Valid
  <2>3. CASE kind = "customer"
    BY <2>3 DEF Valid
  <2>4. CASE kind = "supplier"
    BY <2>4 DEF Valid
  <2>5. CASE kind = "employee"
    BY <2>5 DEF Valid
  <2>6. CASE kind = "item"
    BY <2>6 DEF Valid
  <2>7. CASE kind = "purchase"
    BY <2>7 DEF Valid
  <2>8. CASE kind = "fiscal"
    BY <2>8 DEF Valid
  <2>9. QED BY <2>1, <2>2, <2>3, <2>4, <2>5, <2>6, <2>7, <2>8 DEF Kinds
<1>4. QED BY <1>1, <1>2, <1>3 DEF Submitted

\* Only the dialog of a PIN has forms of its own.
LEMMA SubmittedAnyhow ==
  ASSUME NEW mode, NEW other, mode # "pin", other # "pin", NEW form, NEW d, Submitted(mode, form, d)
  PROVE  Submitted(other, form, d)
<1>1. Forms(other) = Forms(mode)
  BY DEF Forms
<1>2. QED BY <1>1 DEF Submitted

\* The rows stay as they are.
LEMMA StaysGrown ==
  ASSUME UNCHANGED <<kind, row>>
  PROVE  Grown
  BY DEF Grown, Live

\* They are still in order, then.
LEMMA StoreKept ==
  ASSUME StoreOK, UNCHANGED <<kind, row, gone>>, doubtful' \subseteq Ids \cup {NoId}
  PROVE  StoreOK'
<1>1. RowsOf' = RowsOf
  BY SameForms DEF StoreOK
<1>2. QED BY <1>1 DEF StoreOK, OneProfile, Live

\* A request arrives.
LEMMA RequestArrives ==
  ASSUME StoreOK, RequestsOK, RequestsShape, NEW w \in Workers, NEW op \in Operations,
         NEW i \in Ids \cup {NoId}, NEW d, Asked(op, i, d), Arrive(w, op, i, d)
  PROVE  /\ StoreOK' /\ RequestsOK' /\ Grown
         /\ req'[w].step = "read" /\ req'[w].op = op /\ req'[w].id = i /\ req'[w].data = d
         /\ \A v \in Workers \ {w} : req'[v] = req[v]
<1> DEFINE q == [step |-> "read", op |-> op, id |-> i, data |-> d]
<1>1. /\ req' = [req EXCEPT ![w] = q] /\ UNCHANGED <<kind, row, gone>>
      /\ doubtful' = doubtful \cup Doubts(w, op, i)
  BY DEF Arrive
<1>2. q.step = "read" /\ q.op = op /\ q.id = i /\ q.data = d
  OBVIOUS
<1> HIDE DEF q
<1>3. req'[w] = q /\ \A v \in Workers \ {w} : req'[v] = req[v]
  BY <1>1 DEF RequestsShape
<1>4. Grown
  BY <1>1, StaysGrown
<1>5. Doubts(w, op, i) \subseteq Ids \cup {NoId}
  BY DEF Doubts, RequestsOK, RequestOK
<1>6. StoreOK'
  BY <1>1, <1>5, StoreKept DEF StoreOK
<1>7. ASSUME NEW v \in Workers
      PROVE  RequestOK(v)'
  <2>1. CASE v # w
    BY <2>1, <1>3, <1>4, RequestKept DEF RequestsOK, StoreOK
  <2>2. CASE v = w
    <3>1. kind \in Kinds /\ kind' = kind /\ ApiPayloads' = ApiPayloads
      BY <1>1, SameForms DEF StoreOK
    <3>2. \A form, e : /\ Submitted("create", form, e)' <=> Submitted("create", form, e)
                       /\ Submitted("edit", form, e)' <=> Submitted("edit", form, e)
      BY <3>1, SameSubmitted
    <3>3. Asked(op, i, d)'
      BY <3>1, <3>2 DEF Asked
    <3>4. QED BY <2>2, <3>3, <1>2, <1>3 DEF RequestOK
  <2>3. QED BY <2>1, <2>2
<1>8. QED BY <1>2, <1>3, <1>4, <1>6, <1>7 DEF RequestsOK

\* One that comes from the screen is noted with the dialog it came from.
LEMMA EntryArrives ==
  ASSUME StoreOK, RequestsOK, RequestsShape, EntriesOK, DialogOK, NEW w \in Workers,
         NEW op \in Operations, NEW i \in Ids \cup {NoId}, NEW d, Asked(op, i, d), Sends(w, op, i, d),
         dialog.form # NoForm =>
           /\ op \in {"create", "update", "pin"} /\ (dialog.mode = "pin" <=> op = "pin")
           /\ kind # "fiscal" => (dialog.mode = "edit" => op = "update")
           /\ op = "update" => kind \in Edited
           /\ op \in {"update", "pin"} => i = dialog.id
           /\ Submitted(dialog.mode, dialog.form, d)
  PROVE  StoreOK' /\ RequestsOK' /\ EntriesOK' /\ Grown
<1> DEFINE e == [by |-> "me", mode |-> dialog.mode, id |-> dialog.id, form |-> dialog.form]
<1>1. Arrive(w, op, i, d) /\ entered' = [entered EXCEPT ![w] = e]
  BY DEF Sends
<1>2. /\ e.by = "me" /\ e.mode = dialog.mode /\ e.id = dialog.id /\ e.form = dialog.form
      /\ DOMAIN e = {"by", "mode", "id", "form"}
  OBVIOUS
<1> HIDE DEF e
<1>3. /\ StoreOK' /\ RequestsOK' /\ Grown /\ kind' = kind
      /\ req'[w].step = "read" /\ req'[w].op = op /\ req'[w].id = i /\ req'[w].data = d
      /\ \A v \in Workers \ {w} : req'[v] = req[v]
  BY <1>1, RequestArrives DEF Grown
<1>4. DOMAIN entered' = Workers /\ entered'[w] = e /\ \A v \in Workers \ {w} : entered'[v] = entered[v]
  BY <1>1 DEF EntriesOK
<1>5. ASSUME NEW v \in Workers \ {w}
      PROVE  EntryOK(v)'
  <2>1. EntryOK(v) /\ kind \in Kinds
    BY DEF EntriesOK, StoreOK
  <2>2. QED BY <2>1, <1>3, <1>4, EntryKept DEF EntryOK
<1>6. EntryOK(w)'
  <2>1. dialog.mode \in Modes /\ dialog.form \in FormsOf(dialog.mode)
    BY DEF DialogOK, FormsOf, FormOK
  <2>2. (entered[w].form \in FormsOf(entered[w].mode))'
    <3>1. \A mode : FormsOf(mode)' = FormsOf(mode)
      BY <1>3, SameForms DEF StoreOK
    <3>2. QED BY <3>1, <2>1, <1>2, <1>4
  <2>3. ASSUME dialog.form # NoForm
        PROVE  SentFrom(w)'
    <3>1. dialog.mode \in {"edit", "pin"} => dialog.id \in Ids /\ StillLive(dialog.id)
      BY DEF DialogOK
    <3>2. \A j \in Ids : StillLive(j) => StillLive(j)'
      BY <1>3 DEF Grown, StillLive, Live
    <3>3. \A mode, form : Submitted(mode, form, d) => Submitted(mode, form, d)'
      BY <1>3, SameSubmitted DEF StoreOK
    <3>4. QED BY <2>3, <3>1, <3>2, <3>3, <1>2, <1>3, <1>4 DEF SentFrom
  <2>4. QED BY <2>1, <2>2, <2>3, <1>2, <1>3, <1>4 DEF EntryOK, Idle
<1>7. QED BY <1>3, <1>4, <1>5, <1>6 DEF EntriesOK

\* One that does not is noted with nobody.
LEMMA OtherArrives ==
  ASSUME StoreOK, RequestsOK, RequestsShape, EntriesOK, NEW w \in Workers, NEW op \in Operations,
         NEW i \in Ids \cup {NoId}, NEW d, Asked(op, i, d), Arrive(w, op, i, d), entered' = entered
  PROVE  StoreOK' /\ RequestsOK' /\ EntriesOK' /\ Grown
<1>1. /\ StoreOK' /\ RequestsOK' /\ Grown /\ kind' = kind /\ req'[w].step = "read"
      /\ \A v \in Workers \ {w} : req'[v] = req[v]
  BY RequestArrives DEF Grown
<1>2. ASSUME NEW v \in Workers \ {w}
      PROVE  EntryOK(v)'
  <2>1. EntryOK(v) /\ kind \in Kinds
    BY DEF EntriesOK, StoreOK
  <2>2. QED BY <2>1, <1>1, EntryKept DEF EntryOK
<1>3. EntryOK(w)'
  <2>1. entered[w] = NotEntered
    BY DEF Arrive, EntriesOK, EntryOK
  <2>2. /\ NotEntered.by = "nobody" /\ NotEntered.mode = "closed" /\ NotEntered.form = NoForm
        /\ DOMAIN NotEntered = {"by", "mode", "id", "form"}
    BY DEF NotEntered
  <2>3. FormsOf("closed") = {NoForm} /\ (FormsOf("closed"))' = {NoForm}
    BY DEF FormsOf, FormModes
  <2>4. QED BY <2>1, <2>2, <2>3, <1>1 DEF EntryOK, Idle, Modes
<1>4. QED BY <1>1, <1>2, <1>3 DEF EntriesOK

-----------------------------------------------------------------------------
(* Requests are served *)

\* A request goes on; what it will write stores what was entered.
LEMMA ServedOn ==
  ASSUME kind \in Kinds, RequestsOK, RequestsShape, EntriesOK, Grown, entered' = entered,
         NEW w \in Workers, ~Idle(w), NEW q, req' = [req EXCEPT ![w] = q],
         q.step \in {"write", "done", "refused"}, q.op = req[w].op, q.id \in Ids \cup {NoId},
         q.op \in {"update", "pin"} => q.id = req[w].id,
         q.step = "write" => /\ Writes(q.op, q.id, q.data)
                             /\ entered[w].form # NoForm => Promise(q.op, entered[w].form, q.data)
  PROVE  RequestsOK' /\ EntriesOK'
<1>1. req'[w] = q /\ \A v \in Workers \ {w} : req'[v] = req[v]
  BY DEF RequestsShape
<1>2. kind' = kind
  BY DEF Grown
<1>3. ASSUME NEW v \in Workers \ {w}
      PROVE  RequestOK(v)' /\ EntryOK(v)'
  <2>1. RequestOK(v) /\ EntryOK(v)
    BY DEF RequestsOK, EntriesOK
  <2>2. RequestOK(v)'
    BY <2>1, <1>1, RequestKept
  <2>3. EntryOK(v)'
    BY <2>1, <1>1, EntryKept DEF EntryOK
  <2>4. QED BY <2>2, <2>3
<1>4. RequestOK(w)'
  <2>1. req[w].op \in Operations
    BY DEF RequestsOK, RequestOK, Idle
  <2>2. Writes(q.op, q.id, q.data) => Writes(q.op, q.id, q.data)'
    BY <1>2 DEF Writes, Grown, Fitting, RowsOf, Inserted
  <2>3. QED BY <2>1, <2>2, <1>1 DEF RequestOK
<1>5. EntryOK(w)'
  <2>1. EntryOK(w)
    BY DEF EntriesOK
  <2>2. (entered[w].form \in FormsOf(entered[w].mode))'
    <3>1. \A mode : FormsOf(mode)' = FormsOf(mode)
      BY <1>2, SameForms
    <3>2. QED BY <3>1, <2>1 DEF EntryOK
  <2>3. ASSUME entered[w].form # NoForm
        PROVE  SentFrom(w)'
    <3>1. SentFrom(w)
      BY <2>1, <2>3 DEF EntryOK
    <3>2. ASSUME kind = "product"
          PROVE  entered[w].form \in ProductForms
      BY <2>1, <2>3, <3>2 DEF EntryOK, FormsOf, Forms
    <3>3. \A i \in Ids : StillLive(i) => StillLive(i)'
      BY <1>2 DEF Grown, StillLive, Live
    <3>4. ASSUME q.step = "write"
          PROVE  Promise(q.op, entered[w].form, q.data)'
      BY <3>2, <3>4, <2>3, <1>2, PromiseKept
    <3>5. QED BY <3>1, <3>3, <3>4, <1>1, <1>2 DEF SentFrom
  <2>4. QED BY <2>1, <2>2, <2>3, <1>1 DEF EntryOK, Idle
<1>6. QED BY <1>3, <1>4, <1>5 DEF RequestsOK, EntriesOK

\* A request is refused.
LEMMA EntryRefused ==
  ASSUME StoreOK, RequestsOK, RequestsShape, EntriesOK, entered' = entered,
         NEW w \in Workers, ~Idle(w), Refuse(w)
  PROVE  StoreOK' /\ RequestsOK' /\ EntriesOK' /\ Grown
<1> DEFINE q == [req[w] EXCEPT !.step = "refused"]
<1>1. req' = [req EXCEPT ![w] = q] /\ UNCHANGED <<kind, row, gone, doubtful>>
  BY DEF Refuse
<1>2. q.step = "refused" /\ q.op = req[w].op /\ q.id = req[w].id
  BY DEF RequestsShape
<1>3. q.id \in Ids \cup {NoId}
  BY <1>2 DEF RequestsOK, RequestOK
<1> HIDE DEF q
<1>4. Grown /\ StoreOK' /\ kind \in Kinds
  BY <1>1, StaysGrown, StoreKept DEF StoreOK
<1>5. RequestsOK' /\ EntriesOK'
  BY <1>1, <1>2, <1>3, <1>4, ServedOn
<1>6. QED BY <1>4, <1>5

\* A request is decided.
LEMMA EntryDecided ==
  ASSUME StoreOK, RequestsOK, RequestsShape, EntriesOK, entered' = entered,
         NEW w \in Workers, ~Idle(w), NEW reply, Decide(w, reply),
         Writes(req[w].op, req[w].id, reply.data),
         entered[w].form # NoForm => Promise(req[w].op, entered[w].form, reply.data)
  PROVE  StoreOK' /\ RequestsOK' /\ EntriesOK' /\ Grown
<1> DEFINE q == [req[w] EXCEPT !.step = IF reply.ok THEN "write" ELSE "refused", !.data = reply.data]
<1>1. req' = [req EXCEPT ![w] = q] /\ UNCHANGED <<kind, row, gone, doubtful>>
  BY DEF Decide
<1>2. /\ q.step \in {"write", "refused"} /\ q.op = req[w].op /\ q.id = req[w].id
      /\ q.data = reply.data
  BY DEF RequestsShape
<1>3. q.id \in Ids \cup {NoId}
  BY <1>2 DEF RequestsOK, RequestOK
<1> HIDE DEF q
<1>4. Grown /\ StoreOK' /\ kind \in Kinds
  BY <1>1, StaysGrown, StoreKept DEF StoreOK
<1>5. RequestsOK' /\ EntriesOK'
  BY <1>1, <1>2, <1>3, <1>4, ServedOn
<1>6. QED BY <1>4, <1>5

\* The request of a record to be created is read: what it leads to is as it was entered.
LEMMA EntryReadCreate ==
  ASSUME StoreOK, RequestsOK, RequestsShape, EntriesOK, entered' = entered,
         NEW w \in Workers, ReadCreate(w)
  PROVE  StoreOK' /\ RequestsOK' /\ EntriesOK' /\ Grown
<1> DEFINE d == req[w].data
<1>1. /\ req[w].step = "read" /\ req[w].op = "create" /\ Decide(w, Created(d)) /\ ~Idle(w)
      /\ kind \in Kinds /\ Asked("create", req[w].id, d)
  BY DEF ReadCreate, Idle, RequestsOK, RequestOK, StoreOK
<1>2. Writes("create", req[w].id, Created(d).data)
  <2>1. CASE \E form : Submitted("create", form, d)
    <3>1. PICK form : Submitted("create", form, d)
      BY <2>1
    <3>2. Created(d).data \in Rows(kind) /\ Created(d).data.life = "live"
      BY <3>1, <1>1, CreatedAsEntered
    <3>3. QED BY <3>2, InsertedWhole DEF Writes, RowsOf
  <2>2. CASE \E form : kind = "fiscal" /\ d = WithoutProvider(form) /\ Submitted("create", form, form)
    <3>1. PICK form : kind = "fiscal" /\ d = WithoutProvider(form) /\ Submitted("create", form, form)
      BY <2>2
    <3>2. form \in FiscalForms /\ form.legalName \in Names
      BY <3>1 DEF Submitted, Forms, Valid, FiscalValid, FiscalForms
    <3>3. Created(d) = UpsertProfile(d) /\ Rows(kind) = FiscalRows
      BY <3>1 DEF Created, Rows
    <3>4. QED BY <3>1, <3>2, <3>3, ProfileWithout DEF Writes, RowsOf
  <2>3. QED BY <2>1, <2>2, <1>1 DEF Asked
<1>3. ASSUME entered[w].form # NoForm
      PROVE  Promise("create", entered[w].form, Created(d).data)
  <2>1. entered[w].mode # "pin" /\ Submitted(entered[w].mode, entered[w].form, d)
    BY <1>1, <1>3 DEF EntriesOK, EntryOK, SentFrom
  <2>2. /\ Created(d).data \in Rows(kind)
        /\ \A before : AsEntered(entered[w].form, Created(d).data, before)
    BY <2>1, <1>1, CreatedAsEntered
  <2>3. QED BY <2>2, InsertedWhole DEF Promise, RowsOf
<1>4. QED BY <1>1, <1>2, <1>3, EntryDecided

\* Any other request is read.
LEMMA EntryReadRecord ==
  ASSUME StoreOK, RequestsOK, RequestsShape, EntriesOK, entered' = entered,
         NEW w \in Workers, ReadRecord(w)
  PROVE  StoreOK' /\ RequestsOK' /\ EntriesOK' /\ Grown
<1> DEFINE i == req[w].id
           d == req[w].data
           op == req[w].op
<1>1. /\ req[w].step = "read" /\ op # "create" /\ ~Idle(w) /\ Asked(op, i, d) /\ i \in Ids
      /\ kind \in Kinds
  BY DEF ReadRecord, Idle, RequestsOK, RequestOK, Asked, StoreOK
<1>2. Live(i) => row[i] # NoRow
  BY DEF Live, NoRow
<1>3. entered[w].form # NoForm =>
        /\ SentFrom(w) /\ Submitted(entered[w].mode, entered[w].form, d)
  BY <1>1 DEF EntriesOK, EntryOK, SentFrom
<1>4. CASE ~Live(i)
  BY <1>1, <1>4, EntryRefused DEF ReadRecord
<1>5. CASE Live(i) /\ op = "update" /\ Decide(w, Updated(i, d))
  <2>1. Fitting(Updated(i, d).data)
    <3>1. ASSUME kind \in Edited, NEW form, Submitted("edit", form, d)
          PROVE  Fitting(Updated(i, d).data)
      BY <3>1, UpdatedAsEntered DEF Fitting
    <3>2. CASE d \in ApiPayloads
      BY <1>1, <3>2, ApiFits
    <3>3. QED BY <3>1, <3>2, <1>1, <1>5 DEF Asked
  <2>2. ASSUME entered[w].form # NoForm
        PROVE  Promise("update", entered[w].form, Updated(i, d).data)
    <3>1. kind \in Edited /\ Submitted(entered[w].mode, entered[w].form, d)
      BY <2>2, <1>3, <1>5 DEF SentFrom
    <3>2. \A r \in Rows(kind) : AsEntered(entered[w].form, Merged(r, Updated(i, d).data), r)
      BY <3>1, UpdatedAsEntered
    <3>3. QED BY <3>2 DEF Promise
  <2>3. Writes("update", i, Updated(i, d).data)
    BY <2>1, <1>1, <1>2, <1>5 DEF Writes
  <2>4. QED BY <2>2, <2>3, <1>1, <1>5, EntryDecided
<1>6. CASE Live(i) /\ op = "access" /\ Decide(w, Reply(TRUE, d))
  <2>1. Fitting(d) /\ Reply(TRUE, d).data = d
    BY <1>1, <1>6, AccessFits DEF Asked, Reply
  <2>2. entered[w].form = NoForm
    BY <1>3, <1>6 DEF SentFrom
  <2>3. Writes("access", i, d)
    BY <2>1, <1>1, <1>2, <1>6 DEF Writes
  <2>4. QED BY <2>1, <2>2, <2>3, <1>1, <1>6, EntryDecided
<1>7. CASE Live(i) /\ op = "pin" /\ Decide(w, SetPin(i, d))
  <2>1. kind = "employee" /\ Fitting(d) /\ SetPin(i, d).data = d
    BY <1>1, <1>7, PinFits DEF Asked, SetPin, Reply
  <2>2. ASSUME entered[w].form # NoForm
        PROVE  Promise("pin", entered[w].form, d)
    <3>1. Submitted("pin", entered[w].form, d) /\ Rows(kind) = EmployeeRows
      BY <2>1, <2>2, <1>3, <1>7 DEF SentFrom, Rows
    <3>2. \A r \in Rows(kind) : AsEntered(entered[w].form, Merged(r, d), r)
      BY <2>1, <3>1, PinStored
    <3>3. QED BY <3>2 DEF Promise
  <2>3. Writes("pin", i, d)
    BY <2>1, <1>1, <1>2, <1>7 DEF Writes
  <2>4. QED BY <2>1, <2>2, <2>3, <1>1, <1>7, EntryDecided
<1>8. CASE Live(i) /\ op = "test" /\ Decide(w, TestConnection(i))
  <2>1. Fitting(TestConnection(i).data)
    BY <1>1, <1>8, TestFits DEF Asked
  <2>2. entered[w].form = NoForm
    BY <1>3, <1>8 DEF SentFrom
  <2>3. Writes("test", i, TestConnection(i).data)
    BY <2>1, <1>1, <1>2, <1>8 DEF Writes
  <2>4. QED BY <2>2, <2>3, <1>1, <1>8, EntryDecided
<1>9. CASE Live(i) /\ op = "remove" /\ Decide(w, Reply(TRUE, d))
  <2>1. entered[w].form = NoForm
    BY <1>3, <1>9 DEF SentFrom
  <2>2. Writes("remove", i, Reply(TRUE, d).data)
    BY <1>1, <1>2, <1>9 DEF Writes
  <2>3. QED BY <2>1, <2>2, <1>1, <1>9, EntryDecided
<1>10. QED BY <1>4, <1>5, <1>6, <1>7, <1>8, <1>9 DEF ReadRecord

-----------------------------------------------------------------------------
(* Rows are written *)

\* A row of a kind is a row.
LEMMA RowIsRow ==
  ASSUME kind \in Kinds, NEW r \in Rows(kind)
  PROVE  r # NoRow /\ r.life \in Life
<1>1. r.life \in Life
  <2>1. CASE kind = "category"
    BY <2>1 DEF Rows, CategoryRows
  <2>2. CASE kind = "product"
    BY <2>2 DEF Rows, ProductRows
  <2>3. CASE kind = "customer"
    BY <2>3 DEF Rows, CustomerRows
  <2>4. CASE kind = "supplier"
    BY <2>4 DEF Rows, SupplierRows
  <2>5. CASE kind = "employee"
    BY <2>5 DEF Rows, EmployeeRows
  <2>6. CASE kind = "item"
    BY <2>6 DEF Rows, ItemRows
  <2>7. CASE kind = "purchase"
    BY <2>7 DEF Rows, PurchaseRows
  <2>8. CASE kind = "fiscal"
    BY <2>8 DEF Rows, FiscalRows
  <2>9. QED BY <2>1, <2>2, <2>3, <2>4, <2>5, <2>6, <2>7, <2>8 DEF Kinds
<1>2. NoRow.life = "none"
  BY DEF NoRow
<1>3. QED BY <1>1, <1>2 DEF Life

\* One row is written, by a request that is then done.
LEMMA RowWritten ==
  ASSUME StoreOK, RequestsOK, RequestsShape, EntriesOK, entered' = entered,
         NEW w \in Workers, req[w].step = "write", NEW i \in Ids, NEW r \in Rows(kind),
         UNCHANGED <<kind, gone>>, row' = [row EXCEPT ![i] = r],
         doubtful' \subseteq Ids \cup {NoId}, NEW q, req' = [req EXCEPT ![w] = q],
         q.step = "done", q.op = req[w].op, q.id = i, q.op \in {"update", "pin"} => i = req[w].id,
         kind = "fiscal" => /\ Live(i) => r.life = "live"
                            /\ r.life = "live" => \A j \in Ids : Live(j) => j = i,
         entered[w].form # NoForm =>
           /\ entered[w].mode \in {"edit", "pin"} => i = entered[w].id
           /\ AsEntered(entered[w].form, r, row[i])
  PROVE  /\ StoreOK' /\ RequestsOK' /\ EntriesOK' /\ Grown
         /\ \A v \in Workers : SavesAsEntered(v)
<1>1. /\ row \in [Ids -> RowsOf] /\ kind \in Kinds /\ r # NoRow /\ RowsOf' = RowsOf
      /\ r \in RowsOf
  BY RowIsRow, SameForms DEF StoreOK, RowsOf
<1>2. row' \in [Ids -> RowsOf] /\ row'[i] = r /\ \A j \in Ids \ {i} : row'[j] = row[j]
  BY <1>1
<1>3. Grown
  BY <1>1, <1>2 DEF Grown, Live
<1>4. StoreOK'
  <2>1. ASSUME kind = "fiscal", NEW j \in Ids, NEW k \in Ids, row'[j].life = "live", row'[k].life = "live"
        PROVE  j = k
    BY <2>1, <1>2 DEF StoreOK, OneProfile, Live
  <2>2. QED BY <2>1, <1>1, <1>2 DEF StoreOK, OneProfile, Live
<1>5. RequestsOK' /\ EntriesOK'
  BY <1>1, <1>3, ServedOn DEF Idle
<1>6. req'[w] = q /\ \A v \in Workers \ {w} : req'[v] = req[v]
  BY DEF RequestsShape
<1>7. ASSUME NEW v \in Workers
      PROVE  SavesAsEntered(v)
  <2>1. CASE v = w
    BY <2>1, <1>2, <1>6 DEF SavesAsEntered
  <2>2. CASE v # w
    BY <2>2, <1>6 DEF SavesAsEntered
  <2>3. QED BY <2>1, <2>2
<1>8. QED BY <1>3, <1>4, <1>5, <1>7

\* A request that is not done with this step stores nothing.
LEMMA NothingStored ==
  ASSUME \A v \in Workers : req[v].step = "write" => req'[v].step # "done"
  PROVE  \A v \in Workers : SavesAsEntered(v)
  BY DEF SavesAsEntered

\* Nor does one that is refused.
LEMMA RefusedStoresNothing ==
  ASSUME RequestsShape, NEW w \in Workers, Refuse(w)
  PROVE  \A v \in Workers : SavesAsEntered(v)
<1>1. ASSUME NEW v \in Workers, req[v].step = "write"
      PROVE  req'[v].step # "done"
  BY <1>1 DEF Refuse, RequestsShape
<1>2. QED BY <1>1, NothingStored

\* A record is inserted; the profile, where there is one, is written over.
LEMMA EntryInserted ==
  ASSUME StoreOK, RequestsOK, RequestsShape, EntriesOK, entered' = entered,
         NEW w \in Workers, Insert(w)
  PROVE  /\ StoreOK' /\ RequestsOK' /\ EntriesOK' /\ Grown
         /\ \A v \in Workers : SavesAsEntered(v)
<1> DEFINE d == req[w].data
<1>1. /\ req[w].step = "write" /\ req[w].op = "create" /\ ~Idle(w)
      /\ Writes("create", req[w].id, d) /\ kind \in Kinds
  BY DEF Insert, Idle, RequestsOK, RequestOK, StoreOK
<1>2. CASE Refuse(w)
  BY <1>1, <1>2, EntryRefused, RefusedStoresNothing
<1>3. ASSUME NEW i \in InsertedAt,
             row' = [row EXCEPT ![i] = Inserted(@, d)],
             req' = [req EXCEPT ![w].step = "done", ![w].id = i],
             UNCHANGED <<kind, gone, doubtful>>
      PROVE  /\ StoreOK' /\ RequestsOK' /\ EntriesOK' /\ Grown
             /\ \A v \in Workers : SavesAsEntered(v)
  <2> DEFINE q == [req[w] EXCEPT !.step = "done", !.id = i]
             r == Inserted(row[i], d)
  <2>1. /\ req' = [req EXCEPT ![w] = q] /\ q.step = "done" /\ q.op = req[w].op /\ q.id = i
    BY <1>3 DEF RequestsShape
  <2> HIDE DEF q
  <2>2. i \in Ids /\ (kind = "fiscal" => \A j \in Ids : Live(j) => j = i)
    BY DEF InsertedAt, Profiles, FreshIds, StoreOK, OneProfile
  <2>r. row[i] \in RowsOf /\ r \in Rows(kind) /\ r.life = "live"
    BY <1>1, <2>2 DEF StoreOK, Writes
  <2>3. ASSUME entered[w].form # NoForm
        PROVE  /\ entered[w].mode \in {"edit", "pin"} => i = entered[w].id
               /\ AsEntered(entered[w].form, r, row[i])
    <3>1. SentFrom(w) /\ Promise("create", entered[w].form, d)
      BY <1>1, <2>3 DEF EntriesOK, EntryOK, SentFrom
    <3>2. AsEntered(entered[w].form, r, row[i])
      BY <3>1, <2>r DEF Promise
    <3>3. ASSUME entered[w].mode \in {"edit", "pin"}
          PROVE  i = entered[w].id
      <4>1. kind = "fiscal" /\ entered[w].id \in Ids /\ Live(entered[w].id)
        BY <3>1, <3>3, <1>1 DEF SentFrom, StillLive
      <4>2. QED BY <4>1, <2>2
    <3>4. QED BY <3>2, <3>3
  <2>4. doubtful' \subseteq Ids \cup {NoId} /\ UNCHANGED <<kind, gone>> /\ row' = [row EXCEPT ![i] = r]
    BY <1>3, <2>2 DEF StoreOK
  <2>5. q.op \notin {"update", "pin"}
    BY <2>1, <1>1
  <2> HIDE DEF r
  <2>6. QED BY <1>1, <2>1, <2>2, <2>r, <2>3, <2>4, <2>5, RowWritten
<1>4. QED BY <1>2, <1>3 DEF Insert

\* A row is updated.
LEMMA EntryUpdated ==
  ASSUME StoreOK, RequestsOK, RequestsShape, EntriesOK, entered' = entered,
         NEW w \in Workers, UpdateRow(w)
  PROVE  /\ StoreOK' /\ RequestsOK' /\ EntriesOK' /\ Grown
         /\ \A v \in Workers : SavesAsEntered(v)
<1> DEFINE i == req[w].id
           d == req[w].data
           r == Merged(row[i], d)
           q == [req[w] EXCEPT !.step = "done"]
<1>1. /\ req[w].step = "write" /\ req[w].op \in {"update", "access", "pin", "test"} /\ ~Idle(w)
      /\ i \in Ids /\ row[i] # NoRow /\ Fitting(d) /\ kind \in Kinds
  BY DEF UpdateRow, Idle, RequestsOK, RequestOK, Writes, StoreOK
<1>2. CASE Refuse(w)
  BY <1>1, <1>2, EntryRefused, RefusedStoresNothing
<1>3. ASSUME row' = [row EXCEPT ![i] = r],
             req' = [req EXCEPT ![w].step = "done"],
             doubtful' = IF ComesBack(i, r) THEN doubtful \cup {i} ELSE doubtful,
             UNCHANGED <<kind, gone>>
      PROVE  /\ StoreOK' /\ RequestsOK' /\ EntriesOK' /\ Grown
             /\ \A v \in Workers : SavesAsEntered(v)
  <2>1. /\ req' = [req EXCEPT ![w] = q] /\ q.step = "done" /\ q.op = req[w].op /\ q.id = i
    BY <1>3 DEF RequestsShape
  <2>2. row[i] \in Rows(kind) /\ r \in Rows(kind)
    BY <1>1 DEF StoreOK, RowsOf, Fitting
  <2>3. ASSUME kind = "fiscal"
        PROVE  r.life = row[i].life
    <3>1. DOMAIN d = {"status", "ready"}
      BY <2>3, <1>1 DEF RequestsShape, WellWritten, ProfileWrite
    <3>2. "life" \in DOMAIN row[i]
      BY <2>2, <2>3 DEF Rows, FiscalRows
    <3>3. QED BY <3>1, <3>2 DEF Merged, Given
  <2>4. kind = "fiscal" => /\ Live(i) => r.life = "live"
                           /\ r.life = "live" => \A j \in Ids : Live(j) => j = i
    BY <2>3, <1>1 DEF StoreOK, OneProfile, Live
  <2>5. ASSUME entered[w].form # NoForm
        PROVE  /\ entered[w].mode \in {"edit", "pin"} => i = entered[w].id
               /\ AsEntered(entered[w].form, r, row[i])
    <3>1. SentFrom(w)
      BY <2>5 DEF EntriesOK, EntryOK
    <3>2. req[w].op \in {"update", "pin"} /\ i = entered[w].id
      BY <3>1, <1>1 DEF SentFrom
    <3>3. Promise(req[w].op, entered[w].form, d)
      BY <3>1, <1>1 DEF SentFrom
    <3>4. AsEntered(entered[w].form, r, row[i])
      BY <3>2, <3>3, <2>2 DEF Promise
    <3>5. QED BY <3>2, <3>4
  <2>6. doubtful' \subseteq Ids \cup {NoId} /\ UNCHANGED <<kind, gone>> /\ row' = [row EXCEPT ![i] = r]
    BY <1>3, <1>1 DEF StoreOK
  <2>7. req[w].step = "write" /\ i \in Ids /\ i = req[w].id
    BY <1>1
  <2> HIDE DEF r, q, i, d
  <2>8. QED BY <2>1, <2>2, <2>4, <2>5, <2>6, <2>7, RowWritten
<1>4. QED BY <1>2, <1>3 DEF UpdateRow

\* A row is removed: no form is behind it, and no profile.
LEMMA EntryRemoved ==
  ASSUME StoreOK, RequestsOK, RequestsShape, EntriesOK, entered' = entered,
         NEW w \in Workers, RemoveRow(w)
  PROVE  /\ StoreOK' /\ RequestsOK' /\ EntriesOK' /\ Grown
         /\ \A v \in Workers : SavesAsEntered(v)
<1> DEFINE i == req[w].id
           r == Merged([row[i] EXCEPT !.life = "removed"],
                       IF kind = "employee" THEN [active |-> FALSE] ELSE [life |-> "removed"])
           q == [req[w] EXCEPT !.step = "done"]
<1>1. /\ req[w].step = "write" /\ req[w].op = "remove" /\ i \in Ids /\ row[i] # NoRow
      /\ kind \in Kinds
  BY DEF RemoveRow, RequestsOK, RequestOK, Writes, StoreOK
<1>2. /\ row' = [row EXCEPT ![i] = r] /\ req' = [req EXCEPT ![w] = q]
      /\ UNCHANGED <<kind, gone, doubtful>>
  BY DEF RemoveRow
<1>3. q.step = "done" /\ q.op = req[w].op /\ q.id = i
  BY DEF RequestsShape
<1>4. r \in Rows(kind)
  <2>1. row[i] \in Rows(kind)
    BY <1>1 DEF StoreOK, RowsOf
  <2>2. QED BY <2>1, <1>1, RemovedFits
<1>5. kind # "fiscal"
  BY <1>1 DEF RequestsShape, WellWritten, ProfileWrite
<1>6. entered[w].form = NoForm
  BY <1>1 DEF EntriesOK, EntryOK, SentFrom
<1>7. doubtful' \subseteq Ids \cup {NoId}
  BY <1>2 DEF StoreOK
<1> HIDE DEF r, q, i
<1>8. QED BY <1>1, <1>2, <1>3, <1>4, <1>5, <1>6, <1>7, RowWritten

\* Whatever a request does on the server.
LEMMA EntryServed ==
  ASSUME StoreOK, RequestsOK, RequestsShape, EntriesOK, entered' = entered,
         NEW w \in Workers, Serve(w)
  PROVE  /\ StoreOK' /\ RequestsOK' /\ EntriesOK' /\ Grown
         /\ \A v \in Workers : SavesAsEntered(v)
<1>1. CASE ReadCreate(w)
  <2>1. \A v \in Workers : req[v].step = "write" => req'[v].step # "done"
    BY <1>1 DEF ReadCreate, Decide, RequestsShape
  <2>2. QED BY <2>1, <1>1, EntryReadCreate, NothingStored
<1>2. CASE ReadRecord(w)
  <2>1. \A v \in Workers : req[v].step = "write" => req'[v].step # "done"
    <3>1. ASSUME NEW reply, Decide(w, reply)
          PROVE  \A v \in Workers : req[v].step = "write" => req'[v].step # "done"
      BY <3>1 DEF Decide, RequestsShape
    <3>2. ASSUME Refuse(w)
          PROVE  \A v \in Workers : req[v].step = "write" => req'[v].step # "done"
      BY <3>2 DEF Refuse, RequestsShape
    <3>3. QED BY <3>1, <3>2, <1>2 DEF ReadRecord
  <2>2. QED BY <2>1, <1>2, EntryReadRecord, NothingStored
<1>3. QED BY <1>1, <1>2, EntryInserted, EntryUpdated, EntryRemoved DEF Serve

\* An answer is taken note of, and the entry with it.
LEMMA EntryDismissed ==
  ASSUME StoreOK, RequestsOK, RequestsShape, EntriesOK, NEW w \in Workers, Dismiss(w),
         entered' = [entered EXCEPT ![w] = NotEntered]
  PROVE  StoreOK' /\ RequestsOK' /\ EntriesOK' /\ Grown
<1>1. /\ req' = [req EXCEPT ![w] = NoRequest] /\ UNCHANGED <<kind, row, gone, doubtful>>
  BY DEF Dismiss
<1>2. /\ req'[w] = NoRequest /\ entered'[w] = NotEntered /\ DOMAIN entered' = Workers
      /\ \A v \in Workers \ {w} : req'[v] = req[v] /\ entered'[v] = entered[v]
  BY <1>1 DEF RequestsShape, EntriesOK
<1>3. Grown /\ StoreOK'
  BY <1>1, StaysGrown, StoreKept DEF StoreOK
<1>4. ASSUME NEW v \in Workers \ {w}
      PROVE  RequestOK(v)' /\ EntryOK(v)'
  <2>1. RequestOK(v) /\ EntryOK(v) /\ kind \in Kinds
    BY DEF RequestsOK, EntriesOK, StoreOK
  <2>2. QED BY <2>1, <1>2, <1>3, RequestKept, EntryKept DEF EntryOK
<1>5. RequestOK(w)' /\ EntryOK(w)'
  <2>1. NoRequest.step = "free" /\ NoRequest.op = "none" /\ NoRequest.id = NoId
    BY DEF NoRequest
  <2>2. /\ NotEntered.by = "nobody" /\ NotEntered.mode = "closed" /\ NotEntered.form = NoForm
        /\ DOMAIN NotEntered = {"by", "mode", "id", "form"}
    BY DEF NotEntered
  <2>3. (FormsOf("closed"))' = {NoForm}
    BY DEF FormsOf, FormModes
  <2>4. RequestOK(w)'
    BY <2>1, <1>2 DEF RequestOK
  <2>5. EntryOK(w)'
    BY <2>2, <2>3, <1>2 DEF EntryOK, Modes
  <2>6. QED BY <2>4, <2>5
<1>6. QED BY <1>2, <1>3, <1>4, <1>5 DEF RequestsOK, EntriesOK

\* Nothing of the records or of who sent what changes.
LEMMA EntriesSame ==
  ASSUME StoreOK, RequestsOK, EntriesOK, UNCHANGED <<kind, row, gone, req, entered>>,
         doubtful' = doubtful
  PROVE  StoreOK' /\ RequestsOK' /\ EntriesOK' /\ Grown
<1>1. Grown /\ StoreOK' /\ kind \in Kinds
  BY StaysGrown, StoreKept DEF StoreOK
<1>2. ASSUME NEW v \in Workers
      PROVE  RequestOK(v)' /\ EntryOK(v)'
  <2>1. RequestOK(v) /\ EntryOK(v)
    BY DEF RequestsOK, EntriesOK
  <2>2. QED BY <2>1, <1>1, RequestKept, EntryKept DEF EntryOK
<1>3. QED BY <1>1, <1>2 DEF RequestsOK, EntriesOK

-----------------------------------------------------------------------------
(* The list and the dialogs *)

\* A list that shows what is stored.
LEMMA ListedOK ==
  ASSUME StoreOK
  PROVE  /\ Listed \in [Ids -> RowsOf]
         /\ \A i \in Ids : Listed[i] # NoRow => StillLive(i)
  BY DEF Listed, StoreOK, RowsOf, StillLive

\* A dialog that is closed.
LEMMA ClosedOK ==
  ASSUME kind \in Kinds, kind' = kind, dialog' = NoDialog
  PROVE  DialogOK'
<1>1. /\ NoDialog.mode = "closed" /\ NoDialog.id = NoId /\ NoDialog.row = NoRow
      /\ NoDialog.form = NoForm
  BY DEF NoDialog
<1>2. RowsOf' = RowsOf /\ NoRow \in RowsOf
  BY SameForms DEF RowsOf
<1>3. QED BY <1>1, <1>2 DEF DialogOK, Modes, FormModes

\* A dialog that is opened on a row, or is reset to one.
LEMMA OpenedOK ==
  ASSUME kind \in Kinds, UNCHANGED <<kind, row>>, NEW mode \in Modes, NEW i \in Ids \cup {NoId},
         NEW r \in RowsOf, NEW form,
         dialog' = [mode |-> mode, id |-> i, row |-> r, form |-> form],
         mode \in {"edit", "delete", "pin"} => i \in Ids /\ StillLive(i),
         mode = "edit" => kind \in Edited \cup {"fiscal"},
         mode = "pin" => kind = "employee",
         mode \in FormModes \cup {"pin"} => FormOK(form, mode, aside' # {}),
         mode \notin FormModes \cup {"pin"} => form = NoForm
  PROVE  DialogOK'
<1> DEFINE d == [mode |-> mode, id |-> i, row |-> r, form |-> form]
<1>1. dialog' = d /\ d.mode = mode /\ d.id = i /\ d.row = r /\ d.form = form
  OBVIOUS
<1> HIDE DEF d
<1>2. RowsOf' = RowsOf /\ (StillLive(i) => StillLive(i)')
  BY SameForms DEF StillLive, Live
<1>3. mode \in FormModes \cup {"pin"} => FormOK(form, mode, aside # {})'
  <2>1. Forms(mode)' = Forms(mode)
    BY SameForms
  <2>2. QED BY <2>1 DEF FormOK
<1>4. QED BY <1>1, <1>2, <1>3 DEF DialogOK

\* What a dialog shows first is a form.
LEMMA DefaultsOK ==
  ASSUME StoreOK, NEW r \in RowsOf, NEW a, NEW mode \in FormModes
  PROVE  FormOK(Defaults(r, a), mode, a # {})
  BY DefaultsTyped DEF StoreOK, RowsOf, FormModes

\* The rows are read for the list.
LEMMA FetchReadsOK ==
  ASSUME EntryInv, FetchReads
  PROVE  EntryInv'
<1>1. /\ fetch' = [step |-> "arriving", rows |-> Listed]
      /\ UNCHANGED <<recordVars, list, aside, dialog, entered, settling, used>>
  BY DEF FetchReads
<1>2. StoreOK' /\ RequestsOK' /\ EntriesOK' /\ Grown /\ kind \in Kinds
  BY <1>1, EntriesSame DEF EntryInv, StoreOK, recordVars
<1>3. DialogOK'
  BY <1>1, <1>2, DialogKept DEF EntryInv
<1>4. ListOK'
  <2>1. fetch'.step = "arriving" /\ fetch'.rows = Listed
    BY <1>1
  <2>2. RowsOf' = RowsOf /\ UNCHANGED <<kind, row, list>>
    BY <1>1, <1>2, SameForms DEF recordVars
  <2>3. \A i \in Ids : StillLive(i) => StillLive(i)'
    BY <2>2 DEF StillLive, Live
  <2>4. QED BY <2>1, <2>2, <2>3, ListedOK DEF EntryInv, ListOK
<1>5. CountsOK'
  BY <1>1 DEF EntryInv, CountsOK, used
<1>6. QED BY <1>2, <1>3, <1>4, <1>5 DEF EntryInv

\* The list arrives: the dialog of the profile starts anew, or one is closed.
LEMMA FetchArrivesOK ==
  ASSUME EntryInv, FetchArrives
  PROVE  EntryInv'
<1>1. /\ list' = fetch.rows /\ fetch' = [step |-> "idle", rows |-> fetch.rows]
      /\ dialog' = ClosedBy(ResetBy(fetch.rows), settling) /\ settling' = {}
      /\ UNCHANGED <<recordVars, aside, entered, used>>
  BY DEF FetchArrives
<1>2. StoreOK' /\ RequestsOK' /\ EntriesOK' /\ Grown /\ kind \in Kinds /\ UNCHANGED <<kind, row>>
  BY <1>1, EntriesSame DEF EntryInv, StoreOK, recordVars
<1>3. DialogOK'
  <2>1. CASE dialog' = NoDialog
    BY <2>1, <1>2, ClosedOK
  <2>2. CASE dialog' = dialog
    BY <2>2, <1>1, <1>2, DialogKept DEF EntryInv
  <2>3. CASE dialog' = ResetBy(fetch.rows) /\ ResetBy(fetch.rows) # dialog
    <3> DEFINE shown == {i \in Ids : fetch.rows[i] # NoRow}
               i == IF shown = {} THEN NoId ELSE CHOOSE i \in shown : TRUE
               r == IF shown = {} THEN NoRow ELSE fetch.rows[i]
               mode == IF shown = {} THEN "create" ELSE "edit"
    <3>1. kind = "fiscal" /\ dialog' = [mode |-> mode, id |-> i, row |-> r, form |-> FiscalDefaults(r)]
      BY <2>3 DEF ResetBy
    <3>2. /\ mode \in FormModes /\ i \in Ids \cup {NoId}
          /\ mode = "edit" => i \in Ids /\ fetch.rows[i] # NoRow
          /\ r = NoRow \/ (i \in Ids /\ r = fetch.rows[i])
      BY DEF FormModes
    <3> HIDE DEF shown, i, r, mode
    <3>3. r \in RowsOf /\ (mode = "edit" => StillLive(i))
      BY <3>2 DEF EntryInv, ListOK, RowsOf
    <3>4. FiscalDefaults(r) = Defaults(r, aside')
      BY <3>1 DEF Defaults
    <3>5. FormOK(FiscalDefaults(r), mode, aside' # {})
      BY <3>2, <3>3, <3>4, DefaultsOK DEF EntryInv
    <3>6. QED BY <3>1, <3>2, <3>3, <3>5, <1>2, OpenedOK DEF FormModes, Modes
  <2>4. QED BY <2>1, <2>2, <2>3, <1>1, ClosedByShape
<1>4. ListOK'
  <2>1. fetch'.step = "idle" /\ fetch'.rows = fetch.rows
    BY <1>1
  <2>2. RowsOf' = RowsOf
    BY <1>2, SameForms
  <2>3. \A i \in Ids : StillLive(i) => StillLive(i)'
    BY <1>2 DEF StillLive, Live
  <2>4. QED BY <2>1, <2>2, <2>3, <1>1 DEF EntryInv, ListOK
<1>5. CountsOK'
  BY <1>1 DEF EntryInv, CountsOK, used
<1>6. QED BY <1>2, <1>3, <1>4, <1>5 DEF EntryInv

\* Another list arrives, and resets the form of a product.
LEMMA AsideArrivesOK ==
  ASSUME EntryInv, DialogShape, AsideArrives
  PROVE  EntryInv'
<1>1. /\ kind \in {"product", "item"}
      /\ aside' = IF kind = "product" THEN {"g"}
                  ELSE {row[i].product : i \in {i \in Ids : Live(i)}} \ {Null}
      /\ UNCHANGED <<recordVars, list, fetch, entered, settling, used>>
  BY DEF AsideArrives
<1>2. StoreOK' /\ RequestsOK' /\ EntriesOK' /\ Grown /\ kind \in Kinds /\ UNCHANGED <<kind, row>>
  BY <1>1, EntriesSame DEF EntryInv, StoreOK, recordVars
<1>3. aside' \subseteq {"g", "p1"}
  <2>1. CASE kind = "product"
    BY <2>1, <1>1
  <2>2. CASE kind = "item"
    <3>1. ASSUME NEW i \in Ids, Live(i)
          PROVE  row[i].product \in {"p1", Null}
      <4>1. row[i] \in ItemRows
        BY <2>2, <3>1 DEF EntryInv, StoreOK, RowsOf, Rows, Live, NoRow
      <4>2. QED BY <4>1 DEF ItemRows
    <3>2. QED BY <3>1, <2>2, <1>1
  <2>3. QED BY <2>1, <2>2, <1>1
<1>4. DialogOK'
  <2>1. CASE kind = "product" /\ dialog.mode \in FormModes
    <3>1. dialog' = [dialog EXCEPT !.form = Defaults(dialog.row, aside')]
      BY <2>1 DEF AsideArrives
    <3>2. dialog' = [mode |-> dialog.mode, id |-> dialog.id, row |-> dialog.row,
                     form |-> Defaults(dialog.row, aside')]
      BY <3>1 DEF DialogShape
    <3>3. FormOK(Defaults(dialog.row, aside'), dialog.mode, aside' # {})
      BY <2>1, DefaultsOK DEF EntryInv, DialogOK
    <3>4. QED BY <3>2, <3>3, <2>1, <1>2, OpenedOK DEF EntryInv, DialogOK, FormModes
  <2>2. CASE ~(kind = "product" /\ dialog.mode \in FormModes)
    <3>1. dialog' = dialog
      BY <2>2 DEF AsideArrives
    <3>2. RowsOf' = RowsOf /\ \A i \in Ids : StillLive(i) => StillLive(i)'
      BY <1>2, SameForms DEF StillLive, Live
    <3>3. ASSUME dialog.mode \in FormModes \cup {"pin"}
          PROVE  FormOK(dialog.form, dialog.mode, aside # {})'
      <4>1. kind = "item"
        BY <3>3, <2>2, <1>1 DEF EntryInv, DialogOK, FormModes
      <4>2. dialog.form \in Forms(dialog.mode)
        BY <3>3 DEF EntryInv, DialogOK, FormOK
      <4>3. QED BY <4>1, <4>2, <3>1, <1>2, SameForms DEF FormOK
    <3>4. QED BY <3>1, <3>2, <3>3, <1>2 DEF EntryInv, DialogOK
  <2>3. QED BY <2>1, <2>2
<1>5. ListOK'
  BY <1>1, <1>2, ListKept DEF EntryInv
<1>6. CountsOK'
  BY <1>1, <1>3 DEF EntryInv, CountsOK, used
<1>7. QED BY <1>2, <1>4, <1>5, <1>6 DEF EntryInv

\* A dialog is opened.
LEMMA OpensOK ==
  ASSUME EntryInv, NEW mode \in Modes, NEW i \in Ids \cup {NoId}, NEW r \in RowsOf, NEW form,
         Opened(mode, i, r, form),
         mode \in {"edit", "delete", "pin"} => i \in Ids /\ StillLive(i),
         mode = "edit" => kind \in Edited \cup {"fiscal"},
         mode = "pin" => kind = "employee",
         mode \in FormModes \cup {"pin"} => FormOK(form, mode, aside # {}),
         mode \notin FormModes \cup {"pin"} => form = NoForm
  PROVE  EntryInv'
<1>1. /\ dialog' = [mode |-> mode, id |-> i, row |-> r, form |-> form]
      /\ opens < MaxOpens /\ opens' = opens + 1
      /\ UNCHANGED <<recordVars, list, fetch, aside, entered, settling, edits, others>>
  BY DEF Opened
<1>2. StoreOK' /\ RequestsOK' /\ EntriesOK' /\ Grown /\ kind \in Kinds /\ UNCHANGED <<kind, row>>
  BY <1>1, EntriesSame DEF EntryInv, StoreOK, recordVars
<1>3. DialogOK'
  BY <1>1, <1>2, OpenedOK
<1>4. ListOK'
  BY <1>1, <1>2, ListKept DEF EntryInv
<1>5. CountsOK'
  BY <1>1, BackOfficeAssumption DEF EntryInv, CountsOK
<1>6. QED BY <1>2, <1>3, <1>4, <1>5 DEF EntryInv

\* The dialog of a record that is created.
LEMMA OpenCreateOK ==
  ASSUME EntryInv, OpenCreate
  PROVE  EntryInv'
<1>1. Opened("create", NoId, NoRow, Defaults(NoRow, aside))
  BY DEF OpenCreate
<1>2. NoRow \in RowsOf /\ "create" \in FormModes /\ "create" \in Modes
  BY DEF RowsOf, FormModes, Modes
<1>3. FormOK(Defaults(NoRow, aside), "create", aside # {})
  BY <1>2, DefaultsOK DEF EntryInv
<1>4. QED BY <1>1, <1>2, <1>3, OpensOK

\* What the list shows may be clicked on.
LEMMA OfferedRow ==
  ASSUME EntryInv, NEW i \in Ids, NEW button, Offers(i, button)
  PROVE  /\ list[i] \in RowsOf /\ list[i] \in Rows(kind) /\ StillLive(i)
         /\ button = "edit" => kind \in Edited \cup {"fiscal"}
         /\ button \in {"pin", "access"} => kind = "employee"
         /\ button = "test" => kind = "fiscal"
<1>1. list[i] # NoRow /\ button \in Buttons(list[i]) /\ kind \in Kinds
  BY DEF Offers, EntryInv, StoreOK
<1>2. list[i] \in RowsOf /\ list[i] \in Rows(kind) /\ StillLive(i)
  BY <1>1 DEF EntryInv, ListOK, RowsOf
<1>3. /\ button = "edit" => kind \in Edited \cup {"fiscal"}
      /\ button \in {"pin", "access"} => kind = "employee"
      /\ button = "test" => kind = "fiscal"
  <2>1. CASE kind = "category"
    BY <2>1, <1>1 DEF Buttons, CategoryButtons, Edited
  <2>2. CASE kind = "product"
    BY <2>2, <1>1 DEF Buttons, ProductButtons, Edited
  <2>3. CASE kind = "customer"
    BY <2>3, <1>1 DEF Buttons, CustomerButtons, Edited
  <2>4. CASE kind = "supplier"
    BY <2>4, <1>1 DEF Buttons, SupplierButtons
  <2>5. CASE kind = "employee"
    BY <2>5, <1>1 DEF Buttons, EmployeeButtons
  <2>6. CASE kind = "item"
    BY <2>6, <1>1 DEF Buttons, ItemButtons
  <2>7. CASE kind = "purchase"
    BY <2>7, <1>1 DEF Buttons, PurchaseButtons
  <2>8. CASE kind = "fiscal"
    BY <2>8, <1>1 DEF Buttons, ProfileButtons
  <2>9. QED BY <2>1, <2>2, <2>3, <2>4, <2>5, <2>6, <2>7, <2>8, <1>1 DEF Kinds
<1>4. QED BY <1>2, <1>3

\* The dialog of one that is edited.
LEMMA OpenEditOK ==
  ASSUME EntryInv, NEW i \in Ids, OpenEdit(i)
  PROVE  EntryInv'
<1>1. Offers(i, "edit") /\ Opened("edit", i, list[i], Defaults(list[i], aside))
  BY DEF OpenEdit
<1>2. list[i] \in RowsOf /\ StillLive(i) /\ kind \in Edited \cup {"fiscal"}
  BY <1>1, OfferedRow
<1>3. "edit" \in FormModes /\ "edit" \in Modes
  BY DEF FormModes, Modes
<1>4. FormOK(Defaults(list[i], aside), "edit", aside # {})
  BY <1>2, <1>3, DefaultsOK DEF EntryInv
<1>5. QED BY <1>1, <1>2, <1>3, <1>4, OpensOK

\* The dialog of one that is removed.
LEMMA OpenDeleteOK ==
  ASSUME EntryInv, NEW i \in Ids, OpenDelete(i)
  PROVE  EntryInv'
<1>1. Offers(i, "delete") /\ Opened("delete", i, list[i], NoForm)
  BY DEF OpenDelete
<1>2. list[i] \in RowsOf /\ StillLive(i)
  BY <1>1, OfferedRow
<1>3. "delete" \notin FormModes \cup {"pin"} /\ "delete" \in Modes
  BY DEF FormModes, Modes
<1>4. QED BY <1>1, <1>2, <1>3, OpensOK

\* The dialog of a PIN.
LEMMA OpenPinOK ==
  ASSUME EntryInv, NEW i \in Ids, OpenPin(i)
  PROVE  EntryInv'
<1>1. Offers(i, "pin") /\ Opened("pin", i, list[i], PinDefaults)
  BY DEF OpenPin
<1>2. list[i] \in RowsOf /\ StillLive(i) /\ kind = "employee"
  BY <1>1, OfferedRow
<1>3. "pin" \in Modes /\ FormOK(PinDefaults, "pin", aside # {})
  BY <1>2, PinDefaulted DEF Modes
<1>4. QED BY <1>1, <1>2, <1>3, OpensOK

\* A form is edited.
LEMMA EditOK ==
  ASSUME EntryInv, DialogShape, Edit
  PROVE  EntryInv'
<1>1. PICK form \in Edits(dialog.form, aside) : dialog' = [dialog EXCEPT !.form = form]
  BY DEF Edit
<1>2. /\ dialog.mode \in FormModes \cup {"pin"} /\ edits < MaxEdits /\ edits' = edits + 1
      /\ UNCHANGED <<recordVars, list, fetch, aside, entered, settling, opens, others>>
  BY DEF Edit
<1>3. StoreOK' /\ RequestsOK' /\ EntriesOK' /\ Grown /\ kind \in Kinds /\ UNCHANGED <<kind, row>>
  BY <1>2, EntriesSame DEF EntryInv, StoreOK, recordVars
<1>4. dialog' = [mode |-> dialog.mode, id |-> dialog.id, row |-> dialog.row, form |-> form]
  BY <1>1 DEF DialogShape
<1>5. FormOK(form, dialog.mode, aside' # {})
  BY <1>2, <1>3, EditsTyped DEF EntryInv, DialogOK
<1>6. DialogOK'
  BY <1>2, <1>3, <1>4, <1>5, OpenedOK DEF EntryInv, DialogOK
<1>7. ListOK'
  BY <1>2, <1>3, ListKept DEF EntryInv
<1>8. CountsOK'
  BY <1>2, BackOfficeAssumption DEF EntryInv, CountsOK
<1>9. QED BY <1>3, <1>6, <1>7, <1>8 DEF EntryInv

\* A dialog is closed.
LEMMA CancelOK ==
  ASSUME EntryInv, Cancel
  PROVE  EntryInv'
<1>1. dialog' = NoDialog /\ UNCHANGED <<recordVars, list, fetch, aside, entered, settling, used>>
  BY DEF Cancel
<1>2. StoreOK' /\ RequestsOK' /\ EntriesOK' /\ Grown /\ kind \in Kinds /\ kind' = kind
  BY <1>1, EntriesSame DEF EntryInv, StoreOK, recordVars
<1>3. DialogOK' /\ ListOK' /\ CountsOK'
  BY <1>1, <1>2, ClosedOK, ListKept DEF EntryInv, CountsOK, used
<1>4. QED BY <1>2, <1>3 DEF EntryInv

-----------------------------------------------------------------------------
(* What is sent from the screen, and by others *)

\* A request of the screen leaves the rest of it as it is, but for its dialog.
LEMMA SendsOK ==
  ASSUME EntryInv, RequestsShape, NEW w \in Workers,
         NEW op \in Operations, NEW i \in Ids \cup {NoId}, NEW d, Asked(op, i, d), Sends(w, op, i, d),
         dialog.form # NoForm =>
           /\ op \in {"create", "update", "pin"} /\ (dialog.mode = "pin" <=> op = "pin")
           /\ kind # "fiscal" => (dialog.mode = "edit" => op = "update")
           /\ op = "update" => kind \in Edited
           /\ op \in {"update", "pin"} => i = dialog.id
           /\ Submitted(dialog.mode, dialog.form, d),
         dialog' \in {dialog, NoDialog}, CountsOK'
  PROVE  EntryInv'
<1>1. StoreOK' /\ RequestsOK' /\ EntriesOK' /\ Grown
  BY EntryArrives DEF EntryInv
<1>2. UNCHANGED <<list, fetch, aside>> /\ kind \in Kinds /\ kind' = kind
  BY <1>1 DEF Sends, EntryInv, StoreOK, Grown
<1>3. DialogOK' /\ ListOK'
  BY <1>1, <1>2, ClosedOK, DialogKept, ListKept DEF EntryInv
<1>4. QED BY <1>1, <1>3 DEF EntryInv

\* Whatever a form dialog sends is what was submitted in it.
LEMMA SubmitOK ==
  ASSUME EntryInv, RequestsShape, NEW w \in Workers, Submit(w)
  PROVE  EntryInv'
<1> DEFINE op == IF kind # "fiscal" /\ dialog.mode = "edit" THEN "update" ELSE "create"
           d == Payload(dialog.form, aside)
<1>1. /\ dialog.mode \in FormModes /\ Valid(dialog.form, dialog.id, list)
      /\ Sends(w, op, dialog.id, d) /\ dialog' = dialog /\ UNCHANGED used
  BY DEF Submit
<1>2. kind \in Kinds /\ aside \in SUBSET {"g", "p1"} /\ dialog.id \in Ids \cup {NoId}
  BY DEF EntryInv, StoreOK, CountsOK, DialogOK
<1>3. Submitted(dialog.mode, dialog.form, d)
  BY <1>1, <1>2, FormSubmitted DEF EntryInv, DialogOK
<1>4. dialog.mode # "pin" /\ dialog.mode \in {"create", "edit"}
  BY <1>1 DEF FormModes
<1>5. Submitted("create", dialog.form, d) /\ Submitted("edit", dialog.form, d)
  BY <1>3, <1>4, SubmittedAnyhow
<1>6. op \in Operations /\ op \in {"create", "update"}
  BY DEF Operations
<1>7. op = "update" => dialog.id \in Ids /\ kind \in Edited
  BY DEF EntryInv, DialogOK
<1>8. kind # "fiscal" => (dialog.mode = "edit" => op = "update")
  OBVIOUS
<1> HIDE DEF op, d
<1>9. Asked(op, dialog.id, d)
  BY <1>5, <1>6, <1>7 DEF Asked
<1>10. CountsOK'
  BY <1>1 DEF Sends, EntryInv, CountsOK, used
<1>11. QED BY <1>1, <1>2, <1>3, <1>4, <1>6, <1>7, <1>8, <1>9, <1>10, SendsOK

\* So is a PIN.
LEMMA SubmitPinOK ==
  ASSUME EntryInv, RequestsShape, NEW w \in Workers, SubmitPin(w)
  PROVE  EntryInv'
<1> DEFINE d == Payload(dialog.form, aside)
<1>1. /\ dialog.mode = "pin" /\ Valid(dialog.form, dialog.id, list)
      /\ Sends(w, "pin", dialog.id, d) /\ dialog' = dialog /\ UNCHANGED used
  BY DEF SubmitPin
<1>2. /\ kind \in Kinds /\ kind = "employee" /\ aside \in SUBSET {"g", "p1"}
      /\ dialog.id \in Ids /\ dialog.id \in Ids \cup {NoId}
  BY <1>1 DEF EntryInv, StoreOK, CountsOK, DialogOK
<1>3. Submitted(dialog.mode, dialog.form, d)
  BY <1>1, <1>2, FormSubmitted DEF EntryInv, DialogOK
<1> HIDE DEF d
<1>4. \E p \in Texts : d = [pin |-> p]
  BY <1>1, <1>2, <1>3, PinSent
<1>5. Asked("pin", dialog.id, d) /\ "pin" \in Operations
  BY <1>2, <1>4 DEF Asked, Operations
<1>6. CountsOK'
  BY <1>1 DEF Sends, EntryInv, CountsOK, used
<1>7. QED BY <1>1, <1>2, <1>3, <1>5, <1>6, SendsOK

\* A removal comes from a dialog without a form.
LEMMA DeleteOK ==
  ASSUME EntryInv, RequestsShape, NEW w \in Workers, ConfirmDelete(w)
  PROVE  EntryInv'
<1>1. /\ dialog.mode = "delete" /\ Sends(w, "remove", dialog.id, NoRow)
      /\ dialog' \in {dialog, NoDialog} /\ UNCHANGED used
  BY DEF ConfirmDelete
<1>2. /\ dialog.id \in Ids /\ dialog.form = NoForm /\ "remove" \in Operations
      /\ Asked("remove", dialog.id, NoRow)
  BY <1>1 DEF EntryInv, DialogOK, FormModes, Asked, Operations
<1>3. CountsOK'
  BY <1>1 DEF Sends, EntryInv, CountsOK, used
<1>4. QED BY <1>1, <1>2, <1>3, SendsOK

\* The switch of an employee sends the opposite of what is shown.
LEMMA ToggleOK ==
  ASSUME EntryInv, RequestsShape, NEW w \in Workers, NEW i \in Ids, Toggle(w, i)
  PROVE  EntryInv'
<1> DEFINE d == [active |-> ~list[i].active]
<1>1. /\ Offers(i, "access") /\ dialog.mode = "closed" /\ Sends(w, "access", i, d)
      /\ dialog' = dialog /\ opens < MaxOpens /\ opens' = opens + 1 /\ UNCHANGED <<edits, others>>
  BY DEF Toggle
<1>2. kind = "employee" /\ list[i] \in EmployeeRows
  BY <1>1, OfferedRow DEF Rows
<1>3. \E b \in BOOLEAN : d = [active |-> b]
  <2>1. (~list[i].active) \in BOOLEAN
    OBVIOUS
  <2>2. QED BY <2>1
<1> HIDE DEF d
<1>4. Asked("access", i, d) /\ "access" \in Operations
  BY <1>2, <1>3 DEF Asked, Operations
<1>5. dialog.form = NoForm
  BY <1>1 DEF EntryInv, DialogOK, FormModes
<1>6. CountsOK'
  BY <1>1, BackOfficeAssumption DEF Sends, EntryInv, CountsOK
<1>7. QED BY <1>1, <1>4, <1>5, <1>6, SendsOK

\* A connection is tested without a dialog.
LEMMA TestOK ==
  ASSUME EntryInv, RequestsShape, NEW w \in Workers, NEW i \in Ids, TestProfile(w, i)
  PROVE  EntryInv'
<1>1. /\ Offers(i, "test") /\ dialog.mode = "closed" /\ Sends(w, "test", i, NoRow)
      /\ dialog' = dialog /\ opens < MaxOpens /\ opens' = opens + 1 /\ UNCHANGED <<edits, others>>
  BY DEF TestProfile
<1>2. Asked("test", i, NoRow) /\ "test" \in Operations
  BY <1>1, OfferedRow DEF Asked, Operations
<1>3. dialog.form = NoForm
  BY <1>1 DEF EntryInv, DialogOK, FormModes
<1>4. CountsOK'
  BY <1>1, BackOfficeAssumption DEF Sends, EntryInv, CountsOK
<1>5. QED BY <1>1, <1>2, <1>3, <1>4, SendsOK

\* Others send what they may ask for.
LEMMA OthersAsk ==
  ASSUME EntryInv, NEW w \in Workers, OtherSends(w)
  PROVE  \E op \in Operations, i \in Ids \cup {NoId} : \E d : Asked(op, i, d) /\ Arrive(w, op, i, d)
<1>1. \/ kind = "fiscal" /\ \E d \in ProfilePayloads : Arrive(w, "create", NoId, d)
      \/ \E i \in Ids :
           \/ \E d \in OtherPayloads(i) : Arrive(w, "update", i, d)
           \/ kind = "fiscal" /\ Arrive(w, "test", i, NoRow)
           \/ kind = "employee" /\ Arrive(w, "pin", i, [pin |-> "x1"])
           \/ kind \notin {"fiscal", "purchase", "item"} /\ Arrive(w, "remove", i, NoRow)
  BY DEF OtherSends
<1>2. kind \in Kinds /\ \A i \in Ids : row[i] \in RowsOf
  BY DEF EntryInv, StoreOK
<1>3. /\ "create" \in Operations /\ "update" \in Operations /\ "test" \in Operations
      /\ "pin" \in Operations /\ "remove" \in Operations
  BY DEF Operations
<1>4. ASSUME NEW i \in Ids, NEW d \in OtherPayloads(i)
      PROVE  Asked("update", i, d)
  <2>1. CASE kind \in Edited
    <3> DEFINE shown == Defaults(row[i], {"g"})
    <3>1. OtherPayloads(i) = {Payload(f, {"g"}) : f \in {f \in Edits(shown, {"g"}) : Valid(f, i, Listed)}}
      BY <2>1 DEF OtherPayloads, Edited
    <3>2. PICK f \in Edits(shown, {"g"}) : Valid(f, i, Listed) /\ d = Payload(f, {"g"})
      BY <3>1
    <3>3. FormOK(shown, "edit", {"g"} # {})
      BY <1>2, DefaultsOK DEF EntryInv, FormModes
    <3> HIDE DEF shown
    <3>4. FormOK(f, "edit", {"g"} # {})
      BY <1>2, <3>3, EditsTyped
    <3>5. Submitted("edit", f, d)
      BY <1>2, <3>2, <3>4, FormSubmitted
    <3>6. QED BY <1>2, <2>1, <3>5 DEF Asked
  <2>2. CASE kind \notin Edited
    <3>1. d \in ApiPayloads
      BY <2>2 DEF OtherPayloads, Edited
    <3>2. QED BY <1>2, <3>1 DEF Asked
  <2>3. QED BY <2>1, <2>2
<1>5. ASSUME kind = "fiscal", NEW d \in ProfilePayloads
      PROVE  Asked("create", NoId, d)
  <2> DEFINE read == IF Profiles = {} THEN {NoRow} ELSE {row[i] : i \in Profiles}
  <2>1. PICK r \in read, f \in UNION {FiscalEdits(FiscalDefaults(s)) : s \in read} :
               /\ f \in FiscalEdits(FiscalDefaults(r)) /\ FiscalValid(f)
               /\ d \in {FiscalPayload(f), WithoutProvider(f)}
    BY DEF ProfilePayloads
  <2>2. r \in RowsOf
    BY <1>2, <2>1 DEF Profiles, RowsOf
  <2> HIDE DEF read
  <2>3. FormOK(FiscalDefaults(r), "create", {} # {})
    <3>1. FiscalDefaults(r) = Defaults(r, {})
      BY <1>5 DEF Defaults
    <3>2. QED BY <1>2, <2>2, <3>1, DefaultsOK DEF EntryInv, FormModes
  <2>4. f \in Edits(FiscalDefaults(r), {}) /\ Payload(f, {}) = f
    BY <1>5, <2>1 DEF Edits, Payload, FiscalPayload
  <2>5. FormOK(f, "create", {} # {})
    BY <1>2, <2>3, <2>4, EditsTyped
  <2>6. Valid(f, NoId, Nothing)
    BY <1>5, <2>1 DEF Valid
  <2>7. Submitted("create", f, f)
    BY <1>2, <2>4, <2>5, <2>6, FormSubmitted
  <2>8. QED BY <1>5, <2>1, <2>7 DEF Asked, FiscalPayload
<1>6. \A i \in Ids : kind = "fiscal" => Asked("test", i, NoRow)
  BY DEF Asked
<1>7. \A i \in Ids : kind = "employee" => Asked("pin", i, [pin |-> "x1"])
  BY DEF Asked, Texts
<1>8. \A i \in Ids : Asked("remove", i, NoRow)
  BY DEF Asked
<1>9. QED BY <1>1, <1>3, <1>4, <1>5, <1>6, <1>7, <1>8

\* Requests of others leave the screen as it is.
LEMMA OthersOK ==
  ASSUME EntryInv, RequestsShape, NEW w \in Workers, OtherSends(w)
  PROVE  EntryInv'
<1>1. UNCHANGED <<screenVars, opens, edits>> /\ others < MaxOthers /\ others' = others + 1
  BY DEF OtherSends
<1>2. PICK op \in Operations, i \in Ids \cup {NoId} : \E d : Asked(op, i, d) /\ Arrive(w, op, i, d)
  BY OthersAsk
<1>3. StoreOK' /\ RequestsOK' /\ EntriesOK' /\ Grown
  BY <1>1, <1>2, OtherArrives DEF EntryInv, screenVars
<1>4. ListOK' /\ DialogOK'
  BY <1>1, <1>3, ListKept, DialogKept DEF EntryInv, StoreOK, screenVars
<1>5. CountsOK'
  BY <1>1, BackOfficeAssumption DEF EntryInv, CountsOK, screenVars
<1>6. QED BY <1>3, <1>4, <1>5 DEF EntryInv

\* A request is served, and what it stores is as it was entered.
LEMMA ServedOK ==
  ASSUME EntryInv, RequestsShape, NEW w \in Workers, Served(w)
  PROVE  EntryInv' /\ \A v \in Workers : SavesAsEntered(v)
<1>1. Serve(w) /\ UNCHANGED <<screenVars, used>>
  BY DEF Served
<1>2. /\ StoreOK' /\ RequestsOK' /\ EntriesOK' /\ Grown
      /\ \A v \in Workers : SavesAsEntered(v)
  BY <1>1, EntryServed DEF EntryInv, screenVars
<1>3. ListOK' /\ DialogOK'
  BY <1>1, <1>2, ListKept, DialogKept DEF EntryInv, StoreOK, screenVars
<1>4. CountsOK'
  BY <1>1 DEF EntryInv, CountsOK, screenVars, used
<1>5. QED BY <1>2, <1>3, <1>4 DEF EntryInv

\* The answer starts a fetch, and may close the dialog.
LEMMA AnswerDoneOK ==
  ASSUME EntryInv, RequestsShape, NEW w \in Workers, AnswerDone(w)
  PROVE  EntryInv'
<1>1. /\ Dismiss(w) /\ req[w].step = "done" /\ entered' = [entered EXCEPT ![w] = NotEntered]
      /\ fetch' = Invalidated /\ dialog' \in {dialog, NoDialog}
      /\ settling' \subseteq settling \cup {req[w].op}
      /\ UNCHANGED <<list, aside, used>>
  BY ClosedByShape DEF AnswerDone
<1>2. StoreOK' /\ RequestsOK' /\ EntriesOK' /\ Grown /\ kind \in Kinds /\ kind' = kind
  BY <1>1, EntryDismissed DEF EntryInv, StoreOK, Grown
<1>3. DialogOK'
  BY <1>1, <1>2, ClosedOK, DialogKept DEF EntryInv
<1>4. ListOK'
  <2>1. fetch'.step = "asked" /\ fetch'.rows = list
    BY <1>1 DEF Invalidated
  <2>2. RowsOf' = RowsOf /\ \A i \in Ids : StillLive(i) => StillLive(i)'
    BY <1>2, SameForms DEF Grown, StillLive, Live
  <2>3. QED BY <2>1, <2>2, <1>1 DEF EntryInv, ListOK
<1>5. req[w].op \in Operations
  BY <1>1 DEF EntryInv, RequestsOK, RequestOK
<1>6. CountsOK'
  BY <1>1, <1>5 DEF EntryInv, CountsOK, used
<1>7. QED BY <1>2, <1>3, <1>4, <1>6 DEF EntryInv

\* An answer that leaves the screen as it is.
LEMMA AnswerOK ==
  ASSUME EntryInv, RequestsShape, NEW w \in Workers, Dismiss(w),
         entered' = [entered EXCEPT ![w] = NotEntered],
         UNCHANGED <<list, fetch, aside, dialog, settling, used>>
  PROVE  EntryInv'
<1>1. StoreOK' /\ RequestsOK' /\ EntriesOK' /\ Grown /\ kind \in Kinds
  BY EntryDismissed DEF EntryInv, StoreOK
<1>2. ListOK' /\ DialogOK' /\ CountsOK'
  BY <1>1, ListKept, DialogKept DEF EntryInv, CountsOK, used
<1>3. QED BY <1>1, <1>2 DEF EntryInv

\* A connection breaks: who sent the request is lost, what was entered is not.
LEMMA AnswerLostOK ==
  ASSUME EntryInv, NEW w \in Workers, AnswerLost(w)
  PROVE  EntryInv'
<1>1. /\ entered[w].by = "me" /\ others < MaxOthers /\ others' = others + 1
      /\ entered' = [entered EXCEPT ![w].by = "lost"]
      /\ UNCHANGED <<recordVars, list, fetch, aside, dialog, settling, opens, edits>>
  BY DEF AnswerLost, Mine
<1>2. Grown /\ StoreOK' /\ kind \in Kinds
  BY <1>1, StaysGrown, StoreKept DEF EntryInv, StoreOK, recordVars
<1>3. /\ DOMAIN entered' = Workers /\ \A v \in Workers \ {w} : entered'[v] = entered[v]
      /\ entered'[w] = [entered[w] EXCEPT !.by = "lost"]
  BY <1>1 DEF EntryInv, EntriesOK
<1>4. ~Idle(w)
  <2>1. NotEntered.by = "nobody"
    BY DEF NotEntered
  <2>2. QED BY <2>1, <1>1 DEF EntryInv, EntriesOK, EntryOK
<1>5. ASSUME NEW v \in Workers
      PROVE  RequestOK(v)' /\ EntryOK(v)'
  <2>1. RequestOK(v) /\ EntryOK(v) /\ req'[v] = req[v]
    BY <1>1 DEF EntryInv, RequestsOK, EntriesOK, recordVars
  <2>2. RequestOK(v)'
    BY <2>1, <1>2, RequestKept
  <2>3. CASE v = w
    <3>1. /\ DOMAIN entered'[w] = {"by", "mode", "id", "form"} /\ entered'[w].by = "lost"
          /\ entered'[w].mode = entered[w].mode /\ entered'[w].id = entered[w].id
          /\ entered'[w].form = entered[w].form
      BY <2>1, <2>3, <1>3 DEF EntryOK
    <3>2. EntryOK(w)'
      BY <3>1, <2>1, <2>3, <1>2, <1>4, EntryKept
    <3>3. QED BY <3>2, <2>2, <2>3
  <2>4. CASE v # w
    BY <2>1, <2>2, <2>4, <1>2, <1>3, EntryKept DEF EntryOK
  <2>5. QED BY <2>3, <2>4
<1>6. ListOK' /\ DialogOK'
  BY <1>1, <1>2, ListKept, DialogKept DEF EntryInv
<1>7. CountsOK'
  BY <1>1, BackOfficeAssumption DEF EntryInv, CountsOK
<1>8. QED BY <1>2, <1>3, <1>5, <1>6, <1>7 DEF EntryInv, RequestsOK, EntriesOK

\* What rows refer to is removed.
LEMMA ReferredRemovedOK ==
  ASSUME EntryInv, ReferredRemoved
  PROVE  EntryInv'
<1>1. PICK x \in References : RemoveReferred(x)
  BY DEF ReferredRemoved
<1>2. /\ gone' = {x} /\ UNCHANGED <<kind, row, req, doubtful, screenVars, opens, edits>>
      /\ others < MaxOthers /\ others' = others + 1
  BY <1>1 DEF ReferredRemoved, RemoveReferred
<1>3. Grown /\ kind \in Kinds /\ RowsOf' = RowsOf
  BY <1>2, StaysGrown, SameForms DEF EntryInv, StoreOK
<1>4. StoreOK'
  BY <1>1, <1>2, <1>3 DEF EntryInv, StoreOK, OneProfile, Live
<1>5. ASSUME NEW v \in Workers
      PROVE  RequestOK(v)' /\ EntryOK(v)'
  <2>1. RequestOK(v) /\ EntryOK(v) /\ req'[v] = req[v] /\ entered'[v] = entered[v]
    BY <1>2 DEF EntryInv, RequestsOK, EntriesOK, screenVars
  <2>2. QED BY <2>1, <1>3, RequestKept, EntryKept DEF EntryOK
<1>6. ListOK' /\ DialogOK'
  BY <1>2, <1>3, ListKept, DialogKept DEF EntryInv, screenVars
<1>7. CountsOK'
  BY <1>2, BackOfficeAssumption DEF EntryInv, CountsOK, screenVars
<1>8. QED BY <1>2, <1>4, <1>5, <1>6, <1>7 DEF EntryInv, RequestsOK, EntriesOK, screenVars

\* Nothing happens.
LEMMA StutterOK ==
  ASSUME EntryInv, UNCHANGED vars
  PROVE  EntryInv'
<1>1. UNCHANGED <<recordVars, screenVars, used>>
  BY DEF vars
<1>2. StoreOK' /\ RequestsOK' /\ EntriesOK' /\ Grown /\ kind \in Kinds
  BY <1>1, EntriesSame DEF EntryInv, StoreOK, recordVars, screenVars
<1>3. ListOK' /\ DialogOK' /\ CountsOK'
  BY <1>1, <1>2, ListKept, DialogKept DEF EntryInv, CountsOK, screenVars, used
<1>4. QED BY <1>2, <1>3 DEF EntryInv

\* What is stored at first is shown, and nothing is asked for.
LEMMA InitEntries == Init => EntryInv
<1> SUFFICES ASSUME Init
             PROVE  EntryInv
  OBVIOUS
<1>1. PICK s \in Starts : kind = s.kind /\ row = s.rows
  BY DEF Init
<1>2. /\ kind \in Kinds /\ row \in [Ids -> RowsOf]
      /\ OneProfile
  BY <1>1, StartsAssumption DEF RowsOf, OneProfile, Live
<1>3. /\ gone = {} /\ doubtful = {} /\ req = [w \in Workers |-> NoRequest]
      /\ list = Listed /\ fetch = [step |-> "idle", rows |-> list]
      /\ aside = {} /\ dialog = NoDialog /\ settling = {}
      /\ entered = [w \in Workers |-> NotEntered]
      /\ opens = 0 /\ edits = 0 /\ others = 0
  BY DEF Init, InitialScreen
<1>4. StoreOK
  BY <1>2, <1>3 DEF StoreOK
<1>5. ASSUME NEW w \in Workers
      PROVE  RequestOK(w) /\ EntryOK(w)
  <2>1. NoRequest.step = "free" /\ NoRequest.op = "none" /\ NoRequest.id = NoId
    BY DEF NoRequest
  <2>2. /\ NotEntered.by = "nobody" /\ NotEntered.mode = "closed" /\ NotEntered.form = NoForm
        /\ DOMAIN NotEntered = {"by", "mode", "id", "form"}
    BY DEF NotEntered
  <2>3. req[w] = NoRequest /\ entered[w] = NotEntered
    BY <1>3
  <2>4. FormsOf("closed") = {NoForm}
    BY DEF FormsOf, FormModes
  <2>5. RequestOK(w)
    BY <2>1, <2>3 DEF RequestOK
  <2>6. EntryOK(w)
    BY <2>2, <2>3, <2>4 DEF EntryOK, Modes
  <2>7. QED BY <2>5, <2>6
<1>6. ListOK
  <2>1. list = Listed /\ fetch.rows = Listed /\ fetch.step = "idle"
    BY <1>3
  <2>2. QED BY <2>1, <1>4, ListedOK DEF ListOK
<1>7. DialogOK
  <2>1. /\ NoDialog.mode = "closed" /\ NoDialog.id = NoId /\ NoDialog.row = NoRow
        /\ NoDialog.form = NoForm
    BY DEF NoDialog
  <2>2. QED BY <2>1, <1>3 DEF DialogOK, Modes, FormModes, RowsOf
<1>8. CountsOK
  BY <1>3, BackOfficeAssumption DEF CountsOK
<1>9. QED BY <1>3, <1>4, <1>5, <1>6, <1>7, <1>8 DEF EntryInv, RequestsOK, EntriesOK

\* Only the server stores anything.
LEMMA ScreenStoresNothing ==
  ASSUME RequestsShape, NEW w \in Workers,
         \/ \E op, i, d : Arrive(w, op, i, d)
         \/ Dismiss(w)
  PROVE  \A v \in Workers : SavesAsEntered(v)
<1>1. ASSUME NEW op, NEW i, NEW d, Arrive(w, op, i, d)
      PROVE  \A v \in Workers : req[v].step = "write" => req'[v].step # "done"
  BY <1>1 DEF Arrive, RequestsShape
<1>2. ASSUME Dismiss(w)
      PROVE  \A v \in Workers : req[v].step = "write" => req'[v].step # "done"
  BY <1>2 DEF Dismiss, NoRequest, RequestsShape
<1>3. QED BY <1>1, <1>2, NothingStored

\* Whatever the screen does, and whatever the server does with what it sent.
LEMMA NextEntries ==
  ASSUME EntryInv, RequestsShape, DialogShape, [Next]_vars
  PROVE  EntryInv' /\ \A v \in Workers : SavesAsEntered(v)
<1>q. ASSUME req' = req
      PROVE  \A v \in Workers : SavesAsEntered(v)
  BY <1>q, NothingStored
<1>1. CASE UNCHANGED vars
  BY <1>1, <1>q, StutterOK DEF vars, recordVars
<1>2. CASE FetchReads
  BY <1>2, <1>q, FetchReadsOK DEF FetchReads, recordVars
<1>3. CASE FetchArrives
  BY <1>3, <1>q, FetchArrivesOK DEF FetchArrives, recordVars
<1>4. CASE AsideArrives
  BY <1>4, <1>q, AsideArrivesOK DEF AsideArrives, recordVars
<1>5. CASE OpenCreate
  BY <1>5, <1>q, OpenCreateOK DEF OpenCreate, Opened, recordVars
<1>6. CASE Edit
  BY <1>6, <1>q, EditOK DEF Edit, recordVars
<1>7. CASE Cancel
  BY <1>7, <1>q, CancelOK DEF Cancel, recordVars
<1>8. CASE \E i \in Ids : OpenEdit(i) \/ OpenDelete(i) \/ OpenPin(i)
  BY <1>8, <1>q, OpenEditOK, OpenDeleteOK, OpenPinOK DEF OpenEdit, OpenDelete, OpenPin, Opened, recordVars
<1>9. CASE \E w \in Workers : Submit(w) \/ SubmitPin(w) \/ ConfirmDelete(w)
  BY <1>9, SubmitOK, SubmitPinOK, DeleteOK, ScreenStoresNothing DEF Submit, SubmitPin, ConfirmDelete, Sends
<1>10. CASE \E w \in Workers : \E i \in Ids : Toggle(w, i) \/ TestProfile(w, i)
  BY <1>10, ToggleOK, TestOK, ScreenStoresNothing DEF Toggle, TestProfile, Sends
<1>11. CASE \E w \in Workers : Served(w)
  BY <1>11, ServedOK
<1>12. CASE \E w \in Workers : AnswerDone(w) \/ AnswerRefused(w) \/ OtherDone(w)
  BY <1>12, AnswerDoneOK, AnswerOK, ScreenStoresNothing DEF AnswerDone, AnswerRefused, OtherDone
<1>13. CASE \E w \in Workers : AnswerLost(w)
  BY <1>13, <1>q, AnswerLostOK DEF AnswerLost, recordVars
<1>14. CASE \E w \in Workers : OtherSends(w)
  BY <1>14, OthersOK, OthersAsk, ScreenStoresNothing
<1>15. CASE ReferredRemoved
  BY <1>15, <1>q, ReferredRemovedOK DEF ReferredRemoved, RemoveReferred
<1>16. QED
  BY <1>1, <1>2, <1>3, <1>4, <1>5, <1>6, <1>7, <1>8, <1>9, <1>10, <1>11, <1>12, <1>13, <1>14, <1>15
     DEF Next

\* Both invariants together are inductive.
LEMMA EntriesInductive ==
  EntryInv /\ RecordInv /\ DialogShape /\ [Next]_vars =>
    /\ EntryInv' /\ RecordInv' /\ DialogShape'
    /\ \A v \in Workers : SavesAsEntered(v)
<1>1. RecordInv /\ DialogShape /\ [Next]_vars => RecordInv' /\ DialogShape'
  BY NextRecords
<1>2. EntryInv /\ RecordInv /\ DialogShape /\ [Next]_vars => EntryInv' /\ \A v \in Workers : SavesAsEntered(v)
  BY NextEntries DEF RecordInv
<1>3. QED BY <1>1, <1>2

(* Whatever is typed, sent, written and fetched in whatever order, the     *)
(* rows, the list, the dialog and what is noted with every request are     *)
(* what the code gives them: for any number of records, requests and lines *)
(* of a recipe, and for quantities of any size.                            *)
THEOREM TypeCorrect == Spec => []TypeOK
<1>1. Init => EntryInv /\ RecordInv /\ DialogShape
  BY InitEntries, InitRecords
<1>2. EntryInv /\ RecordInv /\ DialogShape /\ [Next]_vars => EntryInv' /\ RecordInv' /\ DialogShape'
  BY EntriesInductive
<1>3. EntryInv => TypeOK
  <2> SUFFICES ASSUME EntryInv
               PROVE  TypeOK
    OBVIOUS
  <2>1. RecordsTypeOK
    BY DEF EntryInv, StoreOK, RequestsOK, RequestOK, Operations, RowsOf, RecordsTypeOK
  <2>2. \A i \in Ids : {list[i], fetch.rows[i]} \subseteq {NoRow} \cup Rows(kind)
    BY DEF EntryInv, ListOK, RowsOf
  <2>3. dialog.form \in FormsOf(dialog.mode)
    BY DEF EntryInv, DialogOK, FormsOf, FormOK
  <2>4. QED
    BY <2>1, <2>2, <2>3
       DEF EntryInv, ListOK, DialogOK, EntriesOK, EntryOK, CountsOK, RowsOf, Operations, TypeOK
<1>4. QED BY <1>1, <1>2, <1>3, PTL DEF Spec

(* What is stored is what was in the dialog when it was submitted, in the  *)
(* record that the dialog was opened on, and nowhere else: for every kind  *)
(* of record, any edits of the form in any order, any row that the write   *)
(* meets, any recipe, and whatever the list or the items brought meanwhile *)
(* (ProductFormDialog.tsx:160, product.service.ts:102).                    *)
THEOREM StoredAsEnteredHolds == Spec => StoredAsEntered
<1>1. Init => EntryInv /\ RecordInv /\ DialogShape
  BY InitEntries, InitRecords
<1>2. EntryInv /\ RecordInv /\ DialogShape /\ [Next]_vars =>
        /\ EntryInv' /\ RecordInv' /\ DialogShape'
        /\ [\A w \in Workers : SavesAsEntered(w)]_vars
  BY EntriesInductive
<1>3. QED BY <1>1, <1>2, PTL DEF Spec, StoredAsEntered

=============================================================================
