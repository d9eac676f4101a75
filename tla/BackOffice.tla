----------------------------- MODULE BackOffice -----------------------------
(***************************************************************************)
(* A manager at work on one list of records: the list that is shown, the   *)
(* dialog that is open on it, the requests that are under way and their    *)
(* answers; while other managers write to the same records.                *)
(* Source: the pages and workspaces of the desktop application             *)
(* (ProductsPage, CustomerWorkspace, EmployeesWorkspace, ...), their hooks *)
(* and their dialogs.                                                      *)
(*                                                                         *)
(* The list is what the last fetch brought.  A dialog works on a copy of   *)
(* the row that was clicked.  A dialog may be closed while its request is  *)
(* under way, and another one opened: the answer acts on whatever dialog   *)
(* is open by then.                                                        *)
(***************************************************************************)
EXTENDS EntryForms

CONSTANTS
  Starts,     \* [kind, rows]: the kinds of record, and what is stored at first
  MaxOpens,   \* bound: dialogs opened, and switches toggled
  MaxEdits,   \* bound: edits of the forms
  MaxOthers   \* bound: requests of other managers, and removals of what rows refer to

ASSUME BackOfficeAssumption == MaxOpens \in Nat /\ MaxEdits \in Nat /\ MaxOthers \in Nat

\* What is stored at first is what requests that did not overlap left behind; a
\* tenant has one profile.
ASSUME StartsAssumption ==
  \A s \in Starts :
    /\ s.kind \in Kinds
    /\ s.rows \in [Ids -> {NoRow} \cup Rows(s.kind)]
    /\ s.kind = "employee" => \A i, j \in Ids : i # j => ~SharePin(s.rows[i], s.rows[j])
    /\ s.kind = "fiscal" =>
         /\ \A i \in Ids : s.rows[i].life = "live" => AsTested(s.rows[i])
         /\ \A i, j \in Ids : s.rows[i].life = "live" /\ s.rows[j].life = "live" => i = j

VARIABLES
  list,      \* list[i]: row i as the list shows it, or NoRow
  fetch,     \* [step, rows]: the fetch of the list, and what it read
  aside,     \* what the dialog knows from another list
  dialog,    \* [mode, id, row, form]: the dialog that is open
  entered,   \* entered[w]: who sent the request of w, from which dialog
  settling,  \* the answered requests that wait until the list is fetched again
  opens, edits, others   \* how much of the bounds is used up

used == <<opens, edits, others>>
screenVars == <<list, fetch, aside, dialog, entered, settling>>
vars == <<recordVars, screenVars, used>>

-----------------------------------------------------------------------------
(* The list *)

NoDialog == [mode |-> "closed", id |-> NoId, row |-> NoRow, form |-> NoForm]
FormModes == {"create", "edit"}
Modes == FormModes \cup {"closed", "delete", "pin"}

Listed == [i \in Ids |-> IF Live(i) THEN row[i] ELSE NoRow]

\* invalidateQueries cancels a fetch that is under way and starts another.
Invalidated == [step |-> "asked", rows |-> list]

FetchReads ==
  /\ fetch.step = "asked"
  /\ fetch' = [step |-> "arriving", rows |-> Listed]
  /\ UNCHANGED <<recordVars, list, aside, dialog, entered, settling, used>>

\* The dialog of the profile is reset when the profile that it shows has changed.
ResetBy(rows) ==
  IF kind = "fiscal" /\ dialog.mode \in FormModes /\ rows # list
    THEN LET shown == {i \in Ids : rows[i] # NoRow}
             i == IF shown = {} THEN NoId ELSE CHOOSE i \in shown : TRUE
             r == IF shown = {} THEN NoRow ELSE rows[i]
         IN [mode |-> IF shown = {} THEN "create" ELSE "edit", id |-> i, row |-> r,
             form |-> FiscalDefaults(r)]
    ELSE dialog

\* onSubmit returns and the dialog closes itself - or what is open in its place.
ClosedBy(d, ops) ==
  IF \/ d.mode \in FormModes /\ ops \cap {"create", "update"} # {}
     \/ d.mode = "pin" /\ "pin" \in ops
     \/ d.mode = "delete" /\ "remove" \in ops
    THEN NoDialog ELSE d

FetchArrives ==
  /\ fetch.step = "arriving"
  /\ list' = fetch.rows
  /\ fetch' = [step |-> "idle", rows |-> fetch.rows]
  /\ dialog' = ClosedBy(ResetBy(fetch.rows), settling)
  /\ settling' = {}
  /\ UNCHANGED <<recordVars, aside, entered, used>>

\* Another list arrives.  The items of the inventory reset the form of a product.
AsideArrives ==
  /\ kind \in {"product", "item"}
  /\ aside' = IF kind = "product" THEN {"g"}
              ELSE {row[i].product : i \in {i \in Ids : Live(i)}} \ {Null}
  /\ aside' # aside
  /\ dialog' = IF kind = "product" /\ dialog.mode \in FormModes
                 THEN [dialog EXCEPT !.form = Defaults(dialog.row, aside')]
                 ELSE dialog
  /\ UNCHANGED <<recordVars, list, fetch, entered, settling, used>>

-----------------------------------------------------------------------------
(* Dialogs *)

\* A dialog covers the list.
Opened(mode, i, r, form) ==
  /\ dialog.mode = "closed" /\ opens < MaxOpens
  /\ dialog' = [mode |-> mode, id |-> i, row |-> r, form |-> form]
  /\ opens' = opens + 1
  /\ UNCHANGED <<recordVars, list, fetch, aside, entered, settling, edits, others>>

CategoryButtons == {"create", "edit", "delete"}
ProductButtons == {"create", "edit", "delete"}
CustomerButtons == {"create", "edit", "delete"}
SupplierButtons == {"create"}
EmployeeButtons(r) == {"create", "access", "delete"} \cup (IF Showing(r, "branch") = Blank THEN {} ELSE {"pin"})
ItemButtons == {"create"}
PurchaseButtons == {"create"}
ProfileButtons(r) ==
  IF r = NoRow THEN {"create"}
  ELSE {"edit"} \cup (IF r.status = "NOT_CONFIGURED" THEN {} ELSE {"test"})

\* What is offered beside row r, or beside the whole list.
Buttons(r) ==
  CASE kind = "category" -> CategoryButtons [] kind = "product" -> ProductButtons
    [] kind = "customer" -> CustomerButtons [] kind = "supplier" -> SupplierButtons
    [] kind = "employee" -> EmployeeButtons(r) [] kind = "item" -> ItemButtons
    [] kind = "purchase" -> PurchaseButtons [] kind = "fiscal" -> ProfileButtons(r)

Offers(i, button) == list[i] # NoRow /\ button \in Buttons(list[i])

OpenCreate ==
  /\ kind = "fiscal" => \A i \in Ids : list[i] = NoRow
  /\ "create" \in Buttons(NoRow)
  /\ Opened("create", NoId, NoRow, Defaults(NoRow, aside))

OpenEdit(i) ==
  /\ Offers(i, "edit")
  /\ Opened("edit", i, list[i], Defaults(list[i], aside))

OpenDelete(i) ==
  /\ Offers(i, "delete")
  /\ Opened("delete", i, list[i], NoForm)

OpenPin(i) ==
  /\ Offers(i, "pin")
  /\ Opened("pin", i, list[i], PinDefaults)

Edit ==
  /\ dialog.mode \in FormModes \cup {"pin"} /\ edits < MaxEdits
  /\ \E form \in Edits(dialog.form, aside) \ {dialog.form} :
       dialog' = [dialog EXCEPT !.form = form]
  /\ edits' = edits + 1
  /\ UNCHANGED <<recordVars, list, fetch, aside, entered, settling, opens, others>>

NotEntered == [by |-> "nobody", mode |-> "closed", id |-> NoId, form |-> NoForm]
Mine(w) == entered[w].by = "me"

\* isPending: until the answer came and, where onSuccess waits, the list too.
Pending(ops) == (\E w \in Workers : Mine(w) /\ req[w].op \in ops) \/ settling \cap ops # {}

Cancel ==
  /\ dialog.mode # "closed"
  /\ kind = "employee" /\ dialog.mode = "delete" => ~Pending({"remove"})
  /\ dialog' = NoDialog
  /\ UNCHANGED <<recordVars, list, fetch, aside, entered, settling, used>>

-----------------------------------------------------------------------------
(* Requests and answers *)

Sends(w, op, i, d) ==
  /\ Arrive(w, op, i, d)
  /\ entered' = [entered EXCEPT ![w] = [by |-> "me", mode |-> dialog.mode, id |-> dialog.id,
                                        form |-> dialog.form]]
  /\ UNCHANGED <<list, fetch, aside, settling>>

\* The profile is created and updated by the same request.
Submit(w) ==
  /\ dialog.mode \in FormModes /\ ~Pending({"create", "update"})
  /\ Valid(dialog.form, dialog.id, list)
  /\ Sends(w, IF kind # "fiscal" /\ dialog.mode = "edit" THEN "update" ELSE "create",
           dialog.id, Payload(dialog.form, aside))
  /\ UNCHANGED <<dialog, used>>

SubmitPin(w) ==
  /\ dialog.mode = "pin" /\ ~Pending({"pin"}) /\ Valid(dialog.form, dialog.id, list)
  /\ Sends(w, "pin", dialog.id, Payload(dialog.form, aside))
  /\ UNCHANGED <<dialog, used>>

\* The dialog of a customer closes as the button is pressed.
ConfirmDelete(w) ==
  /\ dialog.mode = "delete" /\ ~Pending({"remove"})
  /\ Sends(w, "remove", dialog.id, NoRow)
  /\ dialog' = IF kind = "customer" THEN NoDialog ELSE dialog
  /\ UNCHANGED used

\* The switch of an employee sends the opposite of what the list shows.
Toggle(w, i) ==
  /\ Offers(i, "access") /\ dialog.mode = "closed" /\ opens < MaxOpens
  /\ Sends(w, "access", i, [active |-> ~list[i].active])
  /\ opens' = opens + 1
  /\ UNCHANGED <<dialog, edits, others>>

TestProfile(w, i) ==
  /\ Offers(i, "test") /\ ~Pending({"test"}) /\ dialog.mode = "closed" /\ opens < MaxOpens
  /\ Sends(w, "test", i, NoRow)
  /\ opens' = opens + 1
  /\ UNCHANGED <<dialog, edits, others>>

\* onSuccess waits for the list, except that of the items and the purchases.
Waits == kind \notin {"item", "purchase"}

AnswerDone(w) ==
  /\ Mine(w) /\ req[w].step = "done"
  /\ Dismiss(w)
  /\ entered' = [entered EXCEPT ![w] = NotEntered]
  /\ fetch' = Invalidated
  /\ IF Waits
       THEN settling' = settling \cup {req[w].op} /\ dialog' = dialog
       ELSE settling' = settling /\ dialog' = ClosedBy(dialog, {req[w].op})
  /\ UNCHANGED <<list, aside, used>>

\* A refusal is shown, and the dialog stays as it is.
AnswerRefused(w) ==
  /\ Mine(w) /\ req[w].step = "refused"
  /\ Dismiss(w)
  /\ entered' = [entered EXCEPT ![w] = NotEntered]
  /\ UNCHANGED <<list, fetch, aside, dialog, settling, used>>

\* The connection breaks: to the manager a refusal, while the server goes on.
AnswerLost(w) ==
  /\ Mine(w) /\ others < MaxOthers
  /\ entered' = [entered EXCEPT ![w].by = "lost"]
  /\ others' = others + 1
  /\ UNCHANGED <<recordVars, list, fetch, aside, dialog, settling, opens, edits>>

-----------------------------------------------------------------------------
(* Other managers, and callers of the API without a screen *)

\* What the API allows beyond the dialogs.
ApiPayloads ==
  CASE kind = "employee" -> {[active |-> TRUE], [branch |-> "b2"]}
    [] kind = "supplier" -> {[email |-> Blank]}
    [] kind = "item" -> {[minimum |-> 1], [product |-> "p1"]}
    [] OTHER -> {}

OtherPayloads(i) ==
  IF kind \in {"category", "product", "customer"}
    THEN {Payload(f, {"g"}) :
            f \in {f \in Edits(Defaults(row[i], {"g"}), {"g"}) : Valid(f, i, Listed)}}
    ELSE ApiPayloads

\* A profile as another manager enters it, or without a provider.
ProfilePayloads ==
  LET read == IF Profiles = {} THEN {NoRow} ELSE {row[i] : i \in Profiles}
      forms == {f \in UNION {FiscalEdits(FiscalDefaults(r)) : r \in read} : FiscalValid(f)}
  IN UNION {{FiscalPayload(f), WithoutProvider(f)} : f \in forms}

OtherSends(w) ==
  /\ others < MaxOthers
  /\ \/ kind = "fiscal" /\ \E d \in ProfilePayloads : Arrive(w, "create", NoId, d)
     \/ \E i \in {i \in Ids : Live(i)} :
       \/ \E d \in OtherPayloads(i) : Arrive(w, "update", i, d)
       \/ kind = "fiscal" /\ Arrive(w, "test", i, NoRow)
       \/ kind = "employee" /\ Arrive(w, "pin", i, [pin |-> "x1"])
       \/ kind \notin {"fiscal", "purchase", "item"} /\ Arrive(w, "remove", i, NoRow)
  /\ others' = others + 1
  /\ UNCHANGED <<screenVars, opens, edits>>

OtherDone(w) ==
  /\ ~Mine(w)
  /\ Dismiss(w)
  /\ entered' = [entered EXCEPT ![w] = NotEntered]
  /\ UNCHANGED <<list, fetch, aside, dialog, settling, used>>

Served(w) == Serve(w) /\ UNCHANGED <<screenVars, used>>

ReferredRemoved ==
  /\ others < MaxOthers
  /\ \E x \in References : RemoveReferred(x)
  /\ others' = others + 1
  /\ UNCHANGED <<screenVars, opens, edits>>

-----------------------------------------------------------------------------
(* Specification *)

InitialScreen ==
  /\ gone = {} /\ doubtful = {}
  /\ req = [w \in Workers |-> NoRequest]
  /\ list = Listed
  /\ fetch = [step |-> "idle", rows |-> list]
  /\ aside = {} /\ dialog = NoDialog /\ settling = {}
  /\ entered = [w \in Workers |-> NotEntered]

Init ==
  /\ \E s \in Starts : kind = s.kind /\ row = s.rows
  /\ InitialScreen
  /\ opens = 0 /\ edits = 0 /\ others = 0

Next ==
  \/ FetchReads \/ FetchArrives \/ AsideArrives
  \/ OpenCreate \/ Edit \/ Cancel
  \/ \E i \in Ids : OpenEdit(i) \/ OpenDelete(i) \/ OpenPin(i)
  \/ \E w \in Workers :
       \/ Submit(w) \/ SubmitPin(w) \/ ConfirmDelete(w)
       \/ \E i \in Ids : Toggle(w, i) \/ TestProfile(w, i)
       \/ Served(w) \/ AnswerDone(w) \/ AnswerRefused(w) \/ AnswerLost(w)
       \/ OtherSends(w) \/ OtherDone(w)
  \/ ReferredRemoved

Spec == Init /\ [][Next]_vars

-----------------------------------------------------------------------------
(* Properties *)

FormsOf(mode) == IF mode \in FormModes \cup {"pin"} THEN Forms(mode) ELSE {NoForm}

(* Every value is of the form that the code gives it: the rows, the list,  *)
(* and what is typed into a form of the kind of record.                    *)
TypeOK ==
  /\ RecordsTypeOK
  /\ \A i \in Ids : {list[i], fetch.rows[i]} \subseteq {NoRow} \cup Rows(kind)
  /\ fetch.step \in {"idle", "asked", "arriving"}
  /\ aside \subseteq {"g", "p1"}
  /\ dialog.mode \in Modes /\ dialog.id \in Ids \cup {NoId}
  /\ dialog.row \in {NoRow} \cup Rows(kind)
  /\ dialog.form \in FormsOf(dialog.mode)
  /\ \A w \in Workers : /\ entered[w].by \in {"nobody", "me", "lost"}
                        /\ entered[w].mode \in Modes
                        /\ entered[w].form \in FormsOf(entered[w].mode)
  /\ settling \subseteq {"create", "update", "pin", "access", "remove", "test"}
  /\ opens \in 0..MaxOpens /\ edits \in 0..MaxEdits /\ others \in 0..MaxOthers

\* What the form showed as the quantity of g, in parts of its base unit.
Amount(form, g) ==
  SumFunctionOnSet([n \in DOMAIN form.lines |-> form.lines[n].quantity * Factor[form.lines[n].unit]],
                   {n \in DOMAIN form.lines : form.lines[n].ingredient = g})

LinesOf(form, g) == Cardinality({n \in DOMAIN form.lines : form.lines[n].ingredient = g})

\* In whole units, each line is less than one unit away from what was typed.
RecipeAsEntered(form, recipe) ==
  \A g \in Ingredients :
    LET n == IF form.inventoried THEN LinesOf(form, g) ELSE 0
        typed == IF form.inventoried THEN Amount(form, g) ELSE 0
    IN /\ n = 0 => recipe[g] = 0
       /\ n > 0 => recipe[g] * Grid - typed \in (1 - n * Grid)..(n * Grid - 1)

Unset == {"sku", "category", "email"}

\* A dialog opened on r again shows the form; a text that was cleared may stay.
ShowsAgain(form, r, before) ==
  \A f \in DOMAIN form \ {"dv", "lines"} :
    \/ Defaults(r, aside)[f] = form[f]
    \/ f \in Unset /\ form[f] = Blank /\ before # NoRow /\ r[f] = before[f]

DocumentAsEntered(form, document) ==
  form.number # <<>> =>
    /\ document.type = form.type /\ document.number = form.number
    /\ document.type = "NIT" =>
         document.dv \in {form.dv} \cup (IF form.dv = <<>> THEN {VerificationDigit(form.number)} ELSE {})

AsEntered(form, r, before) ==
  CASE kind \in {"category", "fiscal"} -> ShowsAgain(form, r, before)
    [] kind = "product" -> ShowsAgain(form, r, before) /\ RecipeAsEntered(form, r.recipe)
    [] kind = "customer" -> ShowsAgain(form, r, before) /\ DocumentAsEntered(form, r.document)
    [] kind = "supplier" -> /\ r.name = form.name /\ r.email = OrNull(form.email)
                            /\ DocumentAsEntered(form, r.document)
    [] kind = "employee" -> IF "pin" \in DOMAIN form THEN r.pin = form.pin
                            ELSE r.email = form.email /\ r.active = form.active
    [] kind = "item" -> \A f \in DOMAIN form \cap DOMAIN r : r[f] = form[f]
    [] kind = "purchase" -> /\ r.reference = OrNull(form.reference)
                            /\ r.total = Subtotal(form.lines) + form.tax

SavesAsEntered(w) ==
  LET i == req'[w].id IN
  req[w].step = "write" /\ req'[w].step = "done" /\ entered[w].form # NoForm =>
    /\ entered[w].mode \in {"edit", "pin"} => i = entered[w].id
    /\ \A j \in Ids \ {i} : row'[j] = row[j]
    /\ AsEntered(entered[w].form, row'[i], row[i])

(* What is stored is what the manager saw in the dialog as it was          *)
(* submitted, in the record it was opened on: whatever was edited in which *)
(* order, whichever unit the quantities were typed in, whether the list of *)
(* ingredients came before or after, and whatever others changed between   *)
(* (ProductFormDialog.tsx:160, CustomerWorkspace.tsx:51,                   *)
(* product.service.ts:102).  Only a text that is cleared may stay as it    *)
(* was: a blank is sent as undefined (ProductsPage.tsx:33).                *)
StoredAsEntered == [][\A w \in Workers : SavesAsEntered(w)]_vars

=============================================================================
