---------------------------- MODULE TableAccounts ----------------------------
(***************************************************************************)
(* The accounts of a branch's dining tables: opening an account, adding,   *)
(* changing and removing its items, charging it, and what the operations   *)
(* module does to the tables meanwhile.                                    *)
(* Source: apps/api/src/modules/sales/table-accounts.service.ts and        *)
(* table-accounts.repository.ts, operations/dining.service.ts and          *)
(* dining.repository.ts.                                                   *)
(*                                                                         *)
(* A request handler is a worker.  PostgreSQL runs at READ COMMITTED and   *)
(* the code asks for no stronger isolation: a SELECT is a step and sees    *)
(* what is committed by then, a transaction's writes appear together when  *)
(* it commits, and a row it has updated or deleted stays locked until then.*)
(* A write that only waits for its lock is one step with the statement     *)
(* after it, which depends on nothing in between.                          *)
(***************************************************************************)
EXTENDS Integers, FiniteSets, Sequences, Functions

CONSTANTS
  Workers,      \* request handlers that may run at the same time
  Tables,       \* dining tables
  Sales,        \* ids of sales rows
  Products,     \* sellable products
  Lines,        \* ids of sale_items rows
  Price,        \* Price[p]: unit price of product p
  Quantities,   \* quantities a client asks for; 0 removes a line
  MaxQuantity,  \* bound: quantities that items are added up to
  HandStatuses, \* the table statuses that are set by hand
  NoSale, NoTable, NoProduct, NoLine    \* "none" in a request

TableStatuses == {"FREE", "OCCUPIED", "PENDING_BILL", "RESERVED"}

ASSUME NoneAssumption == /\ NoSale \notin Sales
                         /\ NoTable \notin Tables
                         /\ NoProduct \notin Products
                         /\ NoLine \notin Lines
ASSUME LinesAssumption == IsFiniteSet(Lines)
ASSUME PriceAssumption == Price \in [Products -> Nat]
ASSUME QuantityAssumption == Quantities \subseteq Nat /\ MaxQuantity \in Nat
ASSUME HandAssumption == HandStatuses \subseteq TableStatuses

VARIABLES
  table,        \* table[t]: status of the row of table t, "deleted" once it is
  status,       \* status[x]: status of the row of sale x ("none": not created)
  tableOf,      \* tableOf[x]: diningTableId of sale x
  grand,        \* grand[x]: grandTotal (= subtotal: discounts and taxes are 0)
  paidTotal,    \* paidTotal[x]: paidTotal of sale x
  line,         \* line[l]: the row of line l, Unused if there is none
  payments,     \* payments[x]: amounts of the payments rows of x, in order
  invoices,     \* invoices[x]: totals of the invoices rows of x, in order
  req,          \* req[w]: the request w is serving
  (* History, read by no action: *)
  contended,    \* the sales on which two requests overlapped
  openRaced,    \* the tables on which two opens overlapped
  handSet       \* the tables whose status was last set by hand

rows == <<table, status, tableOf, grand, paidTotal, line, payments, invoices>>
vars == <<rows, req, contended, openRaced, handSet>>

-----------------------------------------------------------------------------
(* Data *)

Row(x, p, n) == [sale |-> x, product |-> p, quantity |-> n]

Unused == Row(NoSale, NoProduct, 0)

Request == [op       : {"idle", "open", "add", "edit", "charge"},
            step     : {"none", "find", "write", "begin", "commit"},
            table    : Tables \cup {NoTable},
            sale     : Sales \cup {NoSale},
            line     : Lines \cup {NoLine},
            product  : Products \cup {NoProduct},
            quantity : Nat,    \* the new quantity of the line
            total    : Nat,    \* the grand total the transaction read or computed
            paid     : Nat,    \* the paidTotal it read
            amount   : Nat]    \* the amount to pay

Idle == [op |-> "idle", step |-> "none", table |-> NoTable, sale |-> NoSale,
         line |-> NoLine, product |-> NoProduct, quantity |-> 0, total |-> 0,
         paid |-> 0, amount |-> 0]

LinesOf(rowOf, x) == {l \in Lines : rowOf[l].sale = x}

\* The aggregate of lineTotal over the lines of x, read from the rows rowOf.
LineTotal(row) == row.quantity * Price[row.product]

Total(rowOf, x) == SumFunction([l \in LinesOf(rowOf, x) |-> LineTotal(rowOf[l])])

TotalWith(x, l, row) == Total([line EXCEPT ![l] = row], x)

LinesTotal(x) == Total(line, x)

DraftsOn(t) == {x \in Sales : status[x] = "DRAFT" /\ tableOf[x] = t}

Others(w) == {req[v] : v \in Workers \ {w}}

\* Line l is locked by a transaction that has written it and not yet committed.
Locked(l) == \E v \in Workers : req[v].step = "commit" /\ req[v].line = l

\* The line id a new row gets is not used and in no request.
FreshLine(l) == line[l] = Unused /\ \A v \in Workers : req[v].line # l

\* Mutant: a line of quantity 0 is kept.
NewRowKept(w) == Row(req[w].sale, req[w].product, req[w].quantity)

\* The new row of the line that worker w writes: quantity 0 deletes it.
NewRow(w) == IF req[w].quantity = 0 THEN Unused
             ELSE Row(req[w].sale, req[w].product, req[w].quantity)

Answered(w) == req' = [req EXCEPT ![w] = Idle]

\* A request starts on sale x; another one on x may still be in flight.
Contend(w, x) == contended' = contended \cup ({r.sale : r \in Others(w)} \cap {x})

-----------------------------------------------------------------------------
Init ==
  /\ table = [t \in Tables |-> "FREE"]
  /\ status = [x \in Sales |-> "none"]
  /\ tableOf = [x \in Sales |-> NoTable]
  /\ grand = [x \in Sales |-> 0]
  /\ paidTotal = [x \in Sales |-> 0]
  /\ line = [l \in Lines |-> Unused]
  /\ payments = [x \in Sales |-> <<>>]
  /\ invoices = [x \in Sales |-> <<>>]
  /\ req = [w \in Workers |-> Idle]
  /\ contended = {}
  /\ openRaced = {}
  /\ handSet = {}

-----------------------------------------------------------------------------
(* openAccount: look for a draft of the table, then create one.            *)

\* Bounds: an open or an add starts only while an id is left for its row.
SaleLeft == Cardinality({x \in Sales : status[x] = "none"})
              > Cardinality({w \in Workers : req[w].op = "open"})
LineLeft == Cardinality({l \in Lines : FreshLine(l)})
              > Cardinality({w \in Workers : req[w].op = "add" /\ req[w].line = NoLine})

OpenStart(w, t) ==
  /\ req[w] = Idle
  /\ table[t] # "deleted"
  /\ SaleLeft
  /\ req' = [req EXCEPT ![w] = [Idle EXCEPT !.op = "open", !.step = "commit", !.table = t]]
  /\ openRaced' = openRaced \cup ({r.table : r \in Others(w)} \cap {t})
  /\ UNCHANGED <<rows, contended, handSet>>

\* Mutant: a draft that exists is not looked for.
OpenCheckAnew(w, t) == OpenStart(w, t)

OpenCheck(w, t) == DraftsOn(t) = {} /\ OpenStart(w, t)

\* The table is not found, or the account that exists is returned.
OpenNothing(w, t) ==
  /\ req[w] = Idle
  /\ table[t] = "deleted" \/ DraftsOn(t) # {}
  /\ UNCHANGED vars

OpenCommit(w) ==
  LET t == req[w].table IN
  /\ req[w].op = "open"
  /\ \E x \in Sales :
       /\ status[x] = "none"
       /\ status' = [status EXCEPT ![x] = "DRAFT"]
       /\ tableOf' = [tableOf EXCEPT ![x] = t]
  /\ table' = [table EXCEPT ![t] = IF @ = "deleted" THEN @ ELSE "OCCUPIED"]
  /\ handSet' = handSet \ {t}
  /\ Answered(w)
  /\ UNCHANGED <<grand, paidTotal, line, payments, invoices, contended, openRaced>>

-----------------------------------------------------------------------------
(* addItem: read the sale; in a transaction find a line of the product,    *)
(* write it, recalculate the sale's totals and commit.                     *)

\* Bound: every quantity of sale x, written or about to be, is below
\* MaxQuantity with one more for each add that has yet to find its line.
QuantityLeft(x) ==
  LET serving == {w \in Workers : req[w].sale = x}
      finding == {w \in serving : req[w].step = "find"}
      held == {line[l].quantity : l \in LinesOf(line, x)}
                \cup {req[w].quantity : w \in serving \ finding}
  IN \A q \in held \cup {0} : q + Cardinality(finding) < MaxQuantity

AddCheck(w, x, p, n) ==
  /\ req[w] = Idle
  /\ status[x] = "DRAFT"
  /\ n > 0
  /\ LineLeft /\ QuantityLeft(x)
  /\ req' = [req EXCEPT ![w] = [Idle EXCEPT !.op = "add", !.step = "find", !.sale = x,
                                            !.product = p, !.quantity = n]]
  /\ Contend(w, x)
  /\ UNCHANGED <<rows, openRaced, handSet>>

\* The lines of the product that worker w adds.
Existing(w) == {l \in LinesOf(line, req[w].sale) : line[l].product = req[w].product}

AddFindExisting(w) ==
  /\ req[w].op = "add"
  /\ req[w].step = "find"
  /\ \E l \in Existing(w) :
       req' = [req EXCEPT ![w] = [@ EXCEPT
              !.step = "write", !.line = l, !.quantity = req[w].quantity + line[l].quantity]]
  /\ UNCHANGED <<rows, contended, openRaced, handSet>>

\* Mutant: the line of the product is not looked for.
AddFindNoneAnyway(w) ==
  /\ req[w].op = "add"
  /\ req[w].step = "find"
  /\ req' = [req EXCEPT ![w] = [@ EXCEPT !.step = "write"]]
  /\ UNCHANGED <<rows, contended, openRaced, handSet>>

AddFindNone(w) ==
  /\ req[w].op = "add"
  /\ req[w].step = "find"
  /\ Existing(w) = {}
  /\ req' = [req EXCEPT ![w] = [@ EXCEPT !.step = "write"]]
  /\ UNCHANGED <<rows, contended, openRaced, handSet>>

-----------------------------------------------------------------------------
(* updateItem and removeItem (quantity 0): read the sale, find the line in *)
(* a transaction, write it, recalculate and commit.  What is read of the   *)
(* line never changes, so the two reads are one step: a line that is       *)
(* deleted between them fails the write instead.                           *)

\* Mutant: the items of a closed account can be edited.
EditCheckAnyStatus(w, l, n) ==
  LET x == line[l].sale IN
  /\ req[w] = Idle
  /\ line[l] # Unused
  /\ req' = [req EXCEPT ![w] = [Idle EXCEPT !.op = "edit", !.step = "write", !.sale = x,
                                            !.line = l, !.product = line[l].product,
                                            !.quantity = n]]
  /\ Contend(w, x)
  /\ UNCHANGED <<rows, openRaced, handSet>>

EditCheck(w, l, n) ==
  LET x == line[l].sale IN
  /\ req[w] = Idle
  /\ line[l] # Unused
  /\ status[x] = "DRAFT"
  /\ req' = [req EXCEPT ![w] = [Idle EXCEPT !.op = "edit", !.step = "write", !.sale = x,
                                            !.line = l, !.product = line[l].product,
                                            !.quantity = n]]
  /\ Contend(w, x)
  /\ UNCHANGED <<rows, openRaced, handSet>>

\* Write the line and add up the lines of the sale (recalculateAndFind).
LineWrite(w) ==
  /\ req[w].step = "write"
  /\ \E l \in Lines :
       /\ IF req[w].line = NoLine
            THEN FreshLine(l)
            ELSE l = req[w].line /\ line[l] # Unused /\ ~Locked(l)
       /\ req' = [req EXCEPT ![w] = [@ EXCEPT
                    !.step = "commit", !.line = l, !.total = TotalWith(req[w].sale, l, NewRow(w))]]
  /\ UNCHANGED <<rows, contended, openRaced, handSet>>

\* Mutant: only an item that is added is known to be missing.
LineGoneForAdds(w) ==
  /\ req[w].op = "add"
  /\ req[w].step = "write"
  /\ req[w].line # NoLine
  /\ line[req[w].line] = Unused
  /\ Answered(w)
  /\ UNCHANGED <<rows, contended, openRaced, handSet>>

\* The line was deleted meanwhile: the write fails, the transaction rolls back.
LineGone(w) ==
  /\ req[w].step = "write"
  /\ req[w].line # NoLine
  /\ line[req[w].line] = Unused
  /\ Answered(w)
  /\ UNCHANGED <<rows, contended, openRaced, handSet>>

\* Mutant: the totals of the sale are not recalculated.
LineCommitNoTotals(w) ==
  /\ req[w].op \in {"add", "edit"}
  /\ req[w].step = "commit"
  /\ line' = [line EXCEPT ![req[w].line] = NewRow(w)]
  /\ Answered(w)
  /\ UNCHANGED <<table, status, tableOf, grand, paidTotal, payments, invoices,
                 contended, openRaced, handSet>>

LineCommit(w) ==
  /\ req[w].op \in {"add", "edit"}
  /\ req[w].step = "commit"
  /\ line' = [line EXCEPT ![req[w].line] = NewRow(w)]
  /\ grand' = [grand EXCEPT ![req[w].sale] = req[w].total]
  /\ Answered(w)
  /\ UNCHANGED <<table, status, tableOf, paidTotal, payments, invoices,
                 contended, openRaced, handSet>>

-----------------------------------------------------------------------------
(* chargeAccount: the service reads the sale and fixes the amount; the     *)
(* transaction reads the sale again, then writes the payment, the invoice, *)
(* the closed sale and the free table.  The update of the sale matches     *)
(* only a row still in DRAFT; the rest is written anyway.                  *)

ChargeCheck(w, x) ==
  /\ req[w] = Idle
  /\ status[x] = "DRAFT"
  /\ LinesOf(line, x) # {}
  /\ grand[x] - paidTotal[x] > 0
  /\ req' = [req EXCEPT ![w] = [Idle EXCEPT !.op = "charge", !.step = "begin", !.sale = x,
                                            !.amount = grand[x] - paidTotal[x]]]
  /\ Contend(w, x)
  /\ UNCHANGED <<rows, openRaced, handSet>>

ChargeBegin(w) ==
  LET x == req[w].sale IN
  /\ req[w].op = "charge"
  /\ req[w].step = "begin"
  /\ status[x] = "DRAFT"
  /\ req' = [req EXCEPT ![w] = [@ EXCEPT !.step = "commit", !.total = grand[x],
                                         !.paid = paidTotal[x]]]
  /\ UNCHANGED <<rows, contended, openRaced, handSet>>

\* ACCOUNT_NOT_FOUND at the second read; or, after it, no open cash session or
\* not enough stock (both live in modules of their own).
ChargeRefused(w) ==
  /\ req[w].op = "charge"
  /\ req[w].step = "begin" => status[req[w].sale] # "DRAFT"
  /\ Answered(w)
  /\ UNCHANGED <<rows, contended, openRaced, handSet>>

\* Mutant: the payment is left to be registered by another request.
ChargeCommitUnpaid(w, requiresInvoice) ==
  LET x == req[w].sale
      t == tableOf[x]
  IN
  /\ req[w].op = "charge"
  /\ req[w].step = "commit"
  /\ invoices' = [invoices EXCEPT ![x] = IF requiresInvoice THEN Append(@, req[w].total) ELSE @]
  /\ status' = [status EXCEPT ![x] = "CLOSED"]
  /\ table' = [table EXCEPT ![t] = IF @ = "deleted" THEN @ ELSE "FREE"]
  /\ handSet' = handSet \ {t}
  /\ Answered(w)
  /\ UNCHANGED <<tableOf, grand, line, paidTotal, payments, contended, openRaced>>

\* Mutant: the sale is closed whatever its status is.
ChargeCommitAnyStatus(w, requiresInvoice) ==
  LET x == req[w].sale
      t == tableOf[x]
  IN
  /\ req[w].op = "charge"
  /\ req[w].step = "commit"
  /\ payments' = [payments EXCEPT ![x] = Append(@, req[w].amount)]
  /\ invoices' = [invoices EXCEPT ![x] = IF requiresInvoice THEN Append(@, req[w].total) ELSE @]
  /\ status' = [status EXCEPT ![x] = "CLOSED"]
  /\ paidTotal' = [paidTotal EXCEPT ![x] = req[w].paid + req[w].amount]
  /\ table' = [table EXCEPT ![t] = IF @ = "deleted" THEN @ ELSE "FREE"]
  /\ handSet' = handSet \ {t}
  /\ Answered(w)
  /\ UNCHANGED <<tableOf, grand, line, contended, openRaced>>

\* Mutant: the table is left as it is.
ChargeCommitKeepsTable(w, requiresInvoice) ==
  LET x == req[w].sale
      t == tableOf[x]
  IN
  /\ req[w].op = "charge"
  /\ req[w].step = "commit"
  /\ payments' = [payments EXCEPT ![x] = Append(@, req[w].amount)]
  /\ invoices' = [invoices EXCEPT ![x] = IF requiresInvoice THEN Append(@, req[w].total) ELSE @]
  /\ status' = [status EXCEPT ![x] = "CLOSED"]
  /\ paidTotal' = [paidTotal EXCEPT ![x] = req[w].paid + req[w].amount]
  /\ Answered(w)
  /\ UNCHANGED <<table, tableOf, grand, line, contended, openRaced, handSet>>

ChargeCommit(w, requiresInvoice) ==
  LET x == req[w].sale
      t == tableOf[x]
  IN
  /\ req[w].op = "charge"
  /\ req[w].step = "commit"
  /\ payments' = [payments EXCEPT ![x] = Append(@, req[w].amount)]
  /\ invoices' = [invoices EXCEPT ![x] = IF requiresInvoice THEN Append(@, req[w].total) ELSE @]
  /\ IF status[x] = "DRAFT"
       THEN /\ status' = [status EXCEPT ![x] = "CLOSED"]
            /\ paidTotal' = [paidTotal EXCEPT ![x] = req[w].paid + req[w].amount]
       ELSE UNCHANGED <<status, paidTotal>>
  /\ table' = [table EXCEPT ![t] = IF @ = "deleted" THEN @ ELSE "FREE"]
  /\ handSet' = handSet \ {t}
  /\ Answered(w)
  /\ UNCHANGED <<tableOf, grand, line, contended, openRaced>>

\* An item or a charge of a closed account, or a charge of an empty one.
AccountRejected(w) ==
  /\ req[w] = Idle
  /\ \E x \in Sales : \/ status[x] = "CLOSED"
                      \/ status[x] = "DRAFT" /\ LinesOf(line, x) = {}
  /\ UNCHANGED vars

-----------------------------------------------------------------------------
(* The operations module.  Each of these writes is one statement, and none *)
(* looks at the sales of the table.                                        *)

\* updateTableStatus
SetTableStatus(t, s) ==
  /\ table[t] # "deleted"
  /\ table' = [table EXCEPT ![t] = s]
  /\ handSet' = handSet \cup {t}
  /\ UNCHANGED <<status, tableOf, grand, paidTotal, line, payments, invoices,
                 req, contended, openRaced>>

\* softDeleteTable
DeleteTable(t) ==
  /\ table[t] # "deleted"
  /\ table' = [table EXCEPT ![t] = "deleted"]
  /\ UNCHANGED <<status, tableOf, grand, paidTotal, line, payments, invoices,
                 req, contended, openRaced, handSet>>

-----------------------------------------------------------------------------
\* The steps of a request that is being served.
Serve(w) ==
  \/ OpenCommit(w)
  \/ AddFindExisting(w)
  \/ AddFindNone(w)
  \/ LineWrite(w)
  \/ LineGone(w)
  \/ LineCommit(w)
  \/ ChargeBegin(w)
  \/ ChargeRefused(w)
  \/ \E requiresInvoice \in BOOLEAN : ChargeCommit(w, requiresInvoice)

Next ==
  \/ \E w \in Workers :
       \/ \E t \in Tables : OpenCheck(w, t) \/ OpenNothing(w, t)
       \/ \E x \in Sales, p \in Products, n \in Quantities : AddCheck(w, x, p, n)
       \/ \E l \in Lines, n \in Quantities : EditCheck(w, l, n)
       \/ \E x \in Sales : ChargeCheck(w, x)
       \/ AccountRejected(w)
       \/ Serve(w)
  \/ \E t \in Tables : DeleteTable(t) \/ \E s \in HandStatuses : SetTableStatus(t, s)

Spec == Init /\ [][Next]_vars

\* A handler is never abandoned, and PostgreSQL grants a row lock in the order
\* it was asked for: whoever waits for a line gets it, although others may
\* lock it first.
Fairness == \A w \in Workers : WF_vars(Serve(w)) /\ SF_vars(LineWrite(w))

FairSpec == Spec /\ Fairness

-----------------------------------------------------------------------------
(* Properties *)

TypeOK ==
  /\ table \in [Tables -> TableStatuses \cup {"deleted"}]
  /\ status \in [Sales -> {"none", "DRAFT", "CLOSED"}]
  /\ tableOf \in [Sales -> Tables \cup {NoTable}]
  /\ grand \in [Sales -> Nat]
  /\ paidTotal \in [Sales -> Nat]
  /\ line \in [Lines -> [sale : Sales, product : Products, quantity : Nat \ {0}] \cup {Unused}]
  /\ payments \in [Sales -> Seq(Nat)]
  /\ invoices \in [Sales -> Seq(Nat)]
  /\ req \in [Workers -> Request]
  /\ contended \subseteq Sales
  /\ openRaced \subseteq Tables
  /\ handSet \subseteq Tables

\* The grandTotal of an account is the sum of its lines, while it is open and
\* for good once it is closed, unless two requests on it overlapped: each edit
\* adds up the lines that are committed when it has written its own.
TotalsExact == \A x \in Sales \ contended : grand[x] = LinesTotal(x)

\* An account whose requests never overlapped is, once closed, paid by exactly
\* one payment of its grandTotal, which is its paidTotal, and invoiced for that
\* total if at all.
PaidOnce ==
  \A x \in Sales \ contended :
    status[x] = "CLOSED" =>
      /\ payments[x] = <<grand[x]>>
      /\ paidTotal[x] = grand[x]
      /\ invoices[x] \in {<<>>, <<grand[x]>>}

\* Whatever overlaps, an account has payments exactly when it is closed, it was
\* never worth nothing, its paidTotal is the first of its payments, and there
\* are no more invoices than payments.
PaymentsCloseAccounts ==
  \A x \in Sales :
    /\ payments[x] # <<>> <=> status[x] = "CLOSED"
    /\ paidTotal[x] = IF payments[x] = <<>> THEN 0 ELSE Head(payments[x])
    /\ \A i \in DOMAIN payments[x] : payments[x][i] > 0
    /\ Len(invoices[x]) <= Len(payments[x])

\* A table has at most one open account, unless two opens of it overlapped.
OneDraftPerTable ==
  \A t \in Tables \ openRaced : \A x, y \in DraftsOn(t) : x = y

\* A table shows OCCUPIED exactly while it has an open account, unless its
\* status was set by hand since, two opens of it overlapped, or an account of
\* it was charged by overlapping requests: the late charge frees the table.
TableShowsAccount ==
  \A t \in Tables :
    \/ table[t] = "deleted"
    \/ t \in handSet \cup openRaced
    \/ \E x \in contended : tableOf[x] = t
    \/ table[t] = (IF DraftsOn(t) = {} THEN "FREE" ELSE "OCCUPIED")

\* An account shows each product on one line, unless two requests on it
\* overlapped: addItem looks for the line before it inserts one.
OneLinePerProduct ==
  \A x \in Sales \ contended : \A k, l \in LinesOf(line, x) :
    line[k].product = line[l].product => k = l

FrozenStep ==
  \A x \in Sales :
    status[x] = "CLOSED" =>
      /\ status'[x] = "CLOSED"
      /\ tableOf'[x] = tableOf[x]
      /\ paidTotal'[x] = paidTotal[x]
      /\ x \notin contended' =>
           /\ grand'[x] = grand[x]
           /\ payments'[x] = payments[x]
           /\ invoices'[x] = invoices[x]
           /\ \A l \in Lines : line[l].sale = x \/ line'[l].sale = x => line'[l] = line[l]

\* No step reopens a closed account or changes what it was paid, and none
\* touches anything of one whose requests never overlapped.
ClosedAccountFrozen == [][FrozenStep]_vars

\* Every request is answered: no handler waits for a line forever.
RequestsAnswered == \A w \in Workers : req[w].op # "idle" ~> req[w].op = "idle"

\* prisma/schema.prisma, model Sale: "Closed sales are immutable except via
\* cancellation." (Nothing in the code cancels a sale.)  Stated of the items.
ClosedSalesImmutable ==
  [][\A x \in Sales : status[x] = "CLOSED" =>
       \A l \in Lines : line[l].sale = x \/ line'[l].sale = x => line'[l] = line[l]]_vars

\* table-accounts.service.ts answers a charge of a closed account with "This
\* table account is already closed."  Stated of the payments: no second one.
ChargedAtMostOnce == \A x \in Sales : Len(payments[x]) <= 1

=============================================================================
