------------------------ MODULE TableAccounts_proofs ------------------------
(***************************************************************************)
(* Theorems about TableAccounts, for any number of workers, tables, sales, *)
(* products and lines.                                                     *)
(***************************************************************************)
EXTENDS TableAccounts, SumTheorems, TLAPS

-----------------------------------------------------------------------------
(* The inductive invariant *)

\* What the fields of a request hold, by the operation it serves.
Shaped(r) ==
  /\ r.op = "idle" => /\ r.step = "none" /\ r.table = NoTable
                      /\ r.sale = NoSale /\ r.line = NoLine
  /\ r.op = "open" => /\ r.step = "commit" /\ r.table \in Tables
                      /\ r.sale = NoSale /\ r.line = NoLine
  /\ r.op \in {"add", "edit", "charge"} => r.table = NoTable /\ r.sale \in Sales
  /\ r.op \in {"add", "edit"} => r.product \in Products
  /\ r.op = "add" => /\ r.step \in {"find", "write", "commit"}
                     /\ r.step = "find" => r.line = NoLine
                     /\ r.step = "commit" => r.line \in Lines
                     /\ r.quantity > 0
  /\ r.op = "edit" => r.step \in {"write", "commit"} /\ r.line \in Lines
  /\ r.op = "charge" => /\ r.step \in {"begin", "commit"} /\ r.line = NoLine
                        /\ r.amount > 0

RequestShape == \A w \in Workers : Shaped(req[w])

\* Requests and lines refer to sales that exist, and these have a table.
SalesExist ==
  /\ \A w \in Workers : req[w].sale \in Sales => status[req[w].sale] # "none"
  /\ \A x \in contended : status[x] # "none"
  /\ \A x \in Sales : status[x] # "none" => tableOf[x] \in Tables

\* Two requests at work on one sale have marked it contended.
SaleAlone ==
  \A w, v \in Workers :
    w # v /\ req[w].sale = req[v].sale /\ req[w].sale \in Sales => req[w].sale \in contended

\* The line a request writes holds an item of its sale and product, or nothing.
LineOwned ==
  \A w \in Workers :
    LET r == req[w] IN
    r.line \in Lines =>
      \/ line[r.line] = Unused
      \/ line[r.line].sale = r.sale /\ line[r.line].product = r.product

\* Two requests write the same line only for the same sale and product.
LinesApart ==
  \A w, v \in Workers :
    req[w].line = req[v].line /\ req[w].line \in Lines =>
      req[w].sale = req[v].sale /\ req[w].product = req[v].product

\* The total that an uncontended edit will write is the one its line will make.
TotalCurrent ==
  \A w \in Workers :
    LET r == req[w] IN
    r.op \in {"add", "edit"} /\ r.step = "commit" /\ r.sale \notin contended =>
      r.total = TotalWith(r.sale, r.line, NewRow(w))

\* What a charge has read: no payment before it and, unless contended, the
\* current total of an open account.
ChargeCurrent ==
  \A w \in Workers :
    LET r == req[w] IN
    r.op = "charge" =>
      /\ r.step = "commit" => r.paid = 0
      /\ r.sale \notin contended =>
           /\ status[r.sale] = "DRAFT"
           /\ r.amount = grand[r.sale]
           /\ r.step = "commit" => r.total = grand[r.sale]

\* No request is left on an account that was closed without an overlap.
ClosedQuiet ==
  \A x \in Sales \ contended :
    status[x] = "CLOSED" => \A w \in Workers : req[w].sale # x

\* The line that an uncontended edit writes is the only one of its product.
ProductApart ==
  \A w \in Workers :
    LET r == req[w] IN
    r.op \in {"add", "edit"} /\ r.step \in {"write", "commit"} /\ r.sale \notin contended =>
      \A l \in LinesOf(line, r.sale) : line[l].product = r.product => l = r.line

\* Unless two opens of a table overlapped, it has no account while one is opened.
OpenAlone ==
  \A w \in Workers, t \in Tables :
    req[w].op = "open" /\ req[w].table = t /\ t \notin openRaced =>
      /\ DraftsOn(t) = {}
      /\ \A v \in Workers \ {w} : req[v].table # t

-----------------------------------------------------------------------------
(* Totals *)

\* The aggregate of typed lines is a natural number.
LEMMA TotalIsNat ==
  ASSUME NEW x \in Sales,
         NEW rowOf \in [Lines -> [sale : Sales, product : Products, quantity : Nat \ {0}]
                                   \cup {Unused}]
  PROVE  Total(rowOf, x) \in Nat
<1> DEFINE lines == LinesOf(rowOf, x)
           amount == [l \in lines |-> LineTotal(rowOf[l])]
<1>1. IsFiniteSet(lines)
  BY LinesAssumption, FS_Subset DEF LinesOf
<1>2. ASSUME NEW l \in lines
      PROVE  LineTotal(rowOf[l]) \in Nat
  <2>1. rowOf[l] # Unused
    BY NoneAssumption DEF LinesOf, Unused, Row
  <2>2. rowOf[l].quantity \in Nat /\ rowOf[l].product \in Products
    BY <2>1 DEF LinesOf
  <2>3. QED
    BY <2>2, PriceAssumption DEF LineTotal
<1>3. amount \in [lines -> Nat]
  BY <1>2
<1>4. Total(rowOf, x) = SumFunctionOnSet(amount, lines)
  BY DEF Total, SumFunction
<1> HIDE DEF lines, amount
<1>5. QED
  BY <1>1, <1>3, <1>4, SumIsNat

\* The aggregate over no lines is 0.
LEMMA TotalOfNone ==
  ASSUME NEW rowOf, NEW x, LinesOf(rowOf, x) = {}
  PROVE  Total(rowOf, x) = 0
<1>1. Total(rowOf, x) = SumFunctionOnSet([l \in {} |-> LineTotal(rowOf[l])], {})
  BY DEF Total, SumFunction
<1>2. QED
  BY <1>1, SumOfNothing

\* The total of a sale depends on the lines of that sale only.
LEMMA TotalLocal ==
  ASSUME NEW rowOf, NEW other, NEW x,
         \A l \in Lines : rowOf[l].sale = x \/ other[l].sale = x => rowOf[l] = other[l]
  PROVE  Total(rowOf, x) = Total(other, x)
<1>1. LinesOf(rowOf, x) = LinesOf(other, x)
  BY DEF LinesOf
<1>2. [l \in LinesOf(rowOf, x) |-> LineTotal(rowOf[l])]
        = [l \in LinesOf(other, x) |-> LineTotal(other[l])]
  BY <1>1 DEF LinesOf
<1>3. QED
  BY <1>2 DEF Total

-----------------------------------------------------------------------------
(* Types *)

Types == TypeOK /\ RequestShape /\ SalesExist

\* Before the first request there are no rows and every worker is idle.
LEMMA InitTypes == Init => Types
<1> SUFFICES ASSUME Init
             PROVE  Types
  OBVIOUS
<1> USE DEF Init
<1>1. \A w \in Workers : req[w] = Idle
  OBVIOUS
<1>2. Idle \in Request
  BY DEF Idle, Request
<1>3. TypeOK
  BY <1>2 DEF TypeOK, TableStatuses
<1>4. RequestShape /\ SalesExist
  BY <1>1, NoneAssumption DEF RequestShape, Shaped, SalesExist, Idle
<1>5. QED
  BY <1>3, <1>4 DEF Types

\* The row that a request writes is typed.
LEMMA NewRowTyped ==
  ASSUME Types, NEW w \in Workers, req[w].op \in {"add", "edit"}
  PROVE  NewRow(w) \in [sale : Sales, product : Products, quantity : Nat \ {0}] \cup {Unused}
<1>1. req[w].sale \in Sales /\ req[w].product \in Products /\ req[w].quantity \in Nat
  BY DEF Types, TypeOK, RequestShape, Shaped, Request
<1>2. QED
  BY <1>1 DEF NewRow, Row, Unused

\* A statement that only reads leaves the state typed if its request is.
LEMMA OneRequest ==
  ASSUME Types, NEW w \in Workers, NEW r \in Request, Shaped(r),
         r.sale \in Sales => status[r.sale] # "none",
         req' = [req EXCEPT ![w] = r],
         UNCHANGED <<rows, handSet>>,
         contended' \subseteq contended \cup ({r.sale} \cap Sales),
         openRaced' \subseteq openRaced \cup ({r.table} \cap Tables)
  PROVE  Types'
<1>1. req' \in [Workers -> Request] /\ \A v \in Workers : req'[v] = IF v = w THEN r ELSE req[v]
  BY DEF Types, TypeOK
<1>2. TypeOK'
  BY <1>1 DEF Types, TypeOK, rows
<1>3. RequestShape'
  BY <1>1 DEF Types, RequestShape
<1>4. SalesExist'
  BY <1>1 DEF Types, SalesExist, TypeOK, rows
<1>5. QED
  BY <1>2, <1>3, <1>4 DEF Types

\* Every statement of the handlers keeps the rows typed and leaves each request
\* with the fields its next statement needs.
LEMMA NextTypes == Types /\ [Next]_vars => Types'
<1> SUFFICES ASSUME Types, [Next]_vars
             PROVE  Types'
  OBVIOUS
<1> USE NoneAssumption, QuantityAssumption DEF Request, Idle, Shaped
<1>0. /\ TypeOK /\ RequestShape /\ SalesExist
      /\ \A w \in Workers : req[w] \in Request /\ Shaped(req[w])
      /\ Idle \in Request
  BY DEF Types, TypeOK, RequestShape
<1>a. ASSUME NEW w \in Workers, Answered(w), UNCHANGED <<rows, contended, openRaced, handSet>>
      PROVE  Types'
  BY <1>0, <1>a, OneRequest DEF Answered
<1>1. CASE UNCHANGED vars
  BY <1>1 DEF vars, rows, Types, TypeOK, RequestShape, SalesExist
<1>2. ASSUME NEW w \in Workers, NEW t \in Tables, OpenCheck(w, t)
      PROVE  Types'
  <2> DEFINE r == [Idle EXCEPT !.op = "open", !.step = "commit", !.table = t]
  <2>1. r \in Request /\ Shaped(r) /\ r.sale = NoSale /\ r.table = t
    BY <1>0
  <2>2. req' = [req EXCEPT ![w] = r] /\ UNCHANGED <<rows, handSet, contended>>
    BY <1>2 DEF OpenCheck, OpenStart
  <2>3. openRaced' \subseteq openRaced \cup ({r.table} \cap Tables)
    BY <1>2, <2>1 DEF OpenCheck, OpenStart
  <2> HIDE DEF r
  <2>4. QED
    BY <2>1, <2>2, <2>3, OneRequest
<1>3. ASSUME NEW w \in Workers, NEW t \in Tables, OpenNothing(w, t)
      PROVE  Types'
  BY <1>1, <1>3 DEF OpenNothing
<1>4. ASSUME NEW w \in Workers, OpenCommit(w)
      PROVE  Types'
  BY <1>0, <1>4, SMTT(30)
     DEF OpenCommit, TableStatuses, Answered, Types, TypeOK, RequestShape, SalesExist
<1>5. ASSUME NEW w \in Workers, NEW x \in Sales, NEW p \in Products, NEW n \in Quantities,
             AddCheck(w, x, p, n)
      PROVE  Types'
  <2> DEFINE r == [Idle EXCEPT !.op = "add", !.step = "find", !.sale = x,
                               !.product = p, !.quantity = n]
  <2>1. r \in Request /\ Shaped(r) /\ r.sale = x /\ status[x] # "none"
    BY <1>0, <1>5 DEF AddCheck
  <2>2. req' = [req EXCEPT ![w] = r] /\ UNCHANGED <<rows, openRaced, handSet>>
    BY <1>5 DEF AddCheck
  <2>3. contended' \subseteq contended \cup ({r.sale} \cap Sales)
    BY <1>5, <2>1 DEF AddCheck, Contend
  <2> HIDE DEF r
  <2>4. QED
    BY <2>1, <2>2, <2>3, OneRequest
<1>6. ASSUME NEW w \in Workers, AddFindExisting(w)
      PROVE  Types'
  <2> DEFINE sum(l) == req[w].quantity + line[l].quantity
             r(l) == [req[w] EXCEPT !.step = "write", !.line = l, !.quantity = sum(l)]
  <2>1. PICK l \in Existing(w) : req' = [req EXCEPT ![w] = r(l)]
    BY <1>6 DEF AddFindExisting
  <2>a. l \in Lines /\ line[l].quantity \in Nat
    BY <1>0 DEF Existing, LinesOf, TypeOK, Unused, Row
  <2>b. req[w].op = "add" /\ req[w].quantity \in Nat /\ req[w].quantity > 0
    BY <1>0, <1>6 DEF AddFindExisting
  <2>2. l \in Lines /\ req[w].op = "add" /\ sum(l) \in Nat /\ sum(l) > 0
    BY <2>a, <2>b
  <2> HIDE DEF sum
  <2>3. r(l) \in Request /\ Shaped(r(l)) /\ r(l).sale = req[w].sale
    BY <1>0, <2>2
  <2>4. UNCHANGED <<rows, contended, openRaced, handSet>>
    BY <1>6 DEF AddFindExisting
  <2>5. r(l).sale \in Sales => status[r(l).sale] # "none"
    BY <1>0, <2>3 DEF SalesExist
  <2> HIDE DEF r
  <2>6. QED
    BY <2>1, <2>3, <2>4, <2>5, OneRequest
<1>7. ASSUME NEW w \in Workers, AddFindNone(w)
      PROVE  Types'
  <2> DEFINE r == [req[w] EXCEPT !.step = "write"]
  <2>1. r \in Request /\ Shaped(r) /\ r.sale = req[w].sale
    BY <1>0, <1>7 DEF AddFindNone
  <2>2. req' = [req EXCEPT ![w] = r] /\ UNCHANGED <<rows, contended, openRaced, handSet>>
    BY <1>7 DEF AddFindNone
  <2>3. r.sale \in Sales => status[r.sale] # "none"
    BY <1>0, <2>1 DEF SalesExist
  <2> HIDE DEF r
  <2>4. QED
    BY <2>1, <2>2, <2>3, OneRequest
<1>8. ASSUME NEW w \in Workers, NEW l \in Lines, NEW n \in Quantities, EditCheck(w, l, n)
      PROVE  Types'
  <2> DEFINE x == line[l].sale
             r == [Idle EXCEPT !.op = "edit", !.step = "write", !.sale = x,
                               !.line = l, !.product = line[l].product, !.quantity = n]
  <2>1. x \in Sales /\ line[l].product \in Products /\ status[x] # "none"
    BY <1>0, <1>8 DEF EditCheck, TypeOK
  <2> HIDE DEF x
  <2>2. r \in Request /\ Shaped(r) /\ r.sale = x
    BY <1>0, <2>1
  <2>3. req' = [req EXCEPT ![w] = r] /\ UNCHANGED <<rows, openRaced, handSet>>
    BY <1>8 DEF EditCheck, x
  <2>4. contended' \subseteq contended \cup ({r.sale} \cap Sales)
    BY <1>8, <2>1, <2>2 DEF EditCheck, Contend, x
  <2> HIDE DEF r
  <2>5. QED
    BY <2>1, <2>2, <2>3, <2>4, OneRequest
<1>9. ASSUME NEW w \in Workers, LineWrite(w)
      PROVE  Types'
  <2> DEFINE total(l) == TotalWith(req[w].sale, l, NewRow(w))
             r(l) == [req[w] EXCEPT !.step = "commit", !.line = l, !.total = total(l)]
  <2>1. PICK l \in Lines : req' = [req EXCEPT ![w] = r(l)]
    BY <1>9 DEF LineWrite
  <2>2. req[w].op \in {"add", "edit"}
    BY <1>0, <1>9 DEF LineWrite
  <2>3. total(l) \in Nat
    BY <1>0, <2>2, NewRowTyped, TotalIsNat DEF TotalWith, TypeOK
  <2> HIDE DEF total
  <2>4. r(l) \in Request /\ Shaped(r(l)) /\ r(l).sale = req[w].sale
    BY <1>0, <2>2, <2>3
  <2>5. UNCHANGED <<rows, contended, openRaced, handSet>>
    BY <1>9 DEF LineWrite
  <2>6. r(l).sale \in Sales => status[r(l).sale] # "none"
    BY <1>0, <2>4 DEF SalesExist
  <2> HIDE DEF r
  <2>7. QED
    BY <2>1, <2>4, <2>5, <2>6, OneRequest
<1>10. ASSUME NEW w \in Workers, LineGone(w)
       PROVE  Types'
  BY <1>a, <1>10 DEF LineGone
<1>11. ASSUME NEW w \in Workers, LineCommit(w)
       PROVE  Types'
  <2>1. /\ NewRow(w) \in [sale : Sales, product : Products, quantity : Nat \ {0}] \cup {Unused}
        /\ req[w].total \in Nat
    BY <1>0, <1>11, NewRowTyped DEF LineCommit
  <2>2. line' = [line EXCEPT ![req[w].line] = NewRow(w)]
    BY <1>11 DEF LineCommit
  <2>3. line' \in [Lines -> [sale : Sales, product : Products, quantity : Nat \ {0}]
                            \cup {Unused}]
    BY <1>0, <2>1, <2>2 DEF TypeOK
  <2>4. grand' \in [Sales -> Nat]
    BY <1>0, <1>11, <2>1 DEF LineCommit, TypeOK
  <2>5. req' \in [Workers -> Request] /\ RequestShape'
    BY <1>0, <1>11 DEF LineCommit, Answered, TypeOK, RequestShape
  <2>6. UNCHANGED <<table, status, tableOf, paidTotal, payments, invoices,
                    contended, openRaced, handSet>>
    BY <1>11 DEF LineCommit
  <2>7. TypeOK'
    BY <1>0, <2>3, <2>4, <2>5, <2>6 DEF TypeOK
  <2>8. SalesExist'
    BY <1>0, <1>11, <2>6 DEF LineCommit, Answered, SalesExist, TypeOK
  <2>9. QED
    BY <2>5, <2>7, <2>8 DEF Types
<1>12. ASSUME NEW w \in Workers, NEW x \in Sales, ChargeCheck(w, x)
       PROVE  Types'
  <2> DEFINE r == [Idle EXCEPT !.op = "charge", !.step = "begin", !.sale = x,
                               !.amount = grand[x] - paidTotal[x]]
  <2>1. grand[x] - paidTotal[x] \in Nat /\ grand[x] - paidTotal[x] > 0 /\ status[x] # "none"
    BY <1>0, <1>12 DEF ChargeCheck, TypeOK
  <2>2. r \in Request /\ Shaped(r) /\ r.sale = x
    BY <1>0, <2>1
  <2>3. req' = [req EXCEPT ![w] = r] /\ UNCHANGED <<rows, openRaced, handSet>>
    BY <1>12 DEF ChargeCheck
  <2>4. contended' \subseteq contended \cup ({r.sale} \cap Sales)
    BY <1>12, <2>2 DEF ChargeCheck, Contend
  <2> HIDE DEF r
  <2>5. QED
    BY <2>1, <2>2, <2>3, <2>4, OneRequest
<1>13. ASSUME NEW w \in Workers, ChargeBegin(w)
       PROVE  Types'
  <2> DEFINE x == req[w].sale
             r == [req[w] EXCEPT !.step = "commit", !.total = grand[x], !.paid = paidTotal[x]]
  <2>1. x \in Sales /\ grand[x] \in Nat /\ paidTotal[x] \in Nat /\ status[x] # "none"
    BY <1>0, <1>13 DEF ChargeBegin, TypeOK
  <2>2. r \in Request /\ Shaped(r) /\ r.sale = x
    BY <1>0, <1>13, <2>1 DEF ChargeBegin
  <2>3. req' = [req EXCEPT ![w] = r] /\ UNCHANGED <<rows, contended, openRaced, handSet>>
    BY <1>13 DEF ChargeBegin
  <2> HIDE DEF r
  <2>4. QED
    BY <2>1, <2>2, <2>3, OneRequest
<1>14. ASSUME NEW w \in Workers, ChargeRefused(w)
       PROVE  Types'
  BY <1>a, <1>14 DEF ChargeRefused
<1>15. ASSUME NEW w \in Workers, NEW requiresInvoice \in BOOLEAN,
              ChargeCommit(w, requiresInvoice)
       PROVE  Types'
  <2> DEFINE x == req[w].sale
             t == tableOf[x]
  <2>1. x \in Sales /\ req[w].amount \in Nat /\ req[w].total \in Nat /\ req[w].paid \in Nat
    BY <1>0, <1>15 DEF ChargeCommit
  <2>2. status[x] # "none" /\ t \in Tables
    BY <1>0, <2>1 DEF SalesExist
  <2>3. req' = [req EXCEPT ![w] = Idle]
    BY <1>15 DEF ChargeCommit, Answered
  <2>4. req' \in [Workers -> Request] /\ RequestShape'
    BY <1>0, <2>3 DEF TypeOK, RequestShape
  <2>5. payments' \in [Sales -> Seq(Nat)]
    BY <1>0, <1>15, <2>1 DEF ChargeCommit, TypeOK
  <2>6. invoices' \in [Sales -> Seq(Nat)]
    BY <1>0, <1>15, <2>1 DEF ChargeCommit, TypeOK
  <2> DEFINE sum == req[w].paid + req[w].amount
  <2>a. sum \in Nat
    BY <2>1
  <2>b. \/ /\ status' = [status EXCEPT ![x] = "CLOSED"]
           /\ paidTotal' = [paidTotal EXCEPT ![x] = sum]
        \/ UNCHANGED <<status, paidTotal>>
    BY <1>15 DEF ChargeCommit
  <2> HIDE DEF sum, x
  <2>c. status' \in [Sales -> {"none", "DRAFT", "CLOSED"}]
    BY <1>0, <2>b DEF TypeOK
  <2>d. paidTotal' \in [Sales -> Nat]
    <3>1. paidTotal \in [Sales -> Nat]
      BY <1>0 DEF TypeOK
    <3>2. QED
      BY <2>a, <2>b, <3>1
  <2>7. status' \in [Sales -> {"none", "DRAFT", "CLOSED"}] /\ paidTotal' \in [Sales -> Nat]
    BY <2>c, <2>d
  <2> USE DEF x
  <2>8. /\ table' \in [Tables -> TableStatuses \cup {"deleted"}]
        /\ handSet' \subseteq Tables
    BY <1>0, <1>15, <2>2 DEF ChargeCommit, TypeOK, TableStatuses
  <2>9. UNCHANGED <<tableOf, grand, line, contended, openRaced>>
    BY <1>15 DEF ChargeCommit
  <2>10. TypeOK'
    BY <1>0, <2>4, <2>5, <2>6, <2>7, <2>8, <2>9 DEF TypeOK
  <2>11. \A y \in Sales : status'[y] = "none" <=> status[y] = "none"
    BY <1>0, <1>15, <2>1, <2>2 DEF ChargeCommit, TypeOK
  <2>12. SalesExist'
    BY <1>0, <2>3, <2>9, <2>11 DEF SalesExist, TypeOK
  <2>13. QED
    BY <2>4, <2>10, <2>12 DEF Types
<1>16. ASSUME NEW w \in Workers, AccountRejected(w)
       PROVE  Types'
  BY <1>1, <1>16 DEF AccountRejected
<1>17. ASSUME NEW t \in Tables, DeleteTable(t)
       PROVE  Types'
  BY <1>0, <1>17 DEF DeleteTable, Types, TypeOK, RequestShape, SalesExist
<1>18. ASSUME NEW t \in Tables, NEW s \in HandStatuses, SetTableStatus(t, s)
       PROVE  Types'
  BY <1>0, <1>18, HandAssumption DEF SetTableStatus, Types, TypeOK, RequestShape, SalesExist
<1>19. QED
  BY <1>1, <1>2, <1>3, <1>4, <1>5, <1>6, <1>7, <1>8, <1>9, <1>10, <1>11, <1>12, <1>13,
     <1>14, <1>15, <1>16, <1>17, <1>18 DEF Next, Serve

-----------------------------------------------------------------------------
(* Lines and totals *)

Overlaps == SaleAlone /\ LineOwned /\ LinesApart /\ TotalCurrent /\ TotalsExact

\* A request that leaves its sale, and writes no line, disturbs no other one.
LEMMA LeavesSale ==
  ASSUME Types, Overlaps, NEW w \in Workers, NEW r, req' = [req EXCEPT ![w] = r],
         r.op \in {"idle", "open"}, r.sale = NoSale, r.line = NoLine,
         UNCHANGED <<line, grand, contended>>
  PROVE  Overlaps'
<1>1. \A v \in Workers : req'[v] = IF v = w THEN r ELSE req[v]
  BY DEF Types, TypeOK
<1> USE NoneAssumption
<1>2. SaleAlone' /\ LineOwned' /\ LinesApart'
  BY <1>1 DEF Overlaps, SaleAlone, LineOwned, LinesApart
<1>3. ASSUME NEW v \in Workers, v # w
      PROVE  NewRow(v)' = NewRow(v)
  BY <1>1, <1>3 DEF NewRow
<1>4. TotalCurrent'
  BY <1>1, <1>3 DEF Overlaps, TotalCurrent, TotalWith
<1>5. TotalsExact'
  BY DEF Overlaps, TotalsExact, LinesTotal
<1>6. QED
  BY <1>2, <1>4, <1>5 DEF Overlaps

\* A request that starts or goes on without a line of its own to commit, on a
\* sale it has marked if another request is at work there.
LEMMA StaysOnSale ==
  ASSUME Types, Overlaps, NEW w \in Workers, NEW r, req' = [req EXCEPT ![w] = r],
         r.sale \in Sales,
         r.step # "commit" \/ r.op = "charge",
         r.line \in Lines =>
           \/ line[r.line].sale = r.sale /\ line[r.line].product = r.product
           \/ r.line = req[w].line /\ r.sale = req[w].sale /\ r.product = req[w].product,
         \/ r.sale = req[w].sale
         \/ \A v \in Workers \ {w} : req[v].sale = r.sale => r.sale \in contended',
         contended \subseteq contended',
         UNCHANGED <<line, grand>>
  PROVE  Overlaps'
<1>1. \A v \in Workers : req'[v] = IF v = w THEN r ELSE req[v]
  BY DEF Types, TypeOK
<1> USE NoneAssumption
<1>2. SaleAlone'
  BY <1>1 DEF Overlaps, SaleAlone
<1>3. LineOwned'
  BY <1>1 DEF Overlaps, LineOwned
<1>4. LinesApart'
  <2>1. ASSUME NEW v \in Workers \ {w}, req[v].line = r.line, r.line \in Lines
        PROVE  req[v].sale = r.sale /\ req[v].product = r.product
    <3>1. CASE r.line = req[w].line /\ r.sale = req[w].sale /\ r.product = req[w].product
      BY <2>1, <3>1 DEF Overlaps, LinesApart
    <3>2. CASE line[r.line].sale = r.sale /\ line[r.line].product = r.product
      <4>1. line[r.line] # Unused
        BY <3>2 DEF Unused, Row
      <4>2. QED
        BY <2>1, <3>2, <4>1 DEF Overlaps, LineOwned
    <3>3. QED
      BY <2>1, <3>1, <3>2
  <2>2. QED
    BY <1>1, <2>1 DEF Overlaps, LinesApart
<1>5. ASSUME NEW v \in Workers, v # w
      PROVE  NewRow(v)' = NewRow(v)
  BY <1>1, <1>5 DEF NewRow
<1>6. TotalCurrent'
  BY <1>1, <1>5 DEF Overlaps, TotalCurrent, TotalWith
<1>7. TotalsExact'
  BY DEF Overlaps, TotalsExact, LinesTotal
<1>8. QED
  BY <1>2, <1>3, <1>4, <1>6, <1>7 DEF Overlaps

\* Writing a line fixes the total that this line makes of the sale.
LEMMA LineWriteOverlaps ==
  ASSUME Types, Overlaps, NEW w \in Workers, LineWrite(w)
  PROVE  Overlaps'
<1> DEFINE total(l) == TotalWith(req[w].sale, l, NewRow(w))
           r(l) == [req[w] EXCEPT !.step = "commit", !.line = l, !.total = total(l)]
<1>0. req[w] \in Request /\ req[w].op \in {"add", "edit"}
  BY DEF Types, TypeOK, RequestShape, Shaped, LineWrite, Request
<1>1. PICK l \in Lines : /\ req' = [req EXCEPT ![w] = r(l)]
                         /\ \/ FreshLine(l)
                            \/ l = req[w].line
  BY DEF LineWrite
<1> HIDE DEF total
<1>2. /\ r(l).op = req[w].op /\ r(l).sale = req[w].sale /\ r(l).product = req[w].product
      /\ r(l).quantity = req[w].quantity /\ r(l).line = l /\ r(l).total = total(l)
  BY <1>0 DEF Request
<1> HIDE DEF r
<1>3. \A v \in Workers : req'[v] = IF v = w THEN r(l) ELSE req[v]
  BY <1>1 DEF Types, TypeOK
<1>4. UNCHANGED <<line, grand, contended>>
  BY DEF LineWrite, rows
<1>5. SaleAlone'
  BY <1>2, <1>3, <1>4 DEF Overlaps, SaleAlone
<1>6. LineOwned' /\ LinesApart'
  BY <1>1, <1>2, <1>3, <1>4 DEF Overlaps, LineOwned, LinesApart, FreshLine
<1>7. ASSUME NEW v \in Workers
      PROVE  NewRow(v)' = NewRow(v)
  BY <1>2, <1>3, <1>7 DEF NewRow
<1>8. TotalCurrent'
  BY <1>2, <1>3, <1>4, <1>7 DEF Overlaps, TotalCurrent, TotalWith, total
<1>9. TotalsExact'
  BY <1>4 DEF Overlaps, TotalsExact, LinesTotal
<1>10. QED
  BY <1>5, <1>6, <1>8, <1>9 DEF Overlaps

\* Committing a line changes the total of its own sale only, to the one it read
\* when it wrote the line.
LEMMA LineCommitOverlaps ==
  ASSUME Types, Overlaps, NEW w \in Workers, LineCommit(w)
  PROVE  Overlaps'
<1> DEFINE x == req[w].sale
           p == req[w].product
           l == req[w].line
           n == req[w].quantity
           total == req[w].total
           row == NewRow(w)
<1> USE NoneAssumption
<1>1. /\ x \in Sales /\ l \in Lines /\ req[w].op \in {"add", "edit"}
      /\ req[w].step = "commit"
  BY DEF LineCommit, Types, RequestShape, Shaped
<1>2. row = IF n = 0 THEN Unused ELSE Row(x, p, n)
  BY DEF NewRow
<1>3. /\ line' = [line EXCEPT ![l] = row]
      /\ grand' = [grand EXCEPT ![x] = total]
      /\ req' = [req EXCEPT ![w] = Idle]
      /\ contended' = contended
  BY DEF LineCommit, Answered
<1>4. \A v \in Workers : req'[v] = IF v = w THEN Idle ELSE req[v]
  BY <1>3 DEF Types, TypeOK
<1>5. Idle.op = "idle" /\ Idle.sale = NoSale /\ Idle.line = NoLine
  BY DEF Idle
<1>a. LineOwned
  BY DEF Overlaps
<1>6. line[l] = Unused \/ (line[l].sale = x /\ line[l].product = p)
  BY <1>1, <1>a, Zenon DEF LineOwned
<1>7. \A v \in Workers \ {w} : req[v].line = l => req[v].sale = x /\ req[v].product = p
  BY <1>1 DEF Overlaps, LinesApart
<1>8. \A v \in Workers \ {w} : req[v].sale = x => x \in contended
  BY <1>1 DEF Overlaps, SaleAlone
<1>9. x \notin contended => total = Total([line EXCEPT ![l] = row], x)
  BY <1>1 DEF Overlaps, TotalCurrent, TotalWith
<1>10. SaleAlone' /\ LinesApart'
  BY <1>3, <1>4, <1>5 DEF Overlaps, SaleAlone, LinesApart
<1>11. ASSUME NEW v \in Workers \ {w}
       PROVE  NewRow(v)' = NewRow(v)
  BY <1>4, <1>11 DEF NewRow
<1> HIDE DEF x, p, l, n, total, row
<1>b. Row(x, p, n).sale = x /\ Row(x, p, n).product = p
  BY DEF Row
<1>12. row = Unused \/ (row.sale = x /\ row.product = p)
  BY <1>2, <1>b, Zenon
<1>13. line[l].sale \in {x, NoSale} /\ row.sale \in {x, NoSale}
  BY <1>6, <1>12 DEF Unused, Row
<1>14. \A k \in Lines : line'[k] = IF k = l THEN row ELSE line[k]
  BY <1>1, <1>3 DEF Types, TypeOK
<1>15. \A y \in Sales : grand'[y] = IF y = x THEN total ELSE grand[y]
  BY <1>1, <1>3 DEF Types, TypeOK
<1>16. LineOwned'
  <2>1. \A v \in Workers : req'[v].line \in Lines => v # w /\ req'[v] = req[v]
    BY <1>4, <1>5
  <2>2. ASSUME NEW v \in Workers \ {w}, req[v].line \in Lines
        PROVE  \/ line'[req[v].line] = Unused
               \/ line'[req[v].line].sale = req[v].sale
                    /\ line'[req[v].line].product = req[v].product
    <3>1. CASE req[v].line = l
      BY <1>1, <1>7, <1>12, <1>14, <3>1
    <3>2. CASE req[v].line # l
      <4>1. line'[req[v].line] = line[req[v].line]
        BY <1>14, <2>2, <3>2
      <4>2. QED
        BY <1>a, <2>2, <4>1, Zenon DEF LineOwned
    <3>3. QED
      BY <3>1, <3>2
  <2>3. QED
    BY <2>1, <2>2 DEF LineOwned
<1>17. TotalsExact'
  <2> SUFFICES ASSUME NEW y \in Sales, y \notin contended
               PROVE  grand'[y] = Total(line', y)
    BY <1>3 DEF TotalsExact, LinesTotal
  <2>1. CASE y = x
    BY <1>3, <1>9, <1>15, <2>1
  <2>2. CASE y # x
    <3>1. \A k \in Lines : line'[k].sale = y \/ line[k].sale = y => line'[k] = line[k]
      BY <1>13, <1>14, <2>2
    <3>2. Total(line', y) = Total(line, y)
      BY <3>1, TotalLocal
    <3>3. grand[y] = Total(line, y)
      BY DEF Overlaps, TotalsExact, LinesTotal
    <3>4. QED
      BY <1>15, <2>2, <3>2, <3>3
  <2>3. QED
    BY <2>1, <2>2
<1>18. ASSUME NEW v \in Workers \ {w}, req[v].sale \notin contended,
              req[v].op \in {"add", "edit"}, req[v].step = "commit"
       PROVE  req[v].total = Total([line' EXCEPT ![req[v].line] = NewRow(v)], req[v].sale)
  <2> DEFINE y == req[v].sale
             m == req[v].line
             mine == NewRow(v)
             before == [line EXCEPT ![m] = mine]
             after == [line' EXCEPT ![m] = mine]
  <2>1. y # x
    BY <1>8, <1>18
  <2>2. m # l
    BY <1>7, <2>1
  <2>3. y \in Sales /\ m \in Lines
    BY <1>18 DEF Types, RequestShape, Shaped
  <2>4. req[v].total = Total(before, y)
    BY <1>18 DEF Overlaps, TotalCurrent, TotalWith
  <2> HIDE DEF y, m, mine
  <2>5. DOMAIN line = Lines
    BY DEF Types, TypeOK
  <2>6. DOMAIN line' = Lines
    BY <1>3, <2>5
  <2>7. \A k \in Lines : before[k] = IF k = m THEN mine ELSE line[k]
    BY <2>5
  <2>8. \A k \in Lines : after[k] = IF k = m THEN mine ELSE line'[k]
    BY <2>6
  <2> HIDE DEF before, after
  <2>9. \A k \in Lines : before[k].sale = y \/ after[k].sale = y => before[k] = after[k]
    BY <1>13, <1>14, <2>1, <2>2, <2>3, <2>7, <2>8
  <2>10. Total(before, y) = Total(after, y)
    BY <2>9, TotalLocal
  <2>11. QED
    BY <2>4, <2>10 DEF after, m, mine, y
<1>19. TotalCurrent'
  <2> SUFFICES ASSUME NEW v \in Workers, req'[v].op \in {"add", "edit"},
                      req'[v].step = "commit", req'[v].sale \notin contended'
               PROVE  req'[v].total
                        = Total([line' EXCEPT ![req'[v].line] = NewRow(v)'], req'[v].sale)
    BY DEF TotalCurrent, TotalWith
  <2>1. v # w /\ req'[v] = req[v]
    BY <1>4, <1>5
  <2>2. NewRow(v)' = NewRow(v)
    BY <1>11, <2>1
  <2>a. /\ req[v].sale \notin contended /\ req[v].op \in {"add", "edit"}
        /\ req[v].step = "commit"
    BY <1>3, <2>1
  <2>3. req[v].total = Total([line' EXCEPT ![req[v].line] = NewRow(v)], req[v].sale)
    BY <1>18, <2>1, <2>a, Zenon
  <2>4. QED
    BY <2>1, <2>2, <2>3
<1>20. QED
  BY <1>10, <1>16, <1>17, <1>19 DEF Overlaps

\* Nothing is booked before the first request.
LEMMA InitOverlaps == Init => Overlaps
<1> SUFFICES ASSUME Init
             PROVE  Overlaps
  OBVIOUS
<1> USE NoneAssumption
<1>1. \A w \in Workers : req[w] = Idle
  BY DEF Init
<1>2. SaleAlone /\ LineOwned /\ LinesApart /\ TotalCurrent
  BY <1>1 DEF SaleAlone, LineOwned, LinesApart, TotalCurrent, Idle
<1>3. ASSUME NEW x \in Sales
      PROVE  LinesOf(line, x) = {}
  BY DEF Init, LinesOf, Unused, Row
<1>4. TotalsExact
  BY <1>3, TotalOfNone DEF Init, TotalsExact, LinesTotal
<1>5. QED
  BY <1>2, <1>4 DEF Overlaps

\* Every statement keeps the totals of uncontended accounts exact.
LEMMA NextOverlaps == Types /\ Overlaps /\ [Next]_vars => Overlaps'
<1> SUFFICES ASSUME Types, Overlaps, [Next]_vars
             PROVE  Overlaps'
  OBVIOUS
<1> USE NoneAssumption
<1>a. /\ Idle.op = "idle" /\ Idle.sale = NoSale /\ Idle.line = NoLine
      /\ \A w \in Workers : req[w] \in Request /\ Shaped(req[w])
  BY DEF Idle, Types, TypeOK, RequestShape
<1>b. ASSUME UNCHANGED <<line, grand, contended, req>>
      PROVE  Overlaps'
  BY <1>b DEF Overlaps, SaleAlone, LineOwned, LinesApart, TotalCurrent, TotalWith, NewRow,
              TotalsExact, LinesTotal
<1>c. ASSUME NEW w \in Workers, Answered(w), UNCHANGED <<line, grand, contended>>
      PROVE  Overlaps'
  BY <1>a, <1>c, LeavesSale DEF Answered
<1>1. CASE UNCHANGED vars
  BY <1>1, <1>b DEF vars, rows
<1>2. ASSUME NEW w \in Workers, NEW t \in Tables, OpenCheck(w, t)
      PROVE  Overlaps'
  <2> DEFINE r == [Idle EXCEPT !.op = "open", !.step = "commit", !.table = t]
  <2>1. r.op = "open" /\ r.sale = NoSale /\ r.line = NoLine
    BY DEF Idle
  <2>2. req' = [req EXCEPT ![w] = r] /\ UNCHANGED <<line, grand, contended>>
    BY <1>2 DEF OpenCheck, OpenStart, rows
  <2> HIDE DEF r
  <2>3. QED
    BY <2>1, <2>2, LeavesSale
<1>3. ASSUME NEW w \in Workers, NEW t \in Tables, OpenNothing(w, t)
      PROVE  Overlaps'
  BY <1>1, <1>3 DEF OpenNothing
<1>4. ASSUME NEW w \in Workers, OpenCommit(w)
      PROVE  Overlaps'
  BY <1>c, <1>4 DEF OpenCommit
<1>5. ASSUME NEW w \in Workers, NEW x \in Sales, NEW p \in Products, NEW n \in Quantities,
             AddCheck(w, x, p, n)
      PROVE  Overlaps'
  <2> DEFINE r == [Idle EXCEPT !.op = "add", !.step = "find", !.sale = x,
                               !.product = p, !.quantity = n]
  <2>1. r.step = "find" /\ r.sale = x /\ r.line = NoLine
    BY DEF Idle
  <2>2. req' = [req EXCEPT ![w] = r] /\ UNCHANGED <<line, grand>>
    BY <1>5 DEF AddCheck, rows
  <2>3. /\ contended \subseteq contended'
        /\ \A v \in Workers \ {w} : req[v].sale = x => x \in contended'
    BY <1>5 DEF AddCheck, Contend, Others
  <2> HIDE DEF r
  <2>4. QED
    BY <2>1, <2>2, <2>3, StaysOnSale
<1>6. ASSUME NEW w \in Workers, AddFindExisting(w)
      PROVE  Overlaps'
  <2> DEFINE sum(l) == req[w].quantity + line[l].quantity
             r(l) == [req[w] EXCEPT !.step = "write", !.line = l, !.quantity = sum(l)]
  <2>1. PICK l \in Existing(w) : req' = [req EXCEPT ![w] = r(l)]
    BY <1>6 DEF AddFindExisting
  <2>2. /\ r(l).step = "write" /\ r(l).line = l /\ r(l).sale = req[w].sale
        /\ r(l).product = req[w].product /\ req[w].sale \in Sales
    BY <1>a, <1>6 DEF Request, Shaped, AddFindExisting
  <2>3. line[l].sale = req[w].sale /\ line[l].product = req[w].product
    BY DEF Existing, LinesOf
  <2>4. UNCHANGED <<line, grand, contended>>
    BY <1>6 DEF AddFindExisting, rows
  <2> HIDE DEF r
  <2>5. QED
    BY <2>1, <2>2, <2>3, <2>4, StaysOnSale
<1>7. ASSUME NEW w \in Workers, AddFindNone(w)
      PROVE  Overlaps'
  <2> DEFINE r == [req[w] EXCEPT !.step = "write"]
  <2>1. /\ r.step = "write" /\ r.line = NoLine /\ r.sale = req[w].sale
        /\ r.product = req[w].product /\ req[w].sale \in Sales
    BY <1>a, <1>7 DEF Request, Shaped, AddFindNone
  <2>2. req' = [req EXCEPT ![w] = r] /\ UNCHANGED <<line, grand, contended>>
    BY <1>7 DEF AddFindNone, rows
  <2> HIDE DEF r
  <2>3. QED
    BY <2>1, <2>2, StaysOnSale
<1>8. ASSUME NEW w \in Workers, NEW l \in Lines, NEW n \in Quantities, EditCheck(w, l, n)
      PROVE  Overlaps'
  <2> DEFINE x == line[l].sale
             r == [Idle EXCEPT !.op = "edit", !.step = "write", !.sale = x,
                               !.line = l, !.product = line[l].product, !.quantity = n]
  <2>1. /\ r.step = "write" /\ r.line = l /\ r.sale = line[l].sale
        /\ r.product = line[l].product
    BY DEF Idle
  <2>2. line[l].sale \in Sales
    BY <1>8 DEF EditCheck, Types, TypeOK
  <2>3. req' = [req EXCEPT ![w] = r] /\ UNCHANGED <<line, grand>>
    BY <1>8 DEF EditCheck, rows
  <2>4. /\ contended \subseteq contended'
        /\ \A v \in Workers \ {w} : req[v].sale = x => x \in contended'
    BY <1>8 DEF EditCheck, Contend, Others
  <2>5. /\ r.sale \in Sales /\ r.step # "commit"
        /\ line[r.line].sale = r.sale /\ line[r.line].product = r.product
        /\ \A v \in Workers \ {w} : req[v].sale = r.sale => r.sale \in contended'
    BY <2>1, <2>2, <2>4
  <2> HIDE DEF r, x
  <2>6. QED
    BY <2>3, <2>4, <2>5, StaysOnSale
<1>9. ASSUME NEW w \in Workers, LineWrite(w)
      PROVE  Overlaps'
  BY <1>9, LineWriteOverlaps
<1>10. ASSUME NEW w \in Workers, LineGone(w)
       PROVE  Overlaps'
  BY <1>c, <1>10 DEF LineGone, rows
<1>11. ASSUME NEW w \in Workers, LineCommit(w)
       PROVE  Overlaps'
  BY <1>11, LineCommitOverlaps
<1>12. ASSUME NEW w \in Workers, NEW x \in Sales, ChargeCheck(w, x)
       PROVE  Overlaps'
  <2> DEFINE r == [Idle EXCEPT !.op = "charge", !.step = "begin", !.sale = x,
                               !.amount = grand[x] - paidTotal[x]]
  <2>1. r.step = "begin" /\ r.sale = x /\ r.line = NoLine
    BY DEF Idle
  <2>2. req' = [req EXCEPT ![w] = r] /\ UNCHANGED <<line, grand>>
    BY <1>12 DEF ChargeCheck, rows
  <2>3. /\ contended \subseteq contended'
        /\ \A v \in Workers \ {w} : req[v].sale = x => x \in contended'
    BY <1>12 DEF ChargeCheck, Contend, Others
  <2> HIDE DEF r
  <2>4. QED
    BY <2>1, <2>2, <2>3, StaysOnSale
<1>13. ASSUME NEW w \in Workers, ChargeBegin(w)
       PROVE  Overlaps'
  <2> DEFINE x == req[w].sale
             r == [req[w] EXCEPT !.step = "commit", !.total = grand[x], !.paid = paidTotal[x]]
  <2>1. r.op = "charge" /\ r.line = NoLine /\ r.sale = req[w].sale /\ req[w].sale \in Sales
    BY <1>a, <1>13 DEF Request, Shaped, ChargeBegin
  <2>2. req' = [req EXCEPT ![w] = r] /\ UNCHANGED <<line, grand, contended>>
    BY <1>13 DEF ChargeBegin, rows
  <2> HIDE DEF r
  <2>3. QED
    BY <2>1, <2>2, StaysOnSale
<1>14. ASSUME NEW w \in Workers, ChargeRefused(w)
       PROVE  Overlaps'
  BY <1>c, <1>14 DEF ChargeRefused, rows
<1>15. ASSUME NEW w \in Workers, NEW requiresInvoice \in BOOLEAN,
              ChargeCommit(w, requiresInvoice)
       PROVE  Overlaps'
  BY <1>c, <1>15 DEF ChargeCommit
<1>16. ASSUME NEW w \in Workers, AccountRejected(w)
       PROVE  Overlaps'
  BY <1>1, <1>16 DEF AccountRejected
<1>17. ASSUME NEW t \in Tables, DeleteTable(t)
       PROVE  Overlaps'
  BY <1>b, <1>17 DEF DeleteTable
<1>18. ASSUME NEW t \in Tables, NEW s \in HandStatuses, SetTableStatus(t, s)
       PROVE  Overlaps'
  BY <1>b, <1>18 DEF SetTableStatus
<1>19. QED
  BY <1>1, <1>2, <1>3, <1>4, <1>5, <1>6, <1>7, <1>8, <1>9, <1>10, <1>11, <1>12, <1>13,
     <1>14, <1>15, <1>16, <1>17, <1>18 DEF Next, Serve

-----------------------------------------------------------------------------
(* Charges *)

Charges == PaymentsCloseAccounts /\ ChargeCurrent /\ ClosedQuiet /\ PaidOnce

\* A statement that leaves the sales and their payments alone: the request goes
\* on with its sale, starts on an open one or has none, and if it is a charge
\* it has read what the rows hold.
LEMMA ReadsCharges ==
  ASSUME Types, Charges, NEW w \in Workers, NEW r, req' = [req EXCEPT ![w] = r],
         UNCHANGED <<status, grand, paidTotal, payments, invoices>>,
         contended \subseteq contended',
         r.sale = req[w].sale \/ r.sale = NoSale \/ status[r.sale] = "DRAFT",
         r.op = "charge" =>
           /\ r.step = "commit" => r.paid = 0
           /\ r.sale \notin contended' =>
                /\ status[r.sale] = "DRAFT"
                /\ r.amount = grand[r.sale]
                /\ r.step = "commit" => r.total = grand[r.sale]
  PROVE  Charges'
<1>1. \A v \in Workers : req'[v] = IF v = w THEN r ELSE req[v]
  BY DEF Types, TypeOK
<1>2. PaymentsCloseAccounts'
  BY DEF Charges, PaymentsCloseAccounts
<1>3. PaidOnce'
  BY DEF Charges, PaidOnce
<1>4. ClosedQuiet'
  BY <1>1, NoneAssumption DEF Charges, ClosedQuiet
<1>5. ChargeCurrent'
  BY <1>1 DEF Charges, ChargeCurrent
<1>6. QED
  BY <1>2, <1>3, <1>4, <1>5 DEF Charges

\* A sale that is not closed has no payments and is paid nothing.
LEMMA OpenUnpaid ==
  ASSUME Types, Charges, NEW x \in Sales, status[x] # "CLOSED"
  PROVE  payments[x] = <<>> /\ paidTotal[x] = 0 /\ invoices[x] = <<>>
<1>1. payments[x] = <<>> /\ paidTotal[x] = 0 /\ Len(invoices[x]) <= Len(payments[x])
  BY DEF Charges, PaymentsCloseAccounts
<1>2. invoices[x] \in Seq(Nat)
  BY DEF Types, TypeOK
<1>3. QED
  BY <1>1, <1>2

\* Appending a positive number to positive numbers.
LEMMA AppendPositive ==
  ASSUME NEW s \in Seq(Nat), \A i \in DOMAIN s : s[i] > 0, NEW a \in Nat, a > 0
  PROVE  /\ Append(s, a) # <<>>
         /\ Head(Append(s, a)) = IF s = <<>> THEN a ELSE Head(s)
         /\ \A i \in DOMAIN Append(s, a) : Append(s, a)[i] > 0
         /\ Len(Append(s, a)) = Len(s) + 1
         /\ s = <<>> => Append(s, a) = <<a>>
<1> DEFINE t == Append(s, a)
<1>1. /\ t \in Seq(Nat) /\ Len(t) = Len(s) + 1 /\ Len(s) \in Nat
      /\ \A i \in 1 .. Len(s) : t[i] = s[i]
      /\ t[Len(s) + 1] = a
  OBVIOUS
<1>2. DOMAIN s = 1 .. Len(s) /\ DOMAIN t = 1 .. Len(t)
  BY <1>1
<1>3. s = <<>> => t = <<a>>
  OBVIOUS
<1>4. s # <<>> => Head(t) = Head(s)
  OBVIOUS
<1>5. t # <<>>
  BY <1>1
<1> HIDE DEF t
<1>6. \A i \in DOMAIN t : t[i] > 0
  BY <1>1, <1>2
<1>7. s = <<>> => Head(t) = a
  BY <1>3
<1>8. QED
  BY <1>1, <1>3, <1>4, <1>5, <1>6, <1>7 DEF t

\* Opening an account books nothing.
LEMMA OpenCommitCharges ==
  ASSUME Types, Charges, NEW w \in Workers, OpenCommit(w)
  PROVE  Charges'
<1>1. PICK x \in Sales : status[x] = "none" /\ status' = [status EXCEPT ![x] = "DRAFT"]
  BY DEF OpenCommit
<1>2. \A y \in Sales : status'[y] = IF y = x THEN "DRAFT" ELSE status[y]
  BY <1>1 DEF Types, TypeOK
<1>3. \A v \in Workers : req'[v] = IF v = w THEN Idle ELSE req[v]
  BY DEF OpenCommit, Answered, Types, TypeOK
<1>4. Idle.op = "idle" /\ Idle.sale = NoSale
  BY DEF Idle
<1>5. UNCHANGED <<grand, paidTotal, payments, invoices, contended>>
  BY DEF OpenCommit
<1>6. PaymentsCloseAccounts'
  BY <1>1, <1>2, <1>5 DEF Charges, PaymentsCloseAccounts
<1>7. PaidOnce'
  BY <1>1, <1>2, <1>5 DEF Charges, PaidOnce
<1>8. ClosedQuiet'
  BY <1>1, <1>2, <1>3, <1>4, <1>5, NoneAssumption DEF Charges, ClosedQuiet
<1>9. ChargeCurrent'
  <2> SUFFICES ASSUME NEW v \in Workers, v # w, req[v].op = "charge"
               PROVE  /\ req[v].step = "commit" => req[v].paid = 0
                      /\ req[v].sale \notin contended =>
                           /\ status'[req[v].sale] = "DRAFT"
                           /\ req[v].amount = grand[req[v].sale]
                           /\ req[v].step = "commit" => req[v].total = grand[req[v].sale]
    BY <1>3, <1>4, <1>5 DEF ChargeCurrent
  <2>1. req[v].sale \in Sales
    BY DEF Types, RequestShape, Shaped
  <2>2. QED
    BY <1>2, <2>1 DEF Charges, ChargeCurrent
<1>10. QED
  BY <1>6, <1>7, <1>8, <1>9 DEF Charges

\* Committing a line changes the total of a sale that no uncontended charge has
\* read and that is not closed unless it is contended.
LEMMA LineCommitCharges ==
  ASSUME Types, Overlaps, Charges, NEW w \in Workers, LineCommit(w)
  PROVE  Charges'
<1> DEFINE x == req[w].sale
<1>1. x \in Sales
  BY DEF LineCommit, Types, RequestShape, Shaped
<1>2. \A v \in Workers : req'[v] = IF v = w THEN Idle ELSE req[v]
  BY DEF LineCommit, Answered, Types, TypeOK
<1>3. Idle.op = "idle" /\ Idle.sale = NoSale
  BY DEF Idle
<1>4. UNCHANGED <<status, paidTotal, payments, invoices, contended>>
  BY DEF LineCommit
<1>5. \A y \in Sales \ {x} : grand'[y] = grand[y]
  BY DEF LineCommit, Types, TypeOK
<1>6. \A v \in Workers \ {w} : req[v].sale = x => x \in contended
  BY <1>1 DEF Overlaps, SaleAlone
<1>7. x \notin contended => status[x] # "CLOSED"
  BY <1>1 DEF Charges, ClosedQuiet
<1> HIDE DEF x
<1>8. PaymentsCloseAccounts'
  BY <1>4 DEF Charges, PaymentsCloseAccounts
<1>9. PaidOnce'
  BY <1>1, <1>4, <1>5, <1>7 DEF Charges, PaidOnce
<1>10. ClosedQuiet'
  BY <1>2, <1>3, <1>4, NoneAssumption DEF Charges, ClosedQuiet
<1>11. ChargeCurrent'
  <2> SUFFICES ASSUME NEW v \in Workers, v # w, req[v].op = "charge"
               PROVE  /\ req[v].step = "commit" => req[v].paid = 0
                      /\ req[v].sale \notin contended =>
                           /\ status[req[v].sale] = "DRAFT"
                           /\ req[v].amount = grand'[req[v].sale]
                           /\ req[v].step = "commit" => req[v].total = grand'[req[v].sale]
    BY <1>2, <1>3, <1>4 DEF ChargeCurrent
  <2>1. req[v].sale \in Sales
    BY DEF Types, RequestShape, Shaped
  <2>2. req[v].sale \notin contended => grand'[req[v].sale] = grand[req[v].sale]
    BY <1>5, <1>6, <2>1
  <2>3. QED
    BY <2>2 DEF Charges, ChargeCurrent
<1>12. QED
  BY <1>8, <1>9, <1>10, <1>11 DEF Charges

\* A charge of an account books its payment; the first one closes it, and unless
\* another request was at work on it that is the only one.
LEMMA ChargeCommitCharges ==
  ASSUME Types, Overlaps, Charges, NEW w \in Workers, NEW requiresInvoice \in BOOLEAN,
         ChargeCommit(w, requiresInvoice)
  PROVE  Charges'
<1> DEFINE x == req[w].sale
           amount == req[w].amount
           total == req[w].total
           paid == req[w].paid
<1>1. x \in Sales /\ amount \in Nat /\ amount > 0 /\ total \in Nat
  BY DEF ChargeCommit, Types, TypeOK, RequestShape, Shaped, Request
<1>2. status[x] \in {"DRAFT", "CLOSED"}
  BY <1>1 DEF Types, TypeOK, SalesExist
<1>3. \A v \in Workers : req'[v] = IF v = w THEN Idle ELSE req[v]
  BY DEF ChargeCommit, Answered, Types, TypeOK
<1>4. Idle.op = "idle" /\ Idle.sale = NoSale
  BY DEF Idle
<1>5. UNCHANGED <<grand, contended>>
  BY DEF ChargeCommit
<1>6. \A v \in Workers \ {w} : req[v].sale = x => x \in contended
  BY <1>1 DEF Overlaps, SaleAlone
<1>7. /\ paid = 0
      /\ x \notin contended => status[x] = "DRAFT" /\ amount = grand[x] /\ total = grand[x]
  BY DEF Charges, ChargeCurrent, ChargeCommit
<1>8. /\ payments' = [payments EXCEPT ![x] = Append(payments[x], amount)]
      /\ invoices' = [invoices EXCEPT ![x] =
                        IF requiresInvoice THEN Append(invoices[x], total) ELSE invoices[x]]
      /\ status[x] = "DRAFT" => /\ status' = [status EXCEPT ![x] = "CLOSED"]
                                /\ paidTotal' = [paidTotal EXCEPT ![x] = paid + amount]
      /\ status[x] # "DRAFT" => status' = status /\ paidTotal' = paidTotal
  BY DEF ChargeCommit, Types, TypeOK
<1>9. paid + amount = amount
  BY <1>1, <1>7
<1> HIDE DEF x, amount, total, paid
<1>10. payments[x] \in Seq(Nat) /\ invoices[x] \in Seq(Nat)
  BY <1>1 DEF Types, TypeOK
<1>11. \A y \in Sales \ {x} : /\ status'[y] = status[y] /\ paidTotal'[y] = paidTotal[y]
                              /\ payments'[y] = payments[y] /\ invoices'[y] = invoices[y]
  BY <1>1, <1>2, <1>8 DEF Types, TypeOK
<1>12. /\ payments'[x] = Append(payments[x], amount)
       /\ invoices'[x] \in {invoices[x], Append(invoices[x], total)}
       /\ status'[x] = "CLOSED"
       /\ paidTotal'[x] = IF status[x] = "DRAFT" THEN amount ELSE paidTotal[x]
  BY <1>1, <1>2, <1>8, <1>9 DEF Types, TypeOK
<1>13. \A i \in DOMAIN payments[x] : payments[x][i] > 0
  BY <1>1 DEF Charges, PaymentsCloseAccounts
<1>14. /\ payments'[x] # <<>>
       /\ Head(payments'[x]) = IF payments[x] = <<>> THEN amount ELSE Head(payments[x])
       /\ \A i \in DOMAIN payments'[x] : payments'[x][i] > 0
       /\ Len(payments'[x]) = Len(payments[x]) + 1
       /\ payments[x] = <<>> => payments'[x] = <<amount>>
  BY <1>1, <1>10, <1>12, <1>13, AppendPositive
<1>15. /\ Len(invoices'[x]) <= Len(payments'[x])
       /\ invoices[x] = <<>> => invoices'[x] \in {<<>>, <<total>>}
  <2>1. Len(invoices[x]) <= Len(payments[x]) /\ Len(payments[x]) \in Nat /\ Len(invoices[x]) \in Nat
    BY <1>1, <1>10 DEF Charges, PaymentsCloseAccounts
  <2>2. Len(invoices'[x]) <= Len(invoices[x]) + 1 /\ Len(invoices'[x]) \in Nat
    BY <1>1, <1>10, <1>12
  <2>3. invoices[x] = <<>> => invoices'[x] \in {<<>>, <<total>>}
    BY <1>1, <1>12
  <2>4. QED
    BY <1>14, <2>1, <2>2, <2>3
<1>16. status[x] = "DRAFT" => payments[x] = <<>> /\ invoices[x] = <<>>
  BY <1>1, OpenUnpaid
<1>17. PaymentsCloseAccounts'
  <2>1. paidTotal'[x] = Head(payments'[x])
    <3>1. CASE status[x] = "DRAFT"
      BY <1>12, <1>14, <1>16, <3>1
    <3>2. CASE status[x] = "CLOSED"
      BY <1>1, <1>12, <1>14, <3>2 DEF Charges, PaymentsCloseAccounts
    <3>3. QED
      BY <1>2, <3>1, <3>2
  <2>2. ASSUME NEW y \in Sales \ {x}
        PROVE  /\ payments'[y] # <<>> <=> status'[y] = "CLOSED"
               /\ paidTotal'[y] = IF payments'[y] = <<>> THEN 0 ELSE Head(payments'[y])
               /\ \A i \in DOMAIN payments'[y] : payments'[y][i] > 0
               /\ Len(invoices'[y]) <= Len(payments'[y])
    BY <1>11, <2>2 DEF Charges, PaymentsCloseAccounts
  <2>3. QED
    BY <1>12, <1>14, <1>15, <2>1, <2>2 DEF PaymentsCloseAccounts
<1>18. PaidOnce'
  <2> SUFFICES ASSUME NEW y \in Sales \ contended, status'[y] = "CLOSED"
               PROVE  /\ payments'[y] = <<grand[y]>>
                      /\ paidTotal'[y] = grand[y]
                      /\ invoices'[y] \in {<<>>, <<grand[y]>>}
    BY <1>5 DEF PaidOnce
  <2>1. CASE y = x
    BY <1>7, <1>12, <1>14, <1>15, <1>16, <2>1
  <2>2. CASE y # x
    BY <1>11, <2>2 DEF Charges, PaidOnce
  <2>3. QED
    BY <2>1, <2>2
<1>19. ClosedQuiet'
  BY <1>3, <1>4, <1>5, <1>6, <1>11, NoneAssumption DEF Charges, ClosedQuiet
<1>20. ChargeCurrent'
  <2> SUFFICES ASSUME NEW v \in Workers, v # w, req[v].op = "charge"
               PROVE  /\ req[v].step = "commit" => req[v].paid = 0
                      /\ req[v].sale \notin contended =>
                           /\ status'[req[v].sale] = "DRAFT"
                           /\ req[v].amount = grand[req[v].sale]
                           /\ req[v].step = "commit" => req[v].total = grand[req[v].sale]
    BY <1>3, <1>4, <1>5 DEF ChargeCurrent
  <2>1. req[v].sale \in Sales
    BY DEF Types, RequestShape, Shaped
  <2>2. req[v].sale \notin contended => status'[req[v].sale] = status[req[v].sale]
    BY <1>6, <1>11, <2>1
  <2>3. QED
    BY <2>2 DEF Charges, ChargeCurrent
<1>21. QED
  BY <1>17, <1>18, <1>19, <1>20 DEF Charges

\* Nothing is paid before the first request.
LEMMA InitCharges == Init => Charges
<1> SUFFICES ASSUME Init
             PROVE  Charges
  OBVIOUS
<1>1. \A w \in Workers : req[w].op = "idle"
  BY DEF Init, Idle
<1>2. PaymentsCloseAccounts
  BY DEF Init, PaymentsCloseAccounts
<1>3. ChargeCurrent /\ ClosedQuiet /\ PaidOnce
  BY <1>1 DEF Init, ChargeCurrent, ClosedQuiet, PaidOnce
<1>4. QED
  BY <1>2, <1>3 DEF Charges

\* Every statement keeps an account's payments what its charges make of them.
LEMMA NextCharges == Types /\ Overlaps /\ Charges /\ [Next]_vars => Charges'
<1> SUFFICES ASSUME Types, Overlaps, Charges, [Next]_vars
             PROVE  Charges'
  OBVIOUS
<1>a. /\ Idle.op = "idle" /\ Idle.sale = NoSale
      /\ \A w \in Workers : req[w] \in Request /\ Shaped(req[w])
  BY DEF Idle, Types, TypeOK, RequestShape
<1>b. ASSUME UNCHANGED <<status, grand, paidTotal, payments, invoices, contended, req>>
      PROVE  Charges'
  BY <1>b DEF Charges, PaymentsCloseAccounts, ChargeCurrent, ClosedQuiet, PaidOnce
<1>c. ASSUME NEW w \in Workers, Answered(w), UNCHANGED <<rows, contended>>
      PROVE  Charges'
  BY <1>a, <1>c, ReadsCharges DEF Answered, rows
<1>1. CASE UNCHANGED vars
  BY <1>1, <1>b DEF vars, rows
<1>2. ASSUME NEW w \in Workers, NEW t \in Tables, OpenCheck(w, t)
      PROVE  Charges'
  <2> DEFINE r == [Idle EXCEPT !.op = "open", !.step = "commit", !.table = t]
  <2>1. r.op = "open" /\ r.sale = NoSale
    BY DEF Idle
  <2>2. req' = [req EXCEPT ![w] = r] /\ UNCHANGED <<rows, contended>>
    BY <1>2 DEF OpenCheck, OpenStart
  <2> HIDE DEF r
  <2>3. QED
    BY <2>1, <2>2, ReadsCharges DEF rows
<1>3. ASSUME NEW w \in Workers, NEW t \in Tables, OpenNothing(w, t)
      PROVE  Charges'
  BY <1>1, <1>3 DEF OpenNothing
<1>4. ASSUME NEW w \in Workers, OpenCommit(w)
      PROVE  Charges'
  BY <1>4, OpenCommitCharges
<1>5. ASSUME NEW w \in Workers, NEW x \in Sales, NEW p \in Products, NEW n \in Quantities,
             AddCheck(w, x, p, n)
      PROVE  Charges'
  <2> DEFINE r == [Idle EXCEPT !.op = "add", !.step = "find", !.sale = x,
                               !.product = p, !.quantity = n]
  <2>1. r.op = "add" /\ r.sale = x /\ status[x] = "DRAFT"
    BY <1>5 DEF Idle, AddCheck
  <2>2. req' = [req EXCEPT ![w] = r] /\ UNCHANGED rows /\ contended \subseteq contended'
    BY <1>5 DEF AddCheck, Contend
  <2> HIDE DEF r
  <2>3. QED
    BY <2>1, <2>2, ReadsCharges DEF rows
<1>6. ASSUME NEW w \in Workers, AddFindExisting(w)
      PROVE  Charges'
  <2> DEFINE sum(l) == req[w].quantity + line[l].quantity
             r(l) == [req[w] EXCEPT !.step = "write", !.line = l, !.quantity = sum(l)]
  <2>1. PICK l \in Existing(w) : req' = [req EXCEPT ![w] = r(l)]
    BY <1>6 DEF AddFindExisting
  <2>2. r(l).op = "add" /\ r(l).sale = req[w].sale
    BY <1>a, <1>6 DEF Request, AddFindExisting
  <2>3. UNCHANGED <<rows, contended>>
    BY <1>6 DEF AddFindExisting
  <2> HIDE DEF r
  <2>4. QED
    BY <2>1, <2>2, <2>3, ReadsCharges DEF rows
<1>7. ASSUME NEW w \in Workers, AddFindNone(w)
      PROVE  Charges'
  <2> DEFINE r == [req[w] EXCEPT !.step = "write"]
  <2>1. r.op = "add" /\ r.sale = req[w].sale
    BY <1>a, <1>7 DEF Request, AddFindNone
  <2>2. req' = [req EXCEPT ![w] = r] /\ UNCHANGED <<rows, contended>>
    BY <1>7 DEF AddFindNone
  <2> HIDE DEF r
  <2>3. QED
    BY <2>1, <2>2, ReadsCharges DEF rows
<1>8. ASSUME NEW w \in Workers, NEW l \in Lines, NEW n \in Quantities, EditCheck(w, l, n)
      PROVE  Charges'
  <2> DEFINE x == line[l].sale
             r == [Idle EXCEPT !.op = "edit", !.step = "write", !.sale = x,
                               !.line = l, !.product = line[l].product, !.quantity = n]
  <2>1. r.op = "edit" /\ r.sale = x /\ status[x] = "DRAFT"
    BY <1>8 DEF Idle, EditCheck
  <2>2. req' = [req EXCEPT ![w] = r] /\ UNCHANGED rows /\ contended \subseteq contended'
    BY <1>8 DEF EditCheck, Contend
  <2> HIDE DEF r, x
  <2>3. QED
    BY <2>1, <2>2, ReadsCharges DEF rows
<1>9. ASSUME NEW w \in Workers, LineWrite(w)
      PROVE  Charges'
  <2> DEFINE total(l) == TotalWith(req[w].sale, l, NewRow(w))
             r(l) == [req[w] EXCEPT !.step = "commit", !.line = l, !.total = total(l)]
  <2>1. PICK l \in Lines : req' = [req EXCEPT ![w] = r(l)]
    BY <1>9 DEF LineWrite
  <2>2. r(l).op = req[w].op /\ r(l).op # "charge" /\ r(l).sale = req[w].sale
    BY <1>a, <1>9 DEF Request, Shaped, LineWrite
  <2>3. UNCHANGED <<rows, contended>>
    BY <1>9 DEF LineWrite
  <2> HIDE DEF r
  <2>4. QED
    BY <2>1, <2>2, <2>3, ReadsCharges DEF rows
<1>10. ASSUME NEW w \in Workers, LineGone(w)
       PROVE  Charges'
  BY <1>c, <1>10 DEF LineGone
<1>11. ASSUME NEW w \in Workers, LineCommit(w)
       PROVE  Charges'
  BY <1>11, LineCommitCharges
<1>12. ASSUME NEW w \in Workers, NEW x \in Sales, ChargeCheck(w, x)
       PROVE  Charges'
  <2> DEFINE r == [Idle EXCEPT !.op = "charge", !.step = "begin", !.sale = x,
                               !.amount = grand[x] - paidTotal[x]]
  <2>1. r.step = "begin" /\ r.sale = x /\ r.amount = grand[x] - paidTotal[x]
    BY DEF Idle
  <2>2. status[x] = "DRAFT"
    BY <1>12 DEF ChargeCheck
  <2>3. paidTotal[x] = 0 /\ grand[x] \in Nat
    BY <2>2, OpenUnpaid DEF Types, TypeOK
  <2>4. r.amount = grand[x]
    BY <2>1, <2>3
  <2>5. req' = [req EXCEPT ![w] = r] /\ UNCHANGED rows /\ contended \subseteq contended'
    BY <1>12 DEF ChargeCheck, Contend
  <2> HIDE DEF r
  <2>6. QED
    BY <2>1, <2>2, <2>4, <2>5, ReadsCharges DEF rows
<1>13. ASSUME NEW w \in Workers, ChargeBegin(w)
       PROVE  Charges'
  <2> DEFINE x == req[w].sale
             r == [req[w] EXCEPT !.step = "commit", !.total = grand[x], !.paid = paidTotal[x]]
  <2>1. r.sale = x /\ r.amount = req[w].amount /\ r.total = grand[x] /\ r.paid = paidTotal[x]
    BY <1>a DEF Request
  <2>2. x \in Sales /\ status[x] = "DRAFT"
    BY <1>a, <1>13 DEF Shaped, ChargeBegin
  <2>3. paidTotal[x] = 0
    BY <2>2, OpenUnpaid
  <2>4. x \notin contended => req[w].amount = grand[x]
    BY <1>13 DEF ChargeBegin, Charges, ChargeCurrent
  <2>5. req' = [req EXCEPT ![w] = r] /\ UNCHANGED <<rows, contended>>
    BY <1>13 DEF ChargeBegin
  <2> HIDE DEF r
  <2>6. QED
    BY <2>1, <2>2, <2>3, <2>4, <2>5, ReadsCharges DEF rows
<1>14. ASSUME NEW w \in Workers, ChargeRefused(w)
       PROVE  Charges'
  BY <1>c, <1>14 DEF ChargeRefused
<1>15. ASSUME NEW w \in Workers, NEW requiresInvoice \in BOOLEAN,
              ChargeCommit(w, requiresInvoice)
       PROVE  Charges'
  BY <1>15, ChargeCommitCharges
<1>16. ASSUME NEW w \in Workers, AccountRejected(w)
       PROVE  Charges'
  BY <1>1, <1>16 DEF AccountRejected
<1>17. ASSUME NEW t \in Tables, DeleteTable(t)
       PROVE  Charges'
  BY <1>b, <1>17 DEF DeleteTable
<1>18. ASSUME NEW t \in Tables, NEW s \in HandStatuses, SetTableStatus(t, s)
       PROVE  Charges'
  BY <1>b, <1>18 DEF SetTableStatus
<1>19. QED
  BY <1>1, <1>2, <1>3, <1>4, <1>5, <1>6, <1>7, <1>8, <1>9, <1>10, <1>11, <1>12, <1>13,
     <1>14, <1>15, <1>16, <1>17, <1>18 DEF Next, Serve

-----------------------------------------------------------------------------
(* Tables *)

Places == OpenAlone /\ OneDraftPerTable /\ TableShowsAccount

\* A statement of a request about a sale that leaves the tables and the status
\* of the sales alone.
LEMMA ReadsPlaces ==
  ASSUME Types, Places, NEW w \in Workers, \A v \in Workers \ {w} : req'[v] = req[v],
         req'[w].op # "open", req'[w].table = NoTable,
         UNCHANGED <<table, status, tableOf, handSet, openRaced>>,
         contended \subseteq contended'
  PROVE  Places'
<1>1. \A v \in Workers : v # w => req'[v] = req[v]
  OBVIOUS
<1>2. \A t \in Tables : DraftsOn(t)' = DraftsOn(t)
  BY DEF DraftsOn
<1>3. ASSUME NEW v \in Workers, NEW d \in Tables, req'[v].op = "open", req'[v].table = d,
              d \notin openRaced'
      PROVE  /\ DraftsOn(d)' = {}
             /\ \A u \in Workers \ {v} : req'[u].table # d
  <2>1. v # w /\ req'[v] = req[v]
    BY <1>1, <1>3
  <2>2. req[v].table = d
    BY <1>3, <2>1
  <2>3. /\ DraftsOn(d) = {}
        /\ \A u \in Workers \ {v} : req[u].table # d
    BY <1>3, <2>1 DEF Places, OpenAlone
  <2>4. \A u \in Workers \ {v} : req'[u].table # d
    BY <1>1, <2>2, <2>3, NoneAssumption
  <2>5. QED
    BY <1>2, <2>1, <2>2, <2>3, <2>4
<1>4. OpenAlone'
  BY <1>3 DEF OpenAlone
<1>5. OneDraftPerTable'
  BY <1>2 DEF Places, OneDraftPerTable
<1>6. TableShowsAccount'
  BY <1>2 DEF Places, TableShowsAccount
<1>7. QED
  BY <1>4, <1>5, <1>6 DEF Places

\* An open that found no account marks the table if another open is at work.
LEMMA OpenCheckPlaces ==
  ASSUME Types, Places, NEW w \in Workers, NEW t \in Tables, OpenCheck(w, t)
  PROVE  Places'
<1> DEFINE r == [Idle EXCEPT !.op = "open", !.step = "commit", !.table = t]
<1>1. \A v \in Workers : req'[v] = IF v = w THEN r ELSE req[v]
  BY DEF OpenCheck, OpenStart, Types, TypeOK
<1>2. r.op = "open" /\ r.table = t
  BY DEF Idle
<1> HIDE DEF r
<1>3. \A u \in Tables : DraftsOn(u)' = DraftsOn(u)
  BY DEF OpenCheck, OpenStart, rows, DraftsOn
<1>4. /\ DraftsOn(t) = {}
      /\ openRaced \subseteq openRaced'
      /\ \A v \in Workers \ {w} : req[v].table = t => t \in openRaced'
      /\ UNCHANGED <<table, tableOf, handSet, contended>>
  BY DEF OpenCheck, OpenStart, Others, rows
<1>5. ASSUME NEW v \in Workers, NEW d \in Tables, req'[v].op = "open", req'[v].table = d,
              d \notin openRaced'
      PROVE  /\ DraftsOn(d)' = {}
             /\ \A u \in Workers \ {v} : req'[u].table # d
  <2>1. CASE v = w
    BY <1>1, <1>2, <1>3, <1>4, <1>5, <2>1
  <2>2. CASE v # w
    <3>1. req'[v] = req[v] /\ req[v].table = d
      BY <1>1, <1>5, <2>2
    <3>2. /\ DraftsOn(d) = {}
          /\ \A u \in Workers \ {v} : req[u].table # d
      BY <1>4, <1>5, <3>1 DEF Places, OpenAlone
    <3>3. d # t
      BY <1>4, <1>5, <2>2, <3>1
    <3>4. QED
      BY <1>1, <1>2, <1>3, <3>1, <3>2, <3>3
  <2>3. QED
    BY <2>1, <2>2
<1>6. OpenAlone'
  BY <1>5 DEF OpenAlone
<1>7. OneDraftPerTable'
  BY <1>3, <1>4 DEF Places, OneDraftPerTable
<1>8. TableShowsAccount'
  BY <1>3, <1>4 DEF Places, TableShowsAccount
<1>9. QED
  BY <1>6, <1>7, <1>8 DEF Places

\* The account that is created is the only one of its table unless another open
\* of the table overlapped, and its table is occupied.
LEMMA OpenCommitPlaces ==
  ASSUME Types, Places, NEW w \in Workers, OpenCommit(w)
  PROVE  Places'
<1> DEFINE t == req[w].table
<1>1. t \in Tables /\ req[w].op = "open"
  BY DEF OpenCommit, Types, RequestShape, Shaped
<1>2. PICK x \in Sales : /\ status[x] = "none"
                         /\ status' = [status EXCEPT ![x] = "DRAFT"]
                         /\ tableOf' = [tableOf EXCEPT ![x] = t]
  BY DEF OpenCommit
<1>3. \A v \in Workers : req'[v] = IF v = w THEN Idle ELSE req[v]
  BY DEF OpenCommit, Answered, Types, TypeOK
<1>4. Idle.op = "idle" /\ Idle.table = NoTable
  BY DEF Idle
<1>5. UNCHANGED <<contended, openRaced>> /\ handSet' = handSet \ {t}
  BY DEF OpenCommit
<1>6. \A u \in Tables : table'[u] = IF u = t /\ table[u] # "deleted" THEN "OCCUPIED" ELSE table[u]
  BY <1>1 DEF OpenCommit, Types, TypeOK
<1>7. t \notin openRaced => /\ DraftsOn(t) = {}
                            /\ \A v \in Workers \ {w} : req[v].table # t
  BY <1>1 DEF Places, OpenAlone
<1> HIDE DEF t
<1>8. /\ \A y \in Sales : status'[y] = IF y = x THEN "DRAFT" ELSE status[y]
      /\ \A y \in Sales : tableOf'[y] = IF y = x THEN t ELSE tableOf[y]
  BY <1>2 DEF Types, TypeOK
<1>9. \A u \in Tables : DraftsOn(u)' = IF u = t THEN DraftsOn(u) \cup {x} ELSE DraftsOn(u)
  BY <1>2, <1>8 DEF DraftsOn
<1>10. x \notin contended
  BY <1>2 DEF Types, SalesExist
<1>11. ASSUME NEW v \in Workers, NEW d \in Tables, req'[v].op = "open", req'[v].table = d,
              d \notin openRaced'
       PROVE  /\ DraftsOn(d)' = {}
              /\ \A u \in Workers \ {v} : req'[u].table # d
  <2>1. v # w /\ req'[v] = req[v]
    BY <1>3, <1>4, <1>11
  <2>2. req[v].table = d
    BY <1>11, <2>1
  <2>3. /\ DraftsOn(d) = {}
        /\ \A u \in Workers \ {v} : req[u].table # d
    BY <1>5, <1>11, <2>1 DEF Places, OpenAlone
  <2>4. d # t
    BY <1>5, <1>7, <1>11, <2>1
  <2>5. QED
    BY <1>3, <1>4, <1>9, <2>1, <2>2, <2>3, <2>4, NoneAssumption
<1>12. OpenAlone'
  BY <1>11 DEF OpenAlone
<1>13. OneDraftPerTable'
  BY <1>5, <1>7, <1>9 DEF Places, OneDraftPerTable
<1>14. TableShowsAccount'
  <2> SUFFICES ASSUME NEW u \in Tables
               PROVE  \/ table'[u] = "deleted"
                      \/ u \in handSet' \cup openRaced'
                      \/ \E y \in contended : tableOf'[y] = u
                      \/ table'[u] = (IF DraftsOn(u)' = {} THEN "FREE" ELSE "OCCUPIED")
    BY <1>5 DEF TableShowsAccount
  <2>1. CASE u = t
    BY <1>6, <1>9, <2>1
  <2>2. CASE u # t
    <3>1. table'[u] = table[u] /\ DraftsOn(u)' = DraftsOn(u)
      BY <1>6, <1>9, <2>2
    <3>2. \A y \in contended : tableOf'[y] = tableOf[y]
      BY <1>8, <1>10 DEF Types, TypeOK
    <3>3. QED
      BY <1>5, <2>2, <3>1, <3>2 DEF Places, TableShowsAccount
  <2>3. QED
    BY <2>1, <2>2
<1>15. QED
  BY <1>12, <1>13, <1>14 DEF Places

\* The table that a charge frees has no other account, unless two opens of it
\* or two requests on the account overlapped.
LEMMA ChargeCommitPlaces ==
  ASSUME Types, Charges, Places, NEW w \in Workers, NEW requiresInvoice \in BOOLEAN,
         ChargeCommit(w, requiresInvoice)
  PROVE  Places'
<1> DEFINE x == req[w].sale
           t == tableOf[x]
<1>1. x \in Sales /\ req[w].op = "charge"
  BY DEF ChargeCommit, Types, RequestShape, Shaped
<1>2. t \in Tables
  BY <1>1 DEF Types, SalesExist
<1>3. \A v \in Workers : req'[v] = IF v = w THEN Idle ELSE req[v]
  BY DEF ChargeCommit, Answered, Types, TypeOK
<1>4. Idle.op = "idle" /\ Idle.table = NoTable
  BY DEF Idle
<1>5. UNCHANGED <<tableOf, contended, openRaced>> /\ handSet' = handSet \ {t}
  BY DEF ChargeCommit
<1>6. \A u \in Tables : table'[u] = IF u = t /\ table[u] # "deleted" THEN "FREE" ELSE table[u]
  BY <1>2 DEF ChargeCommit, Types, TypeOK
<1>7. x \notin contended => status[x] = "DRAFT"
  BY <1>1 DEF Charges, ChargeCurrent
<1>8. \/ status' = [status EXCEPT ![x] = "CLOSED"]
      \/ status' = status /\ status[x] # "DRAFT"
  BY DEF ChargeCommit
<1> HIDE DEF x
<1>9. \A y \in Sales : status'[y] = "DRAFT" <=> status[y] = "DRAFT" /\ y # x
  BY <1>1, <1>8 DEF Types, TypeOK
<1>10. \A u \in Tables : DraftsOn(u)' = DraftsOn(u) \ {x}
  BY <1>5, <1>9 DEF DraftsOn
<1>11. x \notin contended /\ t \notin openRaced => DraftsOn(t) = {x}
  BY <1>1, <1>2, <1>7 DEF DraftsOn, Places, OneDraftPerTable
<1>12. ASSUME NEW v \in Workers, NEW d \in Tables, req'[v].op = "open", req'[v].table = d,
              d \notin openRaced'
       PROVE  /\ DraftsOn(d)' = {}
              /\ \A u \in Workers \ {v} : req'[u].table # d
  <2>1. v # w /\ req'[v] = req[v]
    BY <1>3, <1>4, <1>12
  <2>2. req[v].table = d
    BY <1>12, <2>1
  <2>3. /\ DraftsOn(d) = {}
        /\ \A u \in Workers \ {v} : req[u].table # d
    BY <1>5, <1>12, <2>1 DEF Places, OpenAlone
  <2>4. QED
    BY <1>3, <1>4, <1>10, <2>1, <2>2, <2>3, NoneAssumption
<1>13. OpenAlone'
  BY <1>12 DEF OpenAlone
<1>14. OneDraftPerTable'
  BY <1>5, <1>10 DEF Places, OneDraftPerTable
<1>15. TableShowsAccount'
  <2> SUFFICES ASSUME NEW u \in Tables
               PROVE  \/ table'[u] = "deleted"
                      \/ u \in handSet' \cup openRaced'
                      \/ \E y \in contended : tableOf[y] = u
                      \/ table'[u] = (IF DraftsOn(u)' = {} THEN "FREE" ELSE "OCCUPIED")
    BY <1>5 DEF TableShowsAccount
  <2>1. CASE u = t
    BY <1>5, <1>6, <1>10, <1>11, <2>1
  <2>2. CASE u # t
    <3>1. table'[u] = table[u] /\ DraftsOn(u)' = DraftsOn(u)
      BY <1>6, <1>10, <2>2 DEF DraftsOn
    <3>2. QED
      BY <1>5, <2>2, <3>1 DEF Places, TableShowsAccount
  <2>3. QED
    BY <2>1, <2>2
<1>16. QED
  BY <1>13, <1>14, <1>15 DEF Places

\* Before the first request every table is free and has no account.
LEMMA InitPlaces == Init => Places
<1> SUFFICES ASSUME Init
             PROVE  Places
  OBVIOUS
<1>1. \A w \in Workers : req[w].op = "idle"
  BY DEF Init, Idle
<1>2. \A t \in Tables : DraftsOn(t) = {} /\ table[t] = "FREE"
  BY DEF Init, DraftsOn
<1>3. QED
  BY <1>1, <1>2 DEF Places, OpenAlone, OneDraftPerTable, TableShowsAccount

\* Every statement keeps the tables in step with the accounts on them.
LEMMA NextPlaces == Types /\ Charges /\ Places /\ [Next]_vars => Places'
<1> SUFFICES ASSUME Types, Charges, Places, [Next]_vars
             PROVE  Places'
  OBVIOUS
<1>a. /\ Idle.op = "idle" /\ Idle.table = NoTable
      /\ DOMAIN req = Workers
      /\ \A w \in Workers : req[w] \in Request /\ Shaped(req[w])
  BY DEF Idle, Types, TypeOK, RequestShape
<1>b. ASSUME UNCHANGED <<status, tableOf, req, contended, openRaced>>,
             \A t \in Tables : \/ table'[t] = "deleted" \/ t \in handSet'
                               \/ table'[t] = table[t] /\ (t \in handSet <=> t \in handSet')
      PROVE  Places'
  <2>1. \A t \in Tables : DraftsOn(t)' = DraftsOn(t)
    BY <1>b DEF DraftsOn
  <2>2. OpenAlone' /\ OneDraftPerTable'
    BY <1>b, <2>1 DEF Places, OpenAlone, OneDraftPerTable
  <2>3. TableShowsAccount'
    BY <1>b, <2>1 DEF Places, TableShowsAccount
  <2>4. QED
    BY <2>2, <2>3 DEF Places
<1>c. ASSUME NEW w \in Workers, Answered(w),
             UNCHANGED <<table, status, tableOf, handSet, contended, openRaced>>
      PROVE  Places'
  <2>1. req'[w] = Idle /\ \A v \in Workers \ {w} : req'[v] = req[v]
    BY <1>a, <1>c DEF Answered
  <2>2. QED
    BY <1>a, <1>c, <2>1, ReadsPlaces
<1>1. CASE UNCHANGED vars
  BY <1>1, <1>b DEF vars, rows
<1>2. ASSUME NEW w \in Workers, NEW t \in Tables, OpenCheck(w, t)
      PROVE  Places'
  BY <1>2, OpenCheckPlaces
<1>3. ASSUME NEW w \in Workers, NEW t \in Tables, OpenNothing(w, t)
      PROVE  Places'
  BY <1>1, <1>3 DEF OpenNothing
<1>4. ASSUME NEW w \in Workers, OpenCommit(w)
      PROVE  Places'
  BY <1>4, OpenCommitPlaces
<1>5. ASSUME NEW w \in Workers, NEW x \in Sales, NEW p \in Products, NEW n \in Quantities,
             AddCheck(w, x, p, n)
      PROVE  Places'
  <2>1. /\ req'[w].op = "add" /\ req'[w].table = NoTable
        /\ \A v \in Workers \ {w} : req'[v] = req[v]
    BY <1>a, <1>5 DEF AddCheck, Idle
  <2>2. UNCHANGED <<rows, handSet, openRaced>> /\ contended \subseteq contended'
    BY <1>5 DEF AddCheck, Contend
  <2>3. QED
    BY <2>1, <2>2, ReadsPlaces DEF rows
<1>6. ASSUME NEW w \in Workers, AddFindExisting(w)
      PROVE  Places'
  <2> DEFINE sum(l) == req[w].quantity + line[l].quantity
  <2>1. PICK l \in Existing(w) :
          req' = [req EXCEPT ![w] = [req[w] EXCEPT !.step = "write", !.line = l,
                                                   !.quantity = sum(l)]]
    BY <1>6 DEF AddFindExisting
  <2> HIDE DEF sum
  <2>2. req[w].op = "add" /\ req[w].table = NoTable
    BY <1>a, <1>6 DEF AddFindExisting, Shaped
  <2>3. /\ req'[w].op = "add" /\ req'[w].table = NoTable
        /\ \A v \in Workers \ {w} : req'[v] = req[v]
    BY <1>a, <2>1, <2>2 DEF Request
  <2>4. UNCHANGED <<rows, handSet, openRaced, contended>>
    BY <1>6 DEF AddFindExisting
  <2>5. QED
    BY <2>3, <2>4, ReadsPlaces DEF rows
<1>7. ASSUME NEW w \in Workers, AddFindNone(w)
      PROVE  Places'
  <2>1. req[w].op = "add" /\ req[w].table = NoTable
    BY <1>a, <1>7 DEF AddFindNone, Shaped
  <2>2. /\ req'[w].op = "add" /\ req'[w].table = NoTable
        /\ \A v \in Workers \ {w} : req'[v] = req[v]
    BY <1>a, <1>7, <2>1 DEF AddFindNone, Request
  <2>3. UNCHANGED <<rows, handSet, openRaced, contended>>
    BY <1>7 DEF AddFindNone
  <2>4. QED
    BY <2>2, <2>3, ReadsPlaces DEF rows
<1>8. ASSUME NEW w \in Workers, NEW l \in Lines, NEW n \in Quantities, EditCheck(w, l, n)
      PROVE  Places'
  <2>1. /\ req'[w].op = "edit" /\ req'[w].table = NoTable
        /\ \A v \in Workers \ {w} : req'[v] = req[v]
    BY <1>a, <1>8 DEF EditCheck, Idle
  <2>2. UNCHANGED <<rows, handSet, openRaced>> /\ contended \subseteq contended'
    BY <1>8 DEF EditCheck, Contend
  <2>3. QED
    BY <2>1, <2>2, ReadsPlaces DEF rows
<1>9. ASSUME NEW w \in Workers, LineWrite(w)
      PROVE  Places'
  <2> DEFINE total(l) == TotalWith(req[w].sale, l, NewRow(w))
  <2>1. PICK l \in Lines :
          req' = [req EXCEPT ![w] = [req[w] EXCEPT !.step = "commit", !.line = l,
                                                   !.total = total(l)]]
    BY <1>9 DEF LineWrite
  <2> HIDE DEF total
  <2>2. req[w].op \in {"add", "edit"} /\ req[w].table = NoTable
    BY <1>a, <1>9 DEF LineWrite, Shaped, Request
  <2>3. /\ req'[w].op # "open" /\ req'[w].table = NoTable
        /\ \A v \in Workers \ {w} : req'[v] = req[v]
    BY <1>a, <2>1, <2>2 DEF Request
  <2>4. UNCHANGED <<rows, handSet, openRaced, contended>>
    BY <1>9 DEF LineWrite
  <2>5. QED
    BY <2>3, <2>4, ReadsPlaces DEF rows
<1>10. ASSUME NEW w \in Workers, LineGone(w)
       PROVE  Places'
  BY <1>c, <1>10 DEF LineGone, rows
<1>11. ASSUME NEW w \in Workers, LineCommit(w)
       PROVE  Places'
  BY <1>c, <1>11 DEF LineCommit
<1>12. ASSUME NEW w \in Workers, NEW x \in Sales, ChargeCheck(w, x)
       PROVE  Places'
  <2> DEFINE due == grand[x] - paidTotal[x]
  <2>1. req' = [req EXCEPT ![w] = [Idle EXCEPT !.op = "charge", !.step = "begin", !.sale = x,
                                               !.amount = due]]
    BY <1>12 DEF ChargeCheck
  <2> HIDE DEF due
  <2>2. /\ req'[w].op = "charge" /\ req'[w].table = NoTable
        /\ \A v \in Workers \ {w} : req'[v] = req[v]
    BY <1>a, <2>1 DEF Idle
  <2>3. UNCHANGED <<rows, handSet, openRaced>> /\ contended \subseteq contended'
    BY <1>12 DEF ChargeCheck, Contend
  <2>4. QED
    BY <2>2, <2>3, ReadsPlaces DEF rows
<1>13. ASSUME NEW w \in Workers, ChargeBegin(w)
       PROVE  Places'
  <2>1. req[w].op = "charge" /\ req[w].table = NoTable
    BY <1>a, <1>13 DEF ChargeBegin, Shaped
  <2>2. /\ req'[w].op = "charge" /\ req'[w].table = NoTable
        /\ \A v \in Workers \ {w} : req'[v] = req[v]
    BY <1>a, <1>13, <2>1 DEF ChargeBegin, Request
  <2>3. UNCHANGED <<rows, handSet, openRaced, contended>>
    BY <1>13 DEF ChargeBegin
  <2>4. QED
    BY <2>2, <2>3, ReadsPlaces DEF rows
<1>14. ASSUME NEW w \in Workers, ChargeRefused(w)
       PROVE  Places'
  BY <1>c, <1>14 DEF ChargeRefused, rows
<1>15. ASSUME NEW w \in Workers, NEW requiresInvoice \in BOOLEAN,
              ChargeCommit(w, requiresInvoice)
       PROVE  Places'
  BY <1>15, ChargeCommitPlaces
<1>16. ASSUME NEW w \in Workers, AccountRejected(w)
       PROVE  Places'
  BY <1>1, <1>16 DEF AccountRejected
<1>17. ASSUME NEW t \in Tables, DeleteTable(t)
       PROVE  Places'
  <2>1. \A u \in Tables : table'[u] = IF u = t THEN "deleted" ELSE table[u]
    BY <1>17 DEF DeleteTable, Types, TypeOK
  <2>2. QED
    BY <1>b, <1>17, <2>1 DEF DeleteTable
<1>18. ASSUME NEW t \in Tables, NEW s \in HandStatuses, SetTableStatus(t, s)
       PROVE  Places'
  <2>1. \A u \in Tables : table'[u] = IF u = t THEN s ELSE table[u]
    BY <1>18 DEF SetTableStatus, Types, TypeOK
  <2>2. handSet' = handSet \cup {t}
    BY <1>18 DEF SetTableStatus
  <2>3. QED
    BY <1>b, <1>18, <2>1, <2>2 DEF SetTableStatus
<1>19. QED
  BY <1>1, <1>2, <1>3, <1>4, <1>5, <1>6, <1>7, <1>8, <1>9, <1>10, <1>11, <1>12, <1>13,
     <1>14, <1>15, <1>16, <1>17, <1>18 DEF Next, Serve

-----------------------------------------------------------------------------
(* Products *)

SingleLines == ProductApart /\ OneLinePerProduct

\* A statement that leaves the lines alone, of a request that writes no line or
\* the only one of its product.
LEMMA ReadsLines ==
  ASSUME Types, SingleLines, NEW w \in Workers, \A v \in Workers \ {w} : req'[v] = req[v],
         \/ req'[w].op \notin {"add", "edit"}
         \/ req'[w].step = "find"
         \/ \A l \in LinesOf(line, req'[w].sale) :
              req'[w].sale \notin contended /\ line[l].product = req'[w].product
                => l = req'[w].line,
         line' = line, contended \subseteq contended'
  PROVE  SingleLines'
<1>1. \A x : LinesOf(line, x)' = LinesOf(line, x)
  BY DEF LinesOf
<1>2. OneLinePerProduct'
  BY <1>1 DEF SingleLines, OneLinePerProduct
<1>3. ProductApart'
  <2> SUFFICES ASSUME NEW v \in Workers, req'[v].op \in {"add", "edit"},
                      req'[v].step \in {"write", "commit"}, req'[v].sale \notin contended',
                      NEW l \in LinesOf(line, req'[v].sale), line[l].product = req'[v].product
               PROVE  l = req'[v].line
    BY <1>1 DEF ProductApart
  <2>1. CASE v = w
    BY <2>1
  <2>2. CASE v # w
    <3>1. req'[v] = req[v] /\ req[v].sale \notin contended
      BY <2>2
    <3>2. QED
      BY <3>1 DEF SingleLines, ProductApart
  <2>3. QED
    BY <2>1, <2>2
<1>4. QED
  BY <1>2, <1>3 DEF SingleLines

\* A line that is written stays the only one of its product on its account.
LEMMA LineCommitLines ==
  ASSUME Types, Overlaps, SingleLines, NEW w \in Workers, LineCommit(w)
  PROVE  SingleLines'
<1> DEFINE x == req[w].sale
           p == req[w].product
           l == req[w].line
           n == req[w].quantity
           row == NewRow(w)
<1> USE NoneAssumption
<1>1. /\ x \in Sales /\ l \in Lines /\ req[w].op \in {"add", "edit"}
      /\ req[w].step = "commit"
  BY DEF LineCommit, Types, RequestShape, Shaped
<1>2. row = IF n = 0 THEN Unused ELSE Row(x, p, n)
  BY DEF NewRow
<1>3. \A v \in Workers : req'[v] = IF v = w THEN Idle ELSE req[v]
  BY DEF LineCommit, Answered, Types, TypeOK
<1>4. Idle.op = "idle" /\ contended' = contended
  BY DEF Idle, LineCommit
<1>5. \A k \in Lines : line'[k] = IF k = l THEN row ELSE line[k]
  BY <1>1 DEF LineCommit, Types, TypeOK
<1>6. LineOwned
  BY DEF Overlaps
<1>7. line[l] = Unused \/ (line[l].sale = x /\ line[l].product = p)
  BY <1>1, <1>6 DEF LineOwned
<1>8. \A v \in Workers \ {w} : req[v].sale = x => x \in contended
  BY <1>1 DEF Overlaps, SaleAlone
<1>9. x \notin contended => \A k \in LinesOf(line, x) : line[k].product = p => k = l
  BY <1>1 DEF SingleLines, ProductApart
<1> HIDE DEF x, p, l, n, row
<1>10. Row(x, p, n).sale = x /\ Row(x, p, n).product = p /\ Unused.sale = NoSale
  BY DEF Row, Unused
<1>11. line[l].sale \in {x, NoSale} /\ row.sale \in {x, NoSale} /\ (row.sale = x => row.product = p)
  BY <1>1, <1>2, <1>7, <1>10
<1>12. ASSUME NEW y \in Sales \ {x}
       PROVE  LinesOf(line', y) = LinesOf(line, y)
                /\ \A k \in LinesOf(line, y) : line'[k] = line[k]
  BY <1>5, <1>11 DEF LinesOf
<1>13. OneLinePerProduct'
  <2> SUFFICES ASSUME NEW y \in Sales \ contended, NEW j \in LinesOf(line', y),
                      NEW k \in LinesOf(line', y), line'[j].product = line'[k].product
               PROVE  j = k
    BY <1>4 DEF OneLinePerProduct, LinesOf
  <2>1. CASE y = x
    <3>1. ASSUME NEW i \in LinesOf(line', x), i # l
          PROVE  i \in LinesOf(line, x) /\ line'[i] = line[i] /\ line[i].product # p
      BY <1>5, <1>9, <2>1, <3>1 DEF LinesOf
    <3>2. l \in LinesOf(line', x) => line'[l].product = p
      BY <1>1, <1>5, <1>11 DEF LinesOf
    <3>3. QED
      BY <2>1, <3>1, <3>2 DEF SingleLines, OneLinePerProduct
  <2>2. CASE y # x
    BY <1>12, <2>2 DEF SingleLines, OneLinePerProduct
  <2>3. QED
    BY <2>1, <2>2
<1>14. ProductApart'
  <2> SUFFICES ASSUME NEW v \in Workers, req'[v].op \in {"add", "edit"},
                      req'[v].step \in {"write", "commit"}, req'[v].sale \notin contended,
                      NEW k \in LinesOf(line', req'[v].sale), line'[k].product = req'[v].product
               PROVE  k = req'[v].line
    BY <1>4 DEF ProductApart, LinesOf
  <2>1. v # w /\ req'[v] = req[v]
    BY <1>3, <1>4
  <2>2. req[v].sale \in Sales \ {x}
    BY <1>8, <2>1 DEF Types, RequestShape, Shaped
  <2>3. k \in LinesOf(line, req[v].sale) /\ line[k].product = req[v].product
    BY <1>12, <2>1, <2>2
  <2>4. QED
    BY <2>1, <2>3 DEF SingleLines, ProductApart
<1>15. QED
  BY <1>13, <1>14 DEF SingleLines

\* There are no lines before the first request.
LEMMA InitLines == Init => SingleLines
<1> SUFFICES ASSUME Init
             PROVE  SingleLines
  OBVIOUS
<1>1. \A w \in Workers : req[w].op = "idle"
  BY DEF Init, Idle
<1>2. ASSUME NEW x \in Sales
      PROVE  LinesOf(line, x) = {}
  BY NoneAssumption DEF Init, LinesOf, Unused, Row
<1>3. QED
  BY <1>1, <1>2 DEF SingleLines, ProductApart, OneLinePerProduct

\* Every statement keeps a product on one line of an uncontended account.
LEMMA NextLines == Types /\ Overlaps /\ SingleLines /\ [Next]_vars => SingleLines'
<1> SUFFICES ASSUME Types, Overlaps, SingleLines, [Next]_vars
             PROVE  SingleLines'
  OBVIOUS
<1>a. /\ Idle.op = "idle"
      /\ DOMAIN req = Workers
      /\ \A w \in Workers : req[w] \in Request /\ Shaped(req[w])
  BY DEF Idle, Types, TypeOK, RequestShape
<1>b. ASSUME UNCHANGED <<line, req, contended>>
      PROVE  SingleLines'
  BY <1>b DEF SingleLines, ProductApart, OneLinePerProduct, LinesOf
<1>c. ASSUME NEW w \in Workers, Answered(w), UNCHANGED <<line, contended>>
      PROVE  SingleLines'
  <2>1. req'[w] = Idle /\ \A v \in Workers \ {w} : req'[v] = req[v]
    BY <1>a, <1>c DEF Answered
  <2>2. QED
    BY <1>a, <1>c, <2>1, ReadsLines
<1>1. CASE UNCHANGED vars
  BY <1>1, <1>b DEF vars, rows
<1>2. ASSUME NEW w \in Workers, NEW t \in Tables, OpenCheck(w, t)
      PROVE  SingleLines'
  <2>1. req'[w].op = "open" /\ \A v \in Workers \ {w} : req'[v] = req[v]
    BY <1>a, <1>2 DEF OpenCheck, OpenStart, Idle
  <2>2. UNCHANGED <<line, contended>>
    BY <1>2 DEF OpenCheck, OpenStart, rows
  <2>3. QED
    BY <2>1, <2>2, ReadsLines
<1>3. ASSUME NEW w \in Workers, NEW t \in Tables, OpenNothing(w, t)
      PROVE  SingleLines'
  BY <1>1, <1>3 DEF OpenNothing
<1>4. ASSUME NEW w \in Workers, OpenCommit(w)
      PROVE  SingleLines'
  BY <1>c, <1>4 DEF OpenCommit
<1>5. ASSUME NEW w \in Workers, NEW x \in Sales, NEW p \in Products, NEW n \in Quantities,
             AddCheck(w, x, p, n)
      PROVE  SingleLines'
  <2>1. req'[w].step = "find" /\ \A v \in Workers \ {w} : req'[v] = req[v]
    BY <1>a, <1>5 DEF AddCheck, Idle
  <2>2. line' = line /\ contended \subseteq contended'
    BY <1>5 DEF AddCheck, Contend, rows
  <2>3. QED
    BY <2>1, <2>2, ReadsLines
<1>6. ASSUME NEW w \in Workers, AddFindExisting(w)
      PROVE  SingleLines'
  <2> DEFINE sum(l) == req[w].quantity + line[l].quantity
  <2>1. PICK l \in Existing(w) :
          req' = [req EXCEPT ![w] = [req[w] EXCEPT !.step = "write", !.line = l,
                                                   !.quantity = sum(l)]]
    BY <1>6 DEF AddFindExisting
  <2> HIDE DEF sum
  <2>2. /\ req'[w].line = l /\ req'[w].sale = req[w].sale
        /\ req'[w].product = req[w].product
        /\ \A v \in Workers \ {w} : req'[v] = req[v]
    BY <1>a, <2>1 DEF Request
  <2>3. req[w].sale \in Sales
    BY <1>a, <1>6 DEF AddFindExisting, Shaped
  <2>4. ASSUME NEW k \in LinesOf(line, req[w].sale), req[w].sale \notin contended,
               line[k].product = req[w].product
        PROVE  k = l
    <3>1. l \in LinesOf(line, req[w].sale) /\ line[l].product = line[k].product
      BY <2>4 DEF Existing
    <3>2. QED
      BY <2>3, <2>4, <3>1 DEF SingleLines, OneLinePerProduct
  <2>5. UNCHANGED <<line, contended>>
    BY <1>6 DEF AddFindExisting, rows
  <2>6. QED
    BY <2>2, <2>4, <2>5, ReadsLines
<1>7. ASSUME NEW w \in Workers, AddFindNone(w)
      PROVE  SingleLines'
  <2>1. /\ req'[w].sale = req[w].sale /\ req'[w].product = req[w].product
        /\ \A v \in Workers \ {w} : req'[v] = req[v]
    BY <1>a, <1>7 DEF AddFindNone, Request
  <2>2. \A k \in LinesOf(line, req[w].sale) : line[k].product # req[w].product
    BY <1>7 DEF AddFindNone, Existing
  <2>3. UNCHANGED <<line, contended>>
    BY <1>7 DEF AddFindNone, rows
  <2>4. QED
    BY <2>1, <2>2, <2>3, ReadsLines
<1>8. ASSUME NEW w \in Workers, NEW l \in Lines, NEW n \in Quantities, EditCheck(w, l, n)
      PROVE  SingleLines'
  <2>1. /\ req'[w].line = l /\ req'[w].sale = line[l].sale
        /\ req'[w].product = line[l].product
        /\ \A v \in Workers \ {w} : req'[v] = req[v]
    BY <1>a, <1>8 DEF EditCheck, Idle
  <2>2. line[l].sale \in Sales
    BY <1>8 DEF EditCheck, Types, TypeOK
  <2>3. ASSUME NEW k \in LinesOf(line, line[l].sale), line[l].sale \notin contended,
               line[k].product = line[l].product
        PROVE  k = l
    BY <2>2, <2>3 DEF SingleLines, OneLinePerProduct, LinesOf
  <2>4. line' = line /\ contended \subseteq contended'
    BY <1>8 DEF EditCheck, Contend, rows
  <2>5. QED
    BY <2>1, <2>3, <2>4, ReadsLines
<1>9. ASSUME NEW w \in Workers, LineWrite(w)
      PROVE  SingleLines'
  <2> DEFINE total(l) == TotalWith(req[w].sale, l, NewRow(w))
  <2>1. PICK l \in Lines :
          /\ req' = [req EXCEPT ![w] = [req[w] EXCEPT !.step = "commit", !.line = l,
                                                      !.total = total(l)]]
          /\ req[w].line = NoLine \/ l = req[w].line
    BY <1>9 DEF LineWrite
  <2> HIDE DEF total
  <2>2. /\ req'[w].line = l /\ req'[w].sale = req[w].sale
        /\ req'[w].product = req[w].product
        /\ \A v \in Workers \ {w} : req'[v] = req[v]
    BY <1>a, <2>1 DEF Request
  <2>3. req[w].op \in {"add", "edit"} /\ req[w].step = "write"
    BY <1>a, <1>9 DEF LineWrite, Shaped, Request
  <2>4. ASSUME NEW k \in LinesOf(line, req[w].sale), req[w].sale \notin contended,
               line[k].product = req[w].product
        PROVE  k = l
    <3>1. k = req[w].line /\ k \in Lines
      BY <2>3, <2>4 DEF SingleLines, ProductApart, LinesOf
    <3>2. QED
      BY <2>1, <3>1, NoneAssumption
  <2>5. UNCHANGED <<line, contended>>
    BY <1>9 DEF LineWrite, rows
  <2>6. QED
    BY <2>2, <2>4, <2>5, ReadsLines
<1>10. ASSUME NEW w \in Workers, LineGone(w)
       PROVE  SingleLines'
  BY <1>c, <1>10 DEF LineGone, rows
<1>11. ASSUME NEW w \in Workers, LineCommit(w)
       PROVE  SingleLines'
  BY <1>11, LineCommitLines
<1>12. ASSUME NEW w \in Workers, NEW x \in Sales, ChargeCheck(w, x)
       PROVE  SingleLines'
  <2> DEFINE due == grand[x] - paidTotal[x]
  <2>1. req' = [req EXCEPT ![w] = [Idle EXCEPT !.op = "charge", !.step = "begin", !.sale = x,
                                               !.amount = due]]
    BY <1>12 DEF ChargeCheck
  <2> HIDE DEF due
  <2>2. req'[w].op = "charge" /\ \A v \in Workers \ {w} : req'[v] = req[v]
    BY <1>a, <2>1 DEF Idle
  <2>3. line' = line /\ contended \subseteq contended'
    BY <1>12 DEF ChargeCheck, Contend, rows
  <2>4. QED
    BY <2>2, <2>3, ReadsLines
<1>13. ASSUME NEW w \in Workers, ChargeBegin(w)
       PROVE  SingleLines'
  <2>1. req'[w].op = "charge" /\ \A v \in Workers \ {w} : req'[v] = req[v]
    BY <1>a, <1>13 DEF ChargeBegin, Request
  <2>2. UNCHANGED <<line, contended>>
    BY <1>13 DEF ChargeBegin, rows
  <2>3. QED
    BY <2>1, <2>2, ReadsLines
<1>14. ASSUME NEW w \in Workers, ChargeRefused(w)
       PROVE  SingleLines'
  BY <1>c, <1>14 DEF ChargeRefused, rows
<1>15. ASSUME NEW w \in Workers, NEW requiresInvoice \in BOOLEAN,
              ChargeCommit(w, requiresInvoice)
       PROVE  SingleLines'
  BY <1>c, <1>15 DEF ChargeCommit
<1>16. ASSUME NEW w \in Workers, AccountRejected(w)
       PROVE  SingleLines'
  BY <1>1, <1>16 DEF AccountRejected
<1>17. ASSUME NEW t \in Tables, DeleteTable(t)
       PROVE  SingleLines'
  BY <1>b, <1>17 DEF DeleteTable
<1>18. ASSUME NEW t \in Tables, NEW s \in HandStatuses, SetTableStatus(t, s)
       PROVE  SingleLines'
  BY <1>b, <1>18 DEF SetTableStatus
<1>19. QED
  BY <1>1, <1>2, <1>3, <1>4, <1>5, <1>6, <1>7, <1>8, <1>9, <1>10, <1>11, <1>12, <1>13,
     <1>14, <1>15, <1>16, <1>17, <1>18 DEF Next, Serve

-----------------------------------------------------------------------------
(* Closed accounts *)

\* Committing a line touches no closed account but a contended one.
LEMMA LineCommitFrozen ==
  ASSUME Types, Overlaps, Charges, NEW w \in Workers, LineCommit(w)
  PROVE  FrozenStep
<1> DEFINE y == req[w].sale
           l == req[w].line
           row == NewRow(w)
<1> USE NoneAssumption
<1>1. y \in Sales /\ l \in Lines
  BY DEF LineCommit, Types, RequestShape, Shaped
<1>2. row = Unused \/ row = Row(y, req[w].product, req[w].quantity)
  BY DEF NewRow
<1>3. /\ \A x \in Sales \ {y} : grand'[x] = grand[x]
      /\ \A k \in Lines : line'[k] = IF k = l THEN row ELSE line[k]
  BY <1>1 DEF LineCommit, Types, TypeOK
<1>4. UNCHANGED <<status, tableOf, paidTotal, payments, invoices, contended>>
  BY DEF LineCommit
<1>5. y \notin contended => status[y] # "CLOSED"
  BY <1>1 DEF Charges, ClosedQuiet
<1>6. LineOwned
  BY DEF Overlaps
<1>7. line[l] = Unused \/ line[l].sale = y
  BY <1>1, <1>6 DEF LineOwned
<1> HIDE DEF y, l, row
<1>8. line[l].sale \in {y, NoSale} /\ row.sale \in {y, NoSale}
  BY <1>2, <1>7 DEF Unused, Row
<1>9. QED
  BY <1>3, <1>4, <1>5, <1>8 DEF FrozenStep

\* A charge that is late for a closed account books a payment and nothing else,
\* and only if another request on the account overlapped.
LEMMA ChargeCommitFrozen ==
  ASSUME Types, Charges, NEW w \in Workers, NEW requiresInvoice \in BOOLEAN,
         ChargeCommit(w, requiresInvoice)
  PROVE  FrozenStep
<1> DEFINE y == req[w].sale
<1>1. y \in Sales
  BY DEF ChargeCommit, Types, RequestShape, Shaped
<1>2. UNCHANGED <<tableOf, grand, line, contended>>
  BY DEF ChargeCommit
<1>3. \A x \in Sales \ {y} : payments'[x] = payments[x] /\ invoices'[x] = invoices[x]
  BY <1>1 DEF ChargeCommit, Types, TypeOK
<1>4. \A x \in Sales : status[x] = "CLOSED" =>
        status'[x] = "CLOSED" /\ paidTotal'[x] = paidTotal[x]
  BY <1>1 DEF ChargeCommit, Types, TypeOK
<1>5. y \notin contended => status[y] # "CLOSED"
  BY <1>1 DEF Charges, ClosedQuiet
<1> HIDE DEF y
<1>6. QED
  BY <1>2, <1>3, <1>4, <1>5 DEF FrozenStep

\* Every statement leaves closed accounts frozen.
LEMMA NextFrozen == Types /\ Overlaps /\ Charges /\ [Next]_vars => FrozenStep
<1> SUFFICES ASSUME Types, Overlaps, Charges, [Next]_vars
             PROVE  FrozenStep
  OBVIOUS
<1>a. ASSUME UNCHANGED <<status, tableOf, grand, paidTotal, line, payments, invoices>>
      PROVE  FrozenStep
  BY <1>a DEF FrozenStep
<1>b. ASSUME UNCHANGED rows
      PROVE  FrozenStep
  BY <1>a, <1>b DEF rows
<1>1. CASE UNCHANGED vars
  BY <1>1, <1>b DEF vars
<1>2. ASSUME NEW w \in Workers, NEW t \in Tables, OpenCheck(w, t) \/ OpenNothing(w, t)
      PROVE  FrozenStep
  BY <1>1, <1>2, <1>b DEF OpenCheck, OpenStart, OpenNothing
<1>3. ASSUME NEW w \in Workers, OpenCommit(w)
      PROVE  FrozenStep
  <2>1. PICK x \in Sales : /\ status[x] = "none"
                           /\ status' = [status EXCEPT ![x] = "DRAFT"]
                           /\ tableOf' = [tableOf EXCEPT ![x] = req[w].table]
    BY <1>3 DEF OpenCommit
  <2>2. \A y \in Sales \ {x} : status'[y] = status[y] /\ tableOf'[y] = tableOf[y]
    BY <2>1 DEF Types, TypeOK
  <2>3. UNCHANGED <<grand, paidTotal, line, payments, invoices>>
    BY <1>3 DEF OpenCommit
  <2>4. QED
    BY <2>1, <2>2, <2>3 DEF FrozenStep
<1>4. ASSUME NEW w \in Workers, NEW x \in Sales, NEW p \in Products, NEW n \in Quantities,
             AddCheck(w, x, p, n)
      PROVE  FrozenStep
  BY <1>b, <1>4 DEF AddCheck
<1>5. ASSUME NEW w \in Workers, NEW l \in Lines, NEW n \in Quantities, EditCheck(w, l, n)
      PROVE  FrozenStep
  BY <1>b, <1>5 DEF EditCheck
<1>6. ASSUME NEW w \in Workers, NEW x \in Sales, ChargeCheck(w, x)
      PROVE  FrozenStep
  BY <1>b, <1>6 DEF ChargeCheck
<1>7. ASSUME NEW w \in Workers,
             \/ AddFindExisting(w) \/ AddFindNone(w) \/ LineWrite(w) \/ LineGone(w)
             \/ ChargeBegin(w) \/ ChargeRefused(w)
      PROVE  FrozenStep
  BY <1>b, <1>7 DEF AddFindExisting, AddFindNone, LineWrite, LineGone, ChargeBegin,
                    ChargeRefused
<1>8. ASSUME NEW w \in Workers, LineCommit(w)
      PROVE  FrozenStep
  BY <1>8, LineCommitFrozen
<1>9. ASSUME NEW w \in Workers, NEW requiresInvoice \in BOOLEAN,
             ChargeCommit(w, requiresInvoice)
      PROVE  FrozenStep
  BY <1>9, ChargeCommitFrozen
<1>10. ASSUME NEW w \in Workers, AccountRejected(w)
       PROVE  FrozenStep
  BY <1>1, <1>10 DEF AccountRejected
<1>11. ASSUME NEW t \in Tables, DeleteTable(t)
       PROVE  FrozenStep
  BY <1>a, <1>11 DEF DeleteTable
<1>12. ASSUME NEW t \in Tables, NEW s \in HandStatuses, SetTableStatus(t, s)
       PROVE  FrozenStep
  BY <1>a, <1>12 DEF SetTableStatus
<1>13. QED
  BY <1>1, <1>2, <1>3, <1>4, <1>5, <1>6, <1>7, <1>8, <1>9, <1>10, <1>11, <1>12
     DEF Next, Serve

-----------------------------------------------------------------------------
(* Theorems *)

IInv == Types /\ Overlaps /\ Charges /\ Places /\ SingleLines

\* The inductive invariant holds in every state that the handlers reach.
THEOREM Invariance == Spec => []IInv
<1>1. Init => IInv
  BY InitTypes, InitOverlaps, InitCharges, InitPlaces, InitLines DEF IInv
<1>2. IInv /\ [Next]_vars => IInv'
  BY NextTypes, NextOverlaps, NextCharges, NextPlaces, NextLines DEF IInv
<1>3. QED
  BY <1>1, <1>2, PTL DEF Spec

\* The rows and the requests always have the types the handlers give them.
THEOREM TypeCorrect == Spec => []TypeOK
<1>1. IInv => TypeOK
  BY DEF IInv, Types
<1>2. QED
  BY <1>1, Invariance, PTL

\* The grandTotal of an account on which no two requests overlapped is the sum
\* of its lines (recalculateAndFind).
THEOREM TotalsAreExact == Spec => []TotalsExact
<1>1. IInv => TotalsExact
  BY DEF IInv, Overlaps
<1>2. QED
  BY <1>1, Invariance, PTL

\* Such an account, once it is closed, is paid by one payment of its grandTotal
\* and invoiced for it at most once (chargeAccount).
THEOREM AccountsArePaidOnce == Spec => []PaidOnce
<1>1. IInv => PaidOnce
  BY DEF IInv, Charges
<1>2. QED
  BY <1>1, Invariance, PTL

\* Whatever overlaps, an account has payments exactly when it is closed, and its
\* paidTotal is the first of them (chargeAccount's update of a draft only).
THEOREM PaymentsClose == Spec => []PaymentsCloseAccounts
<1>1. IInv => PaymentsCloseAccounts
  BY DEF IInv, Charges
<1>2. QED
  BY <1>1, Invariance, PTL

\* A table on which no two opens overlapped has at most one open account
\* (openAccount looks for one before it creates one).
THEOREM OneDraft == Spec => []OneDraftPerTable
<1>1. IInv => OneDraftPerTable
  BY DEF IInv, Places
<1>2. QED
  BY <1>1, Invariance, PTL

\* A table shows whether it has an open account, unless its status was set by
\* hand, or opens of it or requests on an account of it overlapped.
THEOREM TablesShowAccounts == Spec => []TableShowsAccount
<1>1. IInv => TableShowsAccount
  BY DEF IInv, Places
<1>2. QED
  BY <1>1, Invariance, PTL

\* An account on which no two requests overlapped shows a product on one line
\* (addItem adds to the line that exists).
THEOREM ProductsOnOneLine == Spec => []OneLinePerProduct
<1>1. IInv => OneLinePerProduct
  BY DEF IInv, SingleLines
<1>2. QED
  BY <1>1, Invariance, PTL

\* No step reopens a closed account or changes what it was paid, and none
\* touches one on which no two requests overlapped.
THEOREM ClosedStaysFrozen == Spec => ClosedAccountFrozen
<1>1. IInv /\ [Next]_vars => [FrozenStep]_vars
  BY NextFrozen DEF IInv
<1>2. QED
  BY <1>1, Invariance, PTL DEF Spec, ClosedAccountFrozen

=============================================================================
