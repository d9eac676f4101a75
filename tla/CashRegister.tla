---------------------------- MODULE CashRegister ----------------------------
(***************************************************************************)
(* The cash register of one branch: cash sessions, the movements booked on *)
(* them, and the part of charging an account that touches the register.    *)
(* Source: apps/api/src/modules/cash/cash.service.ts, cash.repository.ts   *)
(* and chargeAccount of sales/table-accounts.repository.ts.                *)
(*                                                                         *)
(* A request handler is a worker.  PostgreSQL runs at READ COMMITTED and   *)
(* the code asks for no stronger isolation and no explicit lock, so each   *)
(* SQL statement that reads is a step of its own and sees whatever is      *)
(* committed by then; the writes of one transaction appear together, in    *)
(* the step that commits it.                                               *)
(***************************************************************************)
EXTENDS Integers, FiniteSets, Functions

CONSTANTS
  Workers,      \* request handlers that may run at the same time
  Sessions,     \* ids of cash_sessions rows
  Sales,        \* ids of the sales rows that get charged
  Amounts,      \* amounts of manual movements and opening balances
  Counted,      \* amounts a cashier may count when closing
  Methods,      \* payment methods: "CASH" and the others a client may pay by
  Due,          \* Due[x]: the balance due of sale x
  MaxBooked,    \* bound: a manual movement leaves 0 .. MaxBooked in the drawer
  NoSession,    \* "no session" in a request or on a sale
  NoSale        \* "no sale" in a request

ASSUME FiniteAssumption ==
  IsFiniteSet(Sessions) /\ IsFiniteSet(Sales) /\ IsFiniteSet(Methods)
ASSUME NoSessionAssumption == NoSession \notin Sessions
ASSUME NoSaleAssumption == NoSale \notin Sales
ASSUME AmountsAssumption == Amounts \subseteq Nat /\ Counted \subseteq Nat
ASSUME MethodsAssumption == "CASH" \in Methods
ASSUME DueAssumption == Due \in [Sales -> Nat \ {0}]
ASSUME MaxBookedAssumption == MaxBooked \in Nat

VARIABLES
  status,       \* status[s]: the row of session s ("none": not created)
  booked,       \* booked[s]: signed total of the cash_movements rows of s
  closing,      \* closing[s]: the amounts written when s was closed
  saleCash,     \* saleCash[s][x]: SALE_PAYMENT rows of s that refer to sale x
  sale,         \* sale[x]: status and cashSessionId of the row of sale x
  paid,         \* paid[x][m]: total of the payments rows of x by method m
  req,          \* req[w]: the request w is serving
  (* History, read by no action: *)
  raced,        \* the sessions whose close overlapped another request on them
  openRaced,    \* two opens of a session overlapped
  saleRaced     \* the sales of which two charges overlapped

vars == <<status, booked, closing, saleCash, sale, paid, req,
          raced, openRaced, saleRaced>>

-----------------------------------------------------------------------------
(* Data *)

\* The movement types a client may register; OPENING_BALANCE is written only
\* by openSession.
InputTypes == {"CASH_IN", "CASH_OUT", "SALE_PAYMENT", "REFUND", "TIP", "ADJUSTMENT"}

MovementSign(type) == IF type \in {"CASH_OUT", "REFUND"} THEN -1 ELSE 1

NoClosing == [expected |-> 0, counted |-> 0, difference |-> 0]

Serving(op, step, s, x, amount, method) ==
  [op |-> op, step |-> step, session |-> s, sale |-> x, amount |-> amount,
   method |-> method]

Idle == Serving("idle", "none", NoSession, NoSale, 0, "CASH")

Request == [op      : {"idle", "open", "register", "close", "charge"},
            step    : {"none", "list", "find", "commit"},
            session : Sessions \cup {NoSession},
            sale    : Sales \cup {NoSale},
            amount  : Int,
            method  : Methods]

OpenSessions == {s \in Sessions : status[s] = "OPEN"}

\* The requests of the other workers.
Others(w) == {req[v] : v \in Workers \ {w}}

\* Those of them that work on session s, that close it, that charge sale x.
OnSession(w, s) == {r \in Others(w) : r.session = s}
ClosesOn(w, s) == {r \in OnSession(w, s) : r.op = "close"}
OnSale(w, x) == {r \in Others(w) : r.sale = x}

Answered(w) == req' = [req EXCEPT ![w] = Idle]

-----------------------------------------------------------------------------
Init ==
  /\ status = [s \in Sessions |-> "none"]
  /\ booked = [s \in Sessions |-> 0]
  /\ closing = [s \in Sessions |-> NoClosing]
  /\ saleCash = [s \in Sessions |-> [x \in Sales |-> 0]]
  /\ sale = [x \in Sales |-> [status |-> "DRAFT", session |-> NoSession]]
  /\ paid = [x \in Sales |-> [m \in Methods |-> 0]]
  /\ req = [w \in Workers |-> Idle]
  /\ raced = {}
  /\ openRaced = FALSE
  /\ saleRaced = {}

-----------------------------------------------------------------------------
\* Bound: an open starts only while an id is left for it.
FreeIds == Cardinality({s \in Sessions : status[s] = "none"})
OpensInFlight == Cardinality({w \in Workers : req[w].op = "open"})

(* openSession: look for an open session, then create one in another       *)
(* transaction, together with its OPENING_BALANCE movement.                *)

\* Mutant: the check for an open session is missing.
OpenCheckUnguarded(w, opening) ==
  /\ req[w] = Idle
  /\ FreeIds > OpensInFlight
  /\ req' = [req EXCEPT ![w] = Serving("open", "commit", NoSession, NoSale, opening, "CASH")]
  /\ openRaced' = (openRaced \/ \E r \in Others(w) : r.op = "open")
  /\ UNCHANGED <<status, booked, closing, saleCash, sale, paid, raced, saleRaced>>

OpenCheck(w, opening) ==
  /\ req[w] = Idle
  /\ OpenSessions = {}
  /\ FreeIds > OpensInFlight
  /\ req' = [req EXCEPT ![w] = Serving("open", "commit", NoSession, NoSale, opening, "CASH")]
  /\ openRaced' = (openRaced \/ \E r \in Others(w) : r.op = "open")
  /\ UNCHANGED <<status, booked, closing, saleCash, sale, paid, raced, saleRaced>>

OpenCommit(w) ==
  /\ req[w].op = "open"
  /\ \E s \in Sessions :
       /\ status[s] = "none"
       /\ status' = [status EXCEPT ![s] = "OPEN"]
       /\ booked' = [booked EXCEPT ![s] = req[w].amount]
  /\ Answered(w)
  /\ UNCHANGED <<closing, saleCash, sale, paid, raced, openRaced, saleRaced>>

\* "This branch already has an open cash session."
OpenRejected(w) ==
  /\ req[w] = Idle
  /\ OpenSessions # {}
  /\ UNCHANGED vars

-----------------------------------------------------------------------------
(* registerMovement: read the session, then insert the movement row.       *)

\* Mutant: any existing session takes a movement, a closed one too.
RegisterCheckAnySession(w, s, type, amount) ==
  LET delta == MovementSign(type) * amount IN
  /\ req[w] = Idle
  /\ status[s] # "none"
  /\ amount > 0
  /\ booked[s] + delta \in 0 .. MaxBooked
  /\ req' = [req EXCEPT ![w] = Serving("register", "commit", s, NoSale, delta, "CASH")]
  /\ raced' = raced \cup {r.session : r \in ClosesOn(w, s)}
  /\ UNCHANGED <<status, booked, closing, saleCash, sale, paid, openRaced, saleRaced>>

RegisterCheck(w, s, type, amount) ==
  LET delta == MovementSign(type) * amount IN
  /\ req[w] = Idle
  /\ status[s] = "OPEN"
  /\ amount > 0
  /\ booked[s] + delta \in 0 .. MaxBooked
  /\ req' = [req EXCEPT ![w] = Serving("register", "commit", s, NoSale, delta, "CASH")]
  /\ raced' = raced \cup {r.session : r \in ClosesOn(w, s)}
  /\ UNCHANGED <<status, booked, closing, saleCash, sale, paid, openRaced, saleRaced>>

RegisterCommit(w) ==
  /\ req[w].op = "register"
  /\ booked' = [booked EXCEPT ![req[w].session] = @ + req[w].amount]
  /\ Answered(w)
  /\ UNCHANGED <<status, closing, saleCash, sale, paid, raced, openRaced, saleRaced>>

-----------------------------------------------------------------------------
(* closeSession: read the session, list its movements and add them up,     *)
(* then update the row by id, whatever its status is by then.              *)

CloseCheck(w, s) ==
  /\ req[w] = Idle
  /\ status[s] = "OPEN"
  /\ req' = [req EXCEPT ![w] = Serving("close", "list", s, NoSale, 0, "CASH")]
  /\ raced' = raced \cup {r.session : r \in OnSession(w, s)}
  /\ UNCHANGED <<status, booked, closing, saleCash, sale, paid, openRaced, saleRaced>>

\* Mutant: the payments of sales are left out of the sum.
CloseListNoSales(w) ==
  /\ req[w].op = "close"
  /\ req[w].step = "list"
  /\ LET s == req[w].session
         manual == booked[s] - SumFunction(saleCash[s])
     IN  req' = [req EXCEPT ![w] = Serving("close", "commit", s, NoSale, manual, "CASH")]
  /\ UNCHANGED <<status, booked, closing, saleCash, sale, paid,
                 raced, openRaced, saleRaced>>

CloseList(w) ==
  /\ req[w].op = "close"
  /\ req[w].step = "list"
  /\ LET s == req[w].session IN
     req' = [req EXCEPT ![w] = Serving("close", "commit", s, NoSale, booked[s], "CASH")]
  /\ UNCHANGED <<status, booked, closing, saleCash, sale, paid,
                 raced, openRaced, saleRaced>>

CloseCommit(w, counted) ==
  /\ req[w].op = "close"
  /\ req[w].step = "commit"
  /\ status' = [status EXCEPT ![req[w].session] = "CLOSED"]
  /\ closing' = [closing EXCEPT ![req[w].session] =
                   [expected   |-> req[w].amount,
                    counted    |-> counted,
                    difference |-> counted - req[w].amount]]
  /\ Answered(w)
  /\ UNCHANGED <<booked, saleCash, sale, paid, raced, openRaced, saleRaced>>

\* "The cash session is already closed."
SessionRejected(w) ==
  /\ req[w] = Idle
  /\ \E s \in Sessions : status[s] = "CLOSED"
  /\ UNCHANGED vars

-----------------------------------------------------------------------------
(* chargeAccount, the part the register sees: find the sale in DRAFT, find *)
(* any open session of the branch, then write the payment, the movement of *)
(* a cash payment and the closed sale in one commit.  The update of the    *)
(* sale row matches only a row still in DRAFT; the rest is written anyway. *)

\* Mutant: a closed sale can be charged.
ChargeCheckAnySale(w, x, method) ==
  /\ req[w] = Idle
  /\ paid[x][method] = 0
  /\ req' = [req EXCEPT ![w] = Serving("charge", "find", NoSession, x, Due[x], method)]
  /\ saleRaced' = saleRaced \cup {r.sale : r \in OnSale(w, x)}
  /\ UNCHANGED <<status, booked, closing, saleCash, sale, paid, raced, openRaced>>

ChargeCheck(w, x, method) ==
  /\ req[w] = Idle
  /\ sale[x].status = "DRAFT"
  /\ req' = [req EXCEPT ![w] = Serving("charge", "find", NoSession, x, Due[x], method)]
  /\ saleRaced' = saleRaced \cup {r.sale : r \in OnSale(w, x)}
  /\ UNCHANGED <<status, booked, closing, saleCash, sale, paid, raced, openRaced>>

\* Mutant: the charge takes any session of the branch, not an open one.
ChargeFindAny(w, s) ==
  /\ req[w].op = "charge"
  /\ req[w].step = "find"
  /\ status[s] # "none"
  /\ req' = [req EXCEPT ![w].step = "commit", ![w].session = s]
  /\ raced' = raced \cup {r.session : r \in ClosesOn(w, s)}
  /\ UNCHANGED <<status, booked, closing, saleCash, sale, paid, openRaced, saleRaced>>

ChargeFind(w, s) ==
  /\ req[w].op = "charge"
  /\ req[w].step = "find"
  /\ s \in OpenSessions
  /\ req' = [req EXCEPT ![w].step = "commit", ![w].session = s]
  /\ raced' = raced \cup {r.session : r \in ClosesOn(w, s)}
  /\ UNCHANGED <<status, booked, closing, saleCash, sale, paid, openRaced, saleRaced>>

\* NO_ACTIVE_CASH_SESSION.
ChargeWithoutSession(w) ==
  /\ req[w].op = "charge"
  /\ req[w].step = "find"
  /\ OpenSessions = {}
  /\ Answered(w)
  /\ UNCHANGED <<status, booked, closing, saleCash, sale, paid,
                 raced, openRaced, saleRaced>>

\* Consuming the stock failed (INSUFFICIENT_STOCK, INVENTORY_NOT_CONFIGURED).
ChargeRefused(w) ==
  /\ req[w].op = "charge"
  /\ req[w].step = "commit"
  /\ Answered(w)
  /\ UNCHANGED <<status, booked, closing, saleCash, sale, paid,
                 raced, openRaced, saleRaced>>

\* Mutant: a cash payment is booked as money that leaves the drawer.
CashPartNegated(w) == IF req[w].method = "CASH" THEN -req[w].amount ELSE 0

CashPart(w) == IF req[w].method = "CASH" THEN req[w].amount ELSE 0

\* Mutant: the closed sale is not linked to the session.
ChargeCommitUnlinked(w) ==
  LET s == req[w].session
      x == req[w].sale
  IN
  /\ req[w].op = "charge"
  /\ req[w].step = "commit"
  /\ paid' = [paid EXCEPT ![x][req[w].method] = @ + req[w].amount]
  /\ booked' = [booked EXCEPT ![s] = @ + CashPart(w)]
  /\ saleCash' = [saleCash EXCEPT ![s][x] = @ + CashPart(w)]
  /\ sale' = [sale EXCEPT ![x].status = "CLOSED"]
  /\ Answered(w)
  /\ UNCHANGED <<status, closing, raced, openRaced, saleRaced>>

ChargeCommit(w) ==
  LET s == req[w].session
      x == req[w].sale
  IN
  /\ req[w].op = "charge"
  /\ req[w].step = "commit"
  /\ paid' = [paid EXCEPT ![x][req[w].method] = @ + req[w].amount]
  /\ booked' = [booked EXCEPT ![s] = @ + CashPart(w)]
  /\ saleCash' = [saleCash EXCEPT ![s][x] = @ + CashPart(w)]
  /\ sale' = IF sale[x].status = "DRAFT"
               THEN [sale EXCEPT ![x] = [status |-> "CLOSED", session |-> s]]
               ELSE sale
  /\ Answered(w)
  /\ UNCHANGED <<status, closing, raced, openRaced, saleRaced>>

-----------------------------------------------------------------------------
Next ==
  \E w \in Workers :
    \/ \E opening \in Amounts : OpenCheck(w, opening)
    \/ OpenCommit(w)
    \/ OpenRejected(w)
    \/ \E s \in Sessions, type \in InputTypes, amount \in Amounts :
         RegisterCheck(w, s, type, amount)
    \/ RegisterCommit(w)
    \/ \E s \in Sessions : CloseCheck(w, s)
    \/ CloseList(w)
    \/ \E counted \in Counted : CloseCommit(w, counted)
    \/ SessionRejected(w)
    \/ \E x \in Sales, method \in Methods : ChargeCheck(w, x, method)
    \/ \E s \in Sessions : ChargeFind(w, s)
    \/ ChargeWithoutSession(w)
    \/ ChargeRefused(w)
    \/ ChargeCommit(w)

Spec == Init /\ [][Next]_vars

-----------------------------------------------------------------------------
(* What the Z report shows for session s (buildCashSessionTotals).         *)

CashExpected(s) == booked[s]

LinkedSales(s) == {x \in Sales : sale[x].status = "CLOSED" /\ sale[x].session = s}

NonCash(x) == SumFunctionOnSet(paid[x], Methods \ {"CASH"})

BankedExpected(s) == SumFunctionOnSet([x \in Sales |-> NonCash(x)], LinkedSales(s))

-----------------------------------------------------------------------------
(* Properties *)

TypeOK ==
  /\ status \in [Sessions -> {"none", "OPEN", "CLOSED"}]
  /\ booked \in [Sessions -> Int]
  /\ closing \in [Sessions -> [expected : Int, counted : Int, difference : Int]]
  /\ saleCash \in [Sessions -> [Sales -> Nat]]
  /\ sale \in [Sales -> [status : {"DRAFT", "CLOSED"}, session : Sessions \cup {NoSession}]]
  /\ paid \in [Sales -> [Methods -> Nat]]
  /\ req \in [Workers -> Request]
  /\ raced \subseteq Sessions
  /\ openRaced \in BOOLEAN
  /\ saleRaced \subseteq Sales

\* A branch never has two open sessions, unless two requests to open one
\* overlapped: the check of openSession and its insert are two transactions
\* and no unique index backs the check.
OneOpenSession ==
  openRaced \/ \A s, t \in OpenSessions : s = t

\* A closed session's stored expectedAmount is the sum of its movements, which
\* is what the Z report shows as cashExpectedAmount, and its difference is
\* counted against that sum, unless the close overlapped another request on
\* the session: closeSession adds up the movements before it writes.
CloseBalances ==
  \A s \in Sessions :
    status[s] = "CLOSED" /\ s \notin raced =>
      /\ closing[s].expected = CashExpected(s)
      /\ closing[s].counted = CashExpected(s) + closing[s].difference

\* Whatever overlaps, the Z reports of all sessions together account for every
\* payment once: the cash payments of a sale are movements of some session, and
\* the other payments are listed by the one session their sale is linked to.
ZReportsComplete ==
  /\ \A x \in Sales :
       paid[x]["CASH"] = SumFunction([s \in Sessions |-> saleCash[s][x]])
  /\ SumFunction([s \in Sessions |-> BankedExpected(s)])
       = SumFunction([x \in Sales |-> NonCash(x)])

\* A sale charged by one request at a time is paid exactly once, its due
\* amount, and a cash payment is in the drawer of the very session the sale is
\* linked to.
SalePaidOnce ==
  \A x \in Sales :
    sale[x].status = "CLOSED" /\ x \notin saleRaced =>
      /\ sale[x].session \in Sessions
      /\ \E m \in Methods :
           /\ paid[x] = [k \in Methods |-> IF k = m THEN Due[x] ELSE 0]
           /\ \A s \in Sessions :
                saleCash[s][x] = IF s = sale[x].session /\ m = "CASH" THEN Due[x] ELSE 0

FrozenStep ==
  \A s \in Sessions :
    status[s] = "CLOSED" =>
      /\ status'[s] = "CLOSED"
      /\ s \notin raced' => closing'[s] = closing[s] /\ booked'[s] = booked[s]

\* No step changes the books of a closed session that was closed without an
\* overlap, and no step at all reopens a closed session.
ClosedSessionFrozen == [][FrozenStep]_vars

\* The register implements CashDrawer: seen from outside, opening, moving money
\* and closing are single steps, for every session whose close overlapped no
\* other request on it; the others drop out when the overlap begins.
Drawer == INSTANCE CashDrawer WITH
  state    <- [s \in Sessions |-> IF s \in raced THEN "out" ELSE status[s]],
  total    <- [s \in Sessions |-> IF s \in raced THEN 0 ELSE booked[s]],
  expected <- [s \in Sessions |-> IF s \in raced THEN 0 ELSE closing[s].expected]

ImplementsCashDrawer == Drawer!Spec

\* What openSession says when it refuses (cash.service.ts): "This branch
\* already has an open cash session."  Stated of the branch at any time.
BranchHasOneOpenSession == \A s, t \in OpenSessions : s = t

=============================================================================
