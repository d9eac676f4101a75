----------------------------- MODULE PosScreen -------------------------------
(***************************************************************************)
(* The screen in which a waiter takes the order of a table: an account     *)
(* that is fetched, changed on the screen before the server has answered,  *)
(* put back when it refuses, and fetched again after every answer.         *)
(* Source: apps/desktop/src/renderer/src/hooks/operations/                 *)
(* useTableAccount.ts, components/pos/PosWorkspace.tsx and ComandaPanel.tsx *)
(* and components/dining/AccountDialogs.tsx.                               *)
(*                                                                         *)
(* The API serves each call in one step here: how the requests of an       *)
(* account overlap inside the server is what TableAccounts is about.  The  *)
(* screen looks at one table; the prices are without taxes and discounts,  *)
(* as the API computes them.                                               *)
(***************************************************************************)
EXTENDS FloorEditor

CONSTANTS
  TheTable,   \* the table whose account is on the screen
  Sales,      \* ids of sales
  Products,   \* products of the menu
  Price,      \* Price[p]: the price of product p
  Calls,      \* calls that may be under way at the same time
  Nothing,    \* no product
  MaxTaps,    \* bound: what the waiter does
  MaxLine,    \* bound: lines that are made
  MaxQuantity \* bound: how much of a product is asked for

ASSUME TableAssumption == TheTable \in Tables
ASSUME SalesAssumption == NoId \notin Sales
ASSUME ProductsAssumption == IsFiniteSet(Products) /\ IsFiniteSet(Calls)
ASSUME PriceAssumption == Price \in [Products -> Nat \ {0}] /\ Nothing \notin Products
ASSUME TapsAssumption == MaxTaps \in Nat /\ MaxLine \in Nat /\ MaxQuantity \in Nat

VARIABLES
  sale,      \* sale[x]: [status, lines] of sale x of the table
  made,      \* ids that lines were given so far
  account,   \* the account in the cache
  pull,      \* [step, data, failed, early, mixed]: the fetch of the account; history:
             \* failed: the last one did; early: read before a call was served; mixed: so is
             \* what is shown
  call,      \* call[k]: a call of the screen that is under way
  dialog,    \* the dialog that is open
  pending,   \* the product that waits for the account to be opened
  amount,    \* the amount in the form of the charge
  taps,      \* how many of the bound are used up
  (* History, read by no action: *)
  wanted,    \* wanted[p]: how much of p the waiter asked for
  upset,     \* something came between what was asked for and what is stored
  elsewhere  \* the account changed, unseen, since it was last read

posVars == <<sale, made, account, pull, call, dialog, pending, amount, taps, wanted, upset,
             elsewhere>>
vars == <<roomVars, floorVars, posVars>>

-----------------------------------------------------------------------------
(* Accounts *)

\* The id of a line that the server has not named yet.
Optimistic == 0

NoLine == [id |-> Optimistic, quantity |-> 0]
NoLines == [p \in Products |-> NoLine]
NoSale == [status |-> "none", lines |-> NoLines]

Unknown == [sale |-> NoId, known |-> FALSE, lines |-> NoLines]
NoAccount == [Unknown EXCEPT !.known = TRUE]

Drafts == {x \in Sales : sale[x].status = "DRAFT"}

\* getCurrentAccount: the table's account that is open, or null.
Current ==
  IF Drafts = {} THEN NoAccount
  ELSE LET x == CHOOSE x \in Drafts : TRUE
       IN [sale |-> x, known |-> TRUE, lines |-> sale[x].lines]

Has(lines, p) == lines[p].quantity > 0
Ordered(lines) == {p \in Products : Has(lines, p)}
Quantities(lines) == [p \in Products |-> lines[p].quantity]

\* withItems: the balance is added up again on the screen.
Balance(lines) == SumFunction([p \in Ordered(lines) |-> Price[p] * lines[p].quantity])

WithQuantity(lines, p, n) ==
  [lines EXCEPT ![p] = IF n = 0 THEN NoLine ELSE [@ EXCEPT !.quantity = n]]

NoCall == [op |-> "idle", step |-> "none", sale |-> NoId, product |-> Nothing, line |-> Optimistic,
           quantity |-> 0, amount |-> 0, previous |-> Unknown, here |-> FALSE, behind |-> {}]

ItemOps == {"add", "change"}
Unanswered(k) == call[k].op # "idle" /\ call[k].step # "settling"
Waiting == {k \in Calls : call[k].op \in ItemOps /\ Unanswered(k)}

-----------------------------------------------------------------------------
(* The screen *)

AtPos == page = "pos" /\ TheTable \in ShownTables(shown)

\* isMutating: the buttons rest.  Changes of the items do not make them.
Mutating == \E k \in Calls : call[k].op \in {"open", "charge", "command"} /\ call[k].here

Tapping == AtPos /\ ~Mutating /\ taps < MaxTaps

Begins(k, c) ==
  /\ call[k] = NoCall
  /\ call' = [call EXCEPT ![k] = [c EXCEPT
       !.step = "sent", !.here = page = "pos",
       !.behind = {j \in Waiting : call[j].step = "sent"}]]

\* cancelQueries: what a fetch under way brings is not looked at.
Cancelled == [pull EXCEPT !.step = "idle", !.early = FALSE]

\* beginOptimistic and the change of the cache: what is on the screen is kept for a rollback.
Optimistically(k, c, lines, p, n) ==
  LET settled == Waiting = {} /\ pull.step = "idle" IN
  /\ Begins(k, [c EXCEPT !.previous = account])
  /\ pull' = Cancelled
  /\ account' = IF account.sale = c.sale THEN [account EXCEPT !.lines = lines] ELSE account
  /\ wanted' = [(IF settled THEN Quantities(account.lines) ELSE wanted) EXCEPT ![p] = n]
  /\ upset' = IF settled THEN elsewhere \/ pull.failed ELSE upset \/ pull.mixed

Adds(k, x, p) ==
  LET n == account.lines[p].quantity + 1 IN
  Optimistically(k, [NoCall EXCEPT !.op = "add", !.sale = x, !.product = p],
                 WithQuantity(account.lines, p, n), p, n)

\* handleAddProduct: without an account the product waits for one.
Tap(k, p) ==
  /\ Tapping /\ dialog = "none"
  /\ IF account.sale # NoId
       THEN Adds(k, account.sale, p) /\ UNCHANGED <<dialog, pending>>
       ELSE /\ dialog' = "open" /\ pending' = p
            /\ UNCHANGED <<call, pull, account, wanted, upset>>
  /\ taps' = taps + 1
  /\ UNCHANGED <<roomVars, floorVars, sale, made, amount, elsewhere>>

\* The buttons beside a line: one less, one more, none.  The quantity is sent, not the step.
ChangeQuantity(k, p, n) ==
  LET line == account.lines[p] IN
  /\ Tapping /\ dialog = "none" /\ account.sale # NoId /\ Has(account.lines, p)
  /\ n \in {0, line.quantity - 1, line.quantity + 1}
  /\ Optimistically(k, [NoCall EXCEPT !.op = "change", !.sale = account.sale, !.product = p,
                                      !.line = line.id, !.quantity = n],
                    WithQuantity(account.lines, p, n), p, n)
  /\ taps' = taps + 1
  /\ UNCHANGED <<roomVars, floorVars, sale, made, dialog, pending, amount, elsewhere>>

\* The form of an account to be opened: in the panel, or in the dialog.
SubmitOpen(k) ==
  /\ Tapping
  /\ dialog = "open" \/ (dialog = "none" /\ account = NoAccount)
  /\ Begins(k, [NoCall EXCEPT !.op = "open", !.product = pending])
  /\ taps' = taps + 1
  /\ UNCHANGED <<roomVars, floorVars, sale, made, account, pull, dialog, pending, amount, wanted,
                 upset, elsewhere>>

Command(k) ==
  /\ Tapping /\ dialog = "none" /\ account.sale # NoId /\ Ordered(account.lines) # {}
  /\ Begins(k, [NoCall EXCEPT !.op = "command", !.sale = account.sale])
  /\ taps' = taps + 1
  /\ UNCHANGED <<roomVars, floorVars, sale, made, account, pull, dialog, pending, amount, wanted,
                 upset, elsewhere>>

\* handleOpenChargeDialog: the cash session must be open.  The form starts with the balance.
OpenCharge ==
  /\ Tapping /\ dialog = "none" /\ account.sale # NoId /\ Ordered(account.lines) # {}
  /\ dialog' \in {"charge", "cash"}
  /\ amount' = IF dialog' = "charge" THEN Balance(account.lines) ELSE amount
  /\ taps' = taps + 1
  /\ UNCHANGED <<roomVars, floorVars, sale, made, account, pull, call, pending, wanted, upset,
                 elsewhere>>

TypeAmount ==
  /\ Tapping /\ dialog = "charge"
  /\ amount' = amount + 1
  /\ taps' = taps + 1
  /\ UNCHANGED <<roomVars, floorVars, sale, made, account, pull, call, dialog, pending, wanted,
                 upset, elsewhere>>

SubmitCharge(k) ==
  /\ Tapping /\ dialog = "charge" /\ account.sale # NoId
  /\ Begins(k, [NoCall EXCEPT !.op = "charge", !.sale = account.sale, !.amount = amount])
  /\ taps' = taps + 1
  /\ UNCHANGED <<roomVars, floorVars, sale, made, account, pull, dialog, pending, amount, wanted,
                 upset, elsewhere>>

\* The dialog of the open account forgets the product when it is closed.
CloseDialog ==
  /\ AtPos /\ dialog \notin {"none", "receipt"}
  /\ dialog' = "none" /\ pending' = Nothing
  /\ UNCHANGED <<roomVars, floorVars, sale, made, account, pull, call, amount, taps, wanted, upset,
                 elsewhere>>

\* Another page: the screen is gone with its dialogs, its calls and fetches go on.
Turns(p) ==
  /\ GoTo(p)
  /\ pull' = IF p = "pos" /\ pull.step = "idle" THEN [pull EXCEPT !.step = "asked"] ELSE pull
  /\ call' = [k \in Calls |-> [call[k] EXCEPT !.here = FALSE]]
  /\ dialog' = "none" /\ pending' = Nothing
  /\ UNCHANGED <<sale, made, account, amount, wanted, upset, elsewhere>>

Visit(p) ==
  /\ dialog = "none" /\ used.edits < MaxEdits
  /\ Turns(p)
  /\ used' = [used EXCEPT !.edits = @ + 1]
  /\ UNCHANGED taps

\* The receipt is closed: the waiter goes back to the tables.
CloseReceipt ==
  /\ dialog = "receipt"
  /\ Turns("tables")
  /\ UNCHANGED <<used, taps>>

-----------------------------------------------------------------------------
(* The account is fetched *)

Fetched == [step |-> "idle", data |-> Unknown, failed |-> FALSE, early |-> FALSE, mixed |-> FALSE]

TableStands == table[TheTable].life = "live"
TableFound == Drafts # {} \/ TableStands

PullReads ==
  /\ pull.step = "asked" /\ TableFound
  /\ pull' = [pull EXCEPT !.step = "arriving", !.data = Current,
                           !.early = \E k \in Waiting : call[k].step = "sent"]
  /\ elsewhere' = FALSE
  /\ UNCHANGED <<roomVars, floorVars, sale, made, account, call, dialog, pending, amount, taps,
                 wanted, upset>>

\* The form of the charge starts anew whenever the balance on the screen is another one.
AmountAfter(lines) ==
  IF dialog = "charge" /\ Balance(lines) # Balance(account.lines) THEN Balance(lines) ELSE amount

PullArrives ==
  /\ pull.step = "arriving"
  /\ account' = pull.data
  /\ amount' = AmountAfter(pull.data.lines)
  /\ pull' = [Fetched EXCEPT !.mixed = pull.early]
  /\ UNCHANGED <<roomVars, floorVars, sale, made, call, dialog, pending, taps, wanted, upset,
                 elsewhere>>

PullFails ==
  /\ pull.step = "asked"
  /\ ~TableFound \/ used.faults < MaxFaults
  /\ used' = IF TableFound THEN [used EXCEPT !.faults = @ + 1] ELSE used
  /\ pull' = [pull EXCEPT !.step = "idle", !.early = FALSE, !.failed = TRUE]
  /\ UNCHANGED <<roomVars, shown, fetch, asked, page, deleting, before, crossed, foreign,
                 sale, made, account, call, dialog, pending, amount, taps, wanted, upset, elsewhere>>

-----------------------------------------------------------------------------
(* The API *)

Returns(k, result) ==
  call' = [j \in Calls |-> IF j = k THEN [call[k] EXCEPT !.step = result]
                           ELSE [call[j] EXCEPT !.behind = @ \ {k}]]

Sent(k, op) == call[k].op = op /\ call[k].step = "sent"

Untouched == UNCHANGED <<account, pull, dialog, pending, amount, taps>>
RoomUntouched == UNCHANGED <<roomVars, floorVars>>

\* Calls that were made before on the same line have not been served yet.
Overtakes(k) ==
  \E j \in call[k].behind :
    call[j].product = call[k].product /\ {call[j].op, call[k].op} # {"add"}

\* openAccount: the account that is open already, or a new one.
ServeOpen(k) ==
  /\ Sent(k, "open") /\ TableStands
  /\ IF Drafts # {}
       THEN /\ call' = [call EXCEPT ![k] = [@ EXCEPT !.step = "done", !.sale = Current.sale]]
            /\ sale' = sale /\ UNCHANGED <<roomVars, foreign, wanted>>
       ELSE /\ \E x \in Sales :
                 /\ sale[x].status = "none"
                 /\ sale' = [sale EXCEPT ![x].status = "DRAFT"]
                 /\ call' = [call EXCEPT ![k] = [@ EXCEPT !.step = "done", !.sale = x]]
            /\ AccountSets(TheTable, "OCCUPIED")
            /\ foreign' = TRUE /\ wanted' = Quantities(NoLines)
  /\ UNCHANGED <<shown, fetch, asked, page, deleting, used, before, crossed, made, upset, elsewhere>>
  /\ Untouched

ServeAdd(k) ==
  LET x == call[k].sale
      p == call[k].product
  IN
  /\ Sent(k, "add") /\ x \in Drafts /\ made < MaxLine
  /\ LET old == sale[x].lines[p]
         new == [id |-> IF Has(sale[x].lines, p) THEN old.id ELSE made + 1,
                 quantity |-> old.quantity + 1]
     IN /\ sale' = [sale EXCEPT ![x].lines[p] = new]
        /\ made' = IF new.id = old.id THEN made ELSE made + 1
  /\ Returns(k, "done")
  /\ upset' = (upset \/ Overtakes(k))
  /\ UNCHANGED <<wanted, elsewhere>>
  /\ Untouched /\ RoomUntouched

\* updateItemQuantity: 0 removes the line.
ServeChange(k) ==
  LET x == call[k].sale
      p == call[k].product
  IN
  /\ Sent(k, "change") /\ x \in Drafts
  /\ Has(sale[x].lines, p) /\ sale[x].lines[p].id = call[k].line
  /\ sale' = [sale EXCEPT ![x].lines = WithQuantity(@, p, call[k].quantity)]
  /\ Returns(k, "done")
  /\ upset' = (upset \/ Overtakes(k))
  /\ UNCHANGED <<made, wanted, elsewhere>>
  /\ Untouched /\ RoomUntouched

ServeCharge(k) ==
  LET x == call[k].sale IN
  /\ Sent(k, "charge") /\ x \in Drafts
  /\ Ordered(sale[x].lines) # {} /\ call[k].amount = Balance(sale[x].lines)
  /\ sale' = [sale EXCEPT ![x].status = "CLOSED"]
  /\ AccountSets(TheTable, "FREE")
  /\ foreign' = TRUE /\ wanted' = Quantities(NoLines)
  /\ Returns(k, "done")
  /\ UNCHANGED <<shown, fetch, asked, page, deleting, used, before, crossed, made, upset, elsewhere>>
  /\ Untouched

ServeCommand(k) ==
  /\ Sent(k, "command")
  /\ Returns(k, "done")
  /\ UNCHANGED <<sale, made, wanted, upset, elsewhere>>
  /\ Untouched /\ RoomUntouched

\* What the API refuses: a line without its id, a sale that is closed, another amount.
Refused(k) ==
  LET c == call[k] IN
  CASE c.op = "open" -> ~TableStands
    [] c.op = "add" -> c.sale \notin Drafts
    [] c.op = "change" -> \/ c.sale \notin Drafts
                          \/ ~Has(sale[c.sale].lines, c.product)
                          \/ sale[c.sale].lines[c.product].id # c.line
    [] c.op = "charge" -> \/ c.sale \notin Drafts \/ Ordered(sale[c.sale].lines) = {}
                          \/ c.amount # Balance(sale[c.sale].lines)
    [] OTHER -> FALSE

ServeRefused(k) ==
  /\ call[k].step = "sent" /\ Refused(k)
  /\ Returns(k, "refused")
  /\ upset' = TRUE
  /\ UNCHANGED <<sale, made, wanted, elsewhere>>
  /\ Untouched /\ RoomUntouched

\* A call that fails on its way, or in the server for another reason: a product that is
\* not sold any more, stock that is short, no cash session; or the answer that is lost.
CallFails(k) ==
  /\ call[k].step \in {"sent", "done"} /\ used.faults < MaxFaults
  /\ Returns(k, "refused")
  /\ upset' = TRUE
  /\ elsewhere' = (elsewhere \/ (call[k].step = "done" /\ call[k].op \in {"open", "charge"}))
  /\ used' = [used EXCEPT !.faults = @ + 1]
  /\ UNCHANGED <<roomVars, shown, fetch, asked, page, deleting, before, crossed, foreign, sale,
                 made, wanted>>
  /\ Untouched

\* Another waiter, at another terminal.
OtherWaiter ==
  /\ used.others < MaxOthers
  /\ \/ \E x \in Drafts, p \in Products :
          /\ Has(sale[x].lines, p)
          /\ sale' = [sale EXCEPT ![x].lines[p].quantity = @ + 1]
          /\ UNCHANGED <<roomVars, foreign>>
     \/ \E x \in Drafts :
          /\ Ordered(sale[x].lines) # {}
          /\ sale' = [sale EXCEPT ![x].status = "CLOSED"]
          /\ AccountSets(TheTable, "FREE") /\ foreign' = TRUE
     \/ \E x \in Sales :
          /\ Drafts = {} /\ TableStands /\ sale[x].status = "none"
          /\ sale' = [sale EXCEPT ![x].status = "DRAFT"]
          /\ AccountSets(TheTable, "OCCUPIED") /\ foreign' = TRUE
  /\ elsewhere' = TRUE /\ upset' = TRUE
  /\ used' = [used EXCEPT !.others = @ + 1]
  /\ UNCHANGED <<shown, fetch, asked, page, deleting, before, crossed, made, wanted, call>>
  /\ Untouched

-----------------------------------------------------------------------------
(* Answers *)

\* invalidateAccount: the account, if its screen is there, and the zones are fetched again.
\* Without the screen a fetch that is under way is left alone, and counts as the last.
Invalidates ==
  /\ IF page = "pos"
       THEN /\ pull' = [pull EXCEPT !.step = "asked", !.early = FALSE]
            /\ elsewhere' = elsewhere
       ELSE /\ pull' = pull
            /\ elsewhere' = (elsewhere \/ pull.step = "arriving")
  /\ fetch' = Fetching
  /\ crossed' = (crossed \/ fetch.step = "arriving")
  /\ UNCHANGED <<roomVars, shown, asked, page, deleting, used, before, foreign>>

Ends(k) == call' = [j \in Calls |-> IF j = k THEN NoCall ELSE [call[j] EXCEPT !.behind = @ \ {k}]]

\* Mutant: after a refusal the account on the screen is left as it is.
AnswerItemUnlessRefused(k) ==
  /\ call[k].op \in ItemOps /\ call[k].step \in {"done", "refused"}
  /\ Ends(k)
  /\ IF call[k].step = "refused"
       THEN /\ account' = call[k].previous
            /\ UNCHANGED <<pull, elsewhere>> /\ RoomUntouched
       ELSE account' = account /\ Invalidates
  /\ amount' = AmountAfter(account'.lines)
  /\ UNCHANGED <<sale, made, dialog, pending, taps, wanted, upset>>

\* onError puts back what was on the screen before, onSettled fetches in any case.
AnswerItem(k) ==
  /\ call[k].op \in ItemOps /\ call[k].step \in {"done", "refused"}
  /\ Ends(k)
  /\ account' = IF call[k].step = "refused" /\ call[k].previous.sale # NoId
                  THEN call[k].previous ELSE account
  /\ amount' = AmountAfter(account'.lines)
  /\ Invalidates
  /\ UNCHANGED <<sale, made, dialog, pending, taps, wanted, upset>>

\* onSuccess waits for the fetches, and what the screen does next waits for it.
AnswerAccount(k) ==
  /\ call[k].op \in {"open", "charge"} /\ call[k].step = "done"
  /\ call' = [call EXCEPT ![k].step = "settling"]
  /\ Invalidates
  /\ UNCHANGED <<sale, made, account, dialog, pending, amount, taps, wanted, upset>>

Settled(k, op) ==
  /\ call[k].op = op /\ call[k].step = "settling"
  /\ pull.step = "idle" \/ page # "pos"
  /\ fetch.step = "idle"

\* What a handler sets on the screen it was started from: gone if the page was left.
Shows(k, d) == IF call[k].here THEN d ELSE dialog

\* The product that waited is added to the account that was opened.
OpenSettled(k) ==
  LET c == call[k] IN
  /\ Settled(k, "open")
  /\ dialog' = Shows(k, "none")
  /\ pending' = IF c.here THEN Nothing ELSE pending
  /\ IF c.product = Nothing
       THEN Ends(k) /\ UNCHANGED <<account, pull, wanted, upset>>
       ELSE LET n == account.lines[c.product].quantity + 1
                settled == Waiting = {} /\ page = "pos"
            IN
            /\ call' = [call EXCEPT ![k] = [NoCall EXCEPT
                 !.op = "add", !.step = "sent", !.sale = c.sale, !.product = c.product,
                 !.previous = account, !.here = c.here,
                 !.behind = {j \in Waiting : call[j].step = "sent"}]]
            /\ pull' = Cancelled
            /\ account' = IF account.sale = c.sale
                 THEN [account EXCEPT !.lines = WithQuantity(@, c.product, n)] ELSE account
            /\ wanted' = [(IF settled THEN Quantities(account.lines) ELSE wanted)
                            EXCEPT ![c.product] = n]
            /\ upset' = ((IF settled THEN elsewhere \/ pull.failed ELSE upset \/ pull.mixed)
                          \/ account.sale # c.sale)
  /\ UNCHANGED <<roomVars, floorVars, sale, made, amount, taps, elsewhere>>

ChargeSettled(k) ==
  /\ Settled(k, "charge")
  /\ Ends(k)
  /\ dialog' = Shows(k, "receipt")
  /\ UNCHANGED <<roomVars, floorVars, sale, made, account, pull, pending, amount, taps, wanted,
                 upset, elsewhere>>

AnswerCommand(k) ==
  /\ call[k].op = "command" /\ call[k].step = "done"
  /\ Ends(k)
  /\ dialog' = IF dialog = "none" THEN Shows(k, "command") ELSE dialog
  /\ UNCHANGED <<roomVars, floorVars, sale, made, account, pull, pending, amount, taps, wanted,
                 upset, elsewhere>>

\* An error is shown, and the dialog stays as it is.
AnswerRefusal(k) ==
  /\ call[k].op \in {"open", "charge", "command"} /\ call[k].step = "refused"
  /\ Ends(k)
  /\ UNCHANGED <<roomVars, floorVars, sale, made, account, pull, dialog, pending, amount, taps,
                 wanted, upset, elsewhere>>

-----------------------------------------------------------------------------
PosStep ==
  \/ OpenCharge \/ TypeAmount \/ CloseDialog \/ CloseReceipt
  \/ \E p \in {"floor", "tables", "pos"} : Visit(p)
  \/ PullReads \/ PullArrives \/ PullFails \/ OtherWaiter
  \/ \E k \in Calls :
       \/ \E p \in Products : Tap(k, p) \/ \E n \in 0..MaxQuantity : ChangeQuantity(k, p, n)
       \/ SubmitOpen(k) \/ Command(k) \/ SubmitCharge(k)
       \/ ServeOpen(k) \/ ServeAdd(k) \/ ServeChange(k) \/ ServeCharge(k) \/ ServeCommand(k)
       \/ ServeRefused(k) \/ CallFails(k)
       \/ AnswerItem(k) \/ AnswerAccount(k) \/ OpenSettled(k) \/ ChargeSettled(k)
       \/ AnswerCommand(k) \/ AnswerRefusal(k)

Next == PosStep \/ (FloorStep /\ UNCHANGED posVars)

Line == [id : 0..MaxLine, quantity : Nat]
Account == [sale : Sales \cup {NoId}, known : BOOLEAN, lines : [Products -> Line]]

\* The sales of the table: one of them is open, a line has an id, a sale to come has none.
SalesTypeOK ==
  /\ sale \in [Sales -> [status : {"none", "DRAFT", "CLOSED"}, lines : [Products -> Line]]]
  /\ \A x, y \in Drafts : x = y
  /\ \A x \in Sales, p \in Products : Has(sale[x].lines, p) <=> sale[x].lines[p].id # Optimistic
  /\ \A x \in Sales : sale[x].status = "none" => sale[x] = NoSale

\* A screen that has just shown what is stored.
Init ==
  /\ FloorInit
  /\ SalesTypeOK /\ made \in 0..MaxLine
  /\ account = Current /\ pull = Fetched
  /\ call = [k \in Calls |-> NoCall]
  /\ dialog = "none" /\ pending = Nothing /\ amount = 0 /\ taps \in 0..MaxTaps
  /\ wanted = Quantities(account.lines) /\ upset = FALSE /\ elsewhere = FALSE

Spec == Init /\ [][Next]_vars

-----------------------------------------------------------------------------
(* Properties *)

PosTypeOK ==
  /\ SalesTypeOK
  /\ made \in 0..MaxLine /\ taps \in 0..MaxTaps /\ amount \in Nat
  /\ account \in Account /\ pull.data \in Account
  /\ pull.step \in {"idle", "asked", "arriving"} /\ pull.failed \in BOOLEAN
  /\ \A k \in Calls :
       /\ DOMAIN call[k] = DOMAIN NoCall /\ call[k].previous \in Account
       /\ call[k].op \in ItemOps \cup {"idle", "open", "command", "charge"}
       /\ call[k].step \in {"none", "sent", "done", "refused", "settling"}
       /\ call[k].step = "none" <=> call[k] = NoCall
       /\ k \notin call[k].behind
  /\ dialog \in {"none", "open", "charge", "cash", "command", "receipt"}
  /\ dialog # "none" => page = "pos"
  /\ pending # Nothing => dialog = "open"

(* The types of the room, of the list of zones and of the account: among   *)
(* them, that a table has one open account (operations.contracts.ts,       *)
(* useDiningRoom.ts, useTableAccount.ts).                                  *)
TypeOK == RoomTypeOK /\ FloorTypeOK /\ PosTypeOK

PosQuiet == page = "pos" /\ pull.step = "idle" /\ \A k \in Calls : call[k] = NoCall

\* The account is the one that is stored, and it holds what the waiter asked for.
AccountSettles ==
  PosQuiet /\ ~pull.failed /\ ~elsewhere =>
    /\ account = Current
    /\ account.sale # NoId /\ ~upset => Quantities(account.lines) = wanted

(* When no request and no fetch is under way, the screens show what is     *)
(* stored: every zone and table once and as it is, and the account of the  *)
(* table with the quantities the waiter asked for, whatever was put back,  *)
(* fetched too early or patched before.  It takes that nobody else changed *)
(* the same in the meantime, that no answer was lost, and, for the list,   *)
(* that no two answers and no answer and fetch crossed and that no fetch   *)
(* was dropped after it had read, while one that fails does no harm; for   *)
(* the account, that its last fetch did not fail; for the quantities, that *)
(* no call was refused or served before an earlier one                     *)
(* (useDiningRoom.ts:27, useTableAccount.ts:61).                           *)
ScreenSettles == FloorSettles /\ AccountSettles

=============================================================================
