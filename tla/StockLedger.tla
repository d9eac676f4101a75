----------------------------- MODULE StockLedger -----------------------------
(***************************************************************************)
(* The stock of a branch: inventory balances and their kardex of stock     *)
(* movements, changed by the sales that consume it, by manual adjustments  *)
(* and by the purchases that are received into it.                         *)
(* Source: apps/api/src/modules/inventory/inventory-consumption.service.ts *)
(* and inventory.repository.ts, purchases/purchase.service.ts and          *)
(* purchase.repository.ts.                                                 *)
(*                                                                         *)
(* A request handler is a worker, at READ COMMITTED as in TableAccounts:   *)
(* a read is a step, a row that a transaction wrote stays locked until it  *)
(* ends, its writes appear when it commits.  A transaction here locks      *)
(* several rows one after the other, so a write is a step of its own that  *)
(* waits for its row, and PostgreSQL breaks a circle of waiting            *)
(* transactions by failing one of them.                                    *)
(***************************************************************************)
EXTENDS Integers, FiniteSets, Sequences

CONSTANTS
  Workers,      \* request handlers that may run at the same time
  Balances,     \* the stock items: a product's ingredient and its balance
  Purchases,    \* ids of purchases rows
  Items,        \* Items[p]: the lines of purchase p, as a sequence of needs
  Orders,       \* what a charged sale may consume: sequences of needs
  Initial,      \* initial stock of an item created by hand
  Adjustments,  \* signed quantities of manual adjustments
  Edited,       \* bound: the items whose settings are changed by hand
  MaxMovements, \* bound: a request starts only while its items have fewer movements
  NoPurchase    \* "no purchase" in a request or a movement

Need == [balance : Balances, quantity : Nat \ {0}]

ASSUME WorkersAssumption == IsFiniteSet(Workers)
ASSUME NoPurchaseAssumption == NoPurchase \notin Purchases
ASSUME ItemsAssumption == Items \in [Purchases -> Seq(Need) \ {<<>>}]
ASSUME OrdersAssumption == Orders \subseteq Seq(Need) \ {<<>>}
ASSUME QuantitiesAssumption == Initial \subseteq Nat /\ Adjustments \subseteq Int \ {0}
ASSUME EditedAssumption == Edited \subseteq Balances
ASSUME MaxMovementsAssumption == MaxMovements \in Nat

VARIABLES
  created,        \* the items whose ingredient and balance rows exist
  active,         \* the items whose ingredient isActive
  stock,          \* stock[b]: stockOnHand of the balance of b
  allowNegative,  \* the items whose balance has allowNegativeStock
  kardex,         \* kardex[b]: the stock_movements rows of b, in order of commit
  purchase,       \* purchase[p]: status of the row of p ("none": not created)
  req,            \* req[w]: the request w is serving
  (* History, read by no action: *)
  contended,      \* the items that two transactions read before either ended
  raced,          \* the purchases on which two requests overlapped
  everAllowed     \* the items that were ever allowed a negative stock

rows == <<created, active, stock, allowNegative, kardex, purchase>>
vars == <<rows, req, contended, raced, everAllowed>>

-----------------------------------------------------------------------------
(* Data *)

\* A write that a transaction makes: allow is allowNegativeStock as it read it.
Move == [balance : Balances, before : Int, after : Int, allow : BOOLEAN]

Movement == [before : Int, after : Int, purchase : Purchases \cup {NoPurchase}]

Request == [op       : {"idle", "consume", "adjust", "receive", "cancel"},
            step     : {"none", "begin", "read", "link", "category", "product", "write",
                        "commit"},
            purchase : Purchases \cup {NoPurchase},
            todo     : Seq(Need),   \* what it has still to read
            moves    : Seq(Move),   \* what it has read and will write
            written  : Nat,         \* how many of these it has written
            category : BOOLEAN]     \* it has written the row of the generic category

Idle == [op |-> "idle", step |-> "none", purchase |-> NoPurchase, todo |-> <<>>,
         moves |-> <<>>, written |-> 0, category |-> FALSE]

BalancesOf(seq) == {seq[i].balance : i \in DOMAIN seq}

\* The balance rows that worker w has locked, and the product rows.
LockedBy(w) == BalancesOf(SubSeq(req[w].moves, 1, req[w].written))
ProductsOf(w) == IF req[w].op = "receive" THEN BalancesOf(req[w].moves) ELSE {}

\* The balance it reads next, and the move it writes next.
NextRead(w) == Head(req[w].todo).balance
NextMove(w) == req[w].moves[req[w].written + 1]

\* Worker w waits for a row that worker v has locked.
WaitsFor(w, v) ==
  /\ v # w
  /\ \/ req[w].step = "category" /\ req[v].category
     \/ req[w].step = "product" /\ NextRead(w) \in ProductsOf(v)
     \/ req[w].step = "write" /\ NextMove(w).balance \in LockedBy(v)

Waiting(w) == \E v \in Workers : WaitsFor(w, v)

\* Worker w is in a circle of workers each waiting for another one.
Deadlocked(w) ==
  \E S \in SUBSET Workers :
    /\ w \in S
    /\ \A v \in S : (\E u \in S : WaitsFor(v, u)) /\ (\E u \in S : WaitsFor(u, v))

\* A consumption that would leave a stock negative where that is not allowed.
Shortage(w) ==
  \E i \in DOMAIN req[w].moves : req[w].moves[i].after < 0 /\ ~req[w].moves[i].allow

\* The items that the transaction of worker w has inserted and not committed.
Inserted(w) ==
  (ProductsOf(w) \cup IF req[w].step = "product" THEN {NextRead(w)} ELSE {}) \ created

\* The moves on balance b, in their order.
MovesOn(moves, b) ==
  LET upTo[n \in 0 .. Len(moves)] ==
        IF n = 0 THEN <<>>
        ELSE IF moves[n].balance = b THEN Append(upTo[n - 1], moves[n])
        ELSE upTo[n - 1]
  IN upTo[Len(moves)]

\* The rows that the moves of worker w leave: the last write of a balance wins.
StockAfter(w) ==
  [b \in Balances |->
    LET mine == MovesOn(req[w].moves, b)
    IN  IF mine = <<>> THEN stock[b] ELSE mine[Len(mine)].after]

\* The movement that worker w inserts with a move.
MovementOf(w, m) == [before |-> m.before, after |-> m.after, purchase |-> req[w].purchase]

\* Mutant: only purchases write movements.
KardexOfPurchases(w) ==
  [b \in Balances |->
    LET mine == MovesOn(req[w].moves, b)
    IN  IF req[w].op = "receive"
          THEN kardex[b] \o [i \in DOMAIN mine |-> MovementOf(w, mine[i])]
          ELSE kardex[b]]

KardexAfter(w) ==
  [b \in Balances |->
    LET mine == MovesOn(req[w].moves, b)
    IN  kardex[b] \o [i \in DOMAIN mine |-> MovementOf(w, mine[i])]]

Answered(w) == req' = [req EXCEPT ![w] = Idle]

\* Worker w reads the balance b while another transaction has it in its moves.
Contend(w, b) ==
  contended' = contended \cup
    IF \E v \in Workers \ {w} : b \in BalancesOf(req[v].moves) THEN {b} ELSE {}

\* Worker w starts on purchase p while another one works on it.
Race(w, p) ==
  raced' = raced \cup IF \E v \in Workers \ {w} : req[v].purchase = p THEN {p} ELSE {}

\* Bound.
Wants(w, b) ==
  \/ b \in BalancesOf(req[w].todo) \cup BalancesOf(req[w].moves)
  \/ req[w].op = "receive" /\ b \in BalancesOf(Items[req[w].purchase])
Room(seq) ==
  \A b \in BalancesOf(seq) :
    Len(kardex[b]) + Cardinality({w \in Workers : Wants(w, b)}) < MaxMovements

-----------------------------------------------------------------------------
Init ==
  /\ created = {}
  /\ active = {}
  /\ stock = [b \in Balances |-> 0]
  /\ allowNegative = {}
  /\ kardex = [b \in Balances |-> <<>>]
  /\ purchase = [p \in Purchases |-> "none"]
  /\ req = [w \in Workers |-> Idle]
  /\ contended = {}
  /\ raced = {}
  /\ everAllowed = {}

-----------------------------------------------------------------------------
(* Items by hand.  Creating one inserts new rows only, so it is one step,  *)
(* which a uniqueness conflict on the product refuses.                     *)

\* createItem
CreateItem(b, initial, negative) ==
  /\ b \notin created
  /\ \A w \in Workers : b \notin Inserted(w)
  /\ Room(<<[balance |-> b, quantity |-> 1]>>)
  /\ created' = created \cup {b}
  /\ active' = active \cup {b}
  /\ stock' = [stock EXCEPT ![b] = initial]
  /\ kardex' = [kardex EXCEPT ![b] =
       IF initial > 0 THEN <<[before |-> 0, after |-> initial, purchase |-> NoPurchase]>>
                      ELSE <<>>]
  /\ allowNegative' = IF negative THEN allowNegative \cup {b} ELSE allowNegative
  /\ everAllowed' = everAllowed \cup allowNegative'
  /\ UNCHANGED <<purchase, req, contended, raced>>

\* updateItem: an update of the ingredient and the balance, not of its stock.
UpdateItem(b, negative, isActive) ==
  /\ b \in created
  /\ \A w \in Workers : b \notin LockedBy(w)
  /\ allowNegative' = IF negative THEN allowNegative \cup {b} ELSE allowNegative \ {b}
  /\ everAllowed' = everAllowed \cup allowNegative'
  /\ active' = IF isActive THEN active \cup {b} ELSE active \ {b}
  /\ UNCHANGED <<created, stock, kardex, purchase, req, contended, raced>>

-----------------------------------------------------------------------------
(* consumeSaleItems, within the transaction that charges an account: read  *)
(* every balance the items need, check them all, then write them one by    *)
(* one as stockBefore - quantity.                                          *)

ConsumeStart(w, order) ==
  /\ req[w] = Idle
  /\ Room(order)
  /\ req' = [req EXCEPT ![w].op = "consume", ![w].step = "read", ![w].todo = order]
  /\ UNCHANGED <<rows, contended, raced, everAllowed>>

\* Mutant: a balance read before takes only the last quantity.
DeductLast(w) ==
  LET need == Head(req[w].todo)
      b == need.balance
  IN Append(req[w].moves, [balance |-> b, before |-> stock[b],
                           after |-> stock[b] - need.quantity, allow |-> b \in allowNegative])

\* The moves of worker w with its next need: a balance read before keeps its
\* stockBefore, and the quantities add up (addDeduction).
Deduct(w) ==
  LET need == Head(req[w].todo)
      b == need.balance
      moves == req[w].moves
  IN IF b \in BalancesOf(moves)
       THEN [i \in DOMAIN moves |-> IF moves[i].balance = b
                                      THEN [moves[i] EXCEPT !.after = @ - need.quantity]
                                      ELSE moves[i]]
       ELSE Append(moves, [balance |-> b, before |-> stock[b],
                           after |-> stock[b] - need.quantity, allow |-> b \in allowNegative])

\* The step of worker w after it has read a need, with these moves.
StepAfterRead(w, moves) ==
  IF Tail(req[w].todo) # <<>> THEN "read" ELSE IF moves # <<>> THEN "write" ELSE "commit"

ConsumeRead(w) ==
  /\ req[w].op = "consume"
  /\ req[w].step = "read"
  /\ NextRead(w) \in active
  /\ req' = [req EXCEPT ![w].step = StepAfterRead(w, Deduct(w)),
                        ![w].todo = Tail(@), ![w].moves = Deduct(w)]
  /\ Contend(w, NextRead(w))
  /\ UNCHANGED <<rows, raced, everAllowed>>

\* An inactive ingredient of a recipe is left out.
ConsumeSkip(w) ==
  /\ req[w].op = "consume"
  /\ req[w].step = "read"
  /\ NextRead(w) \in created \ active
  /\ req' = [req EXCEPT ![w].step = StepAfterRead(w, req[w].moves), ![w].todo = Tail(@)]
  /\ UNCHANGED <<rows, contended, raced, everAllowed>>

\* INVENTORY_NOT_CONFIGURED or INSUFFICIENT_STOCK: the charge rolls back.
ConsumeRefused(w) ==
  /\ req[w].op = "consume"
  /\ \/ req[w].step = "read" /\ NextRead(w) \notin active
     \/ req[w].step = "write" /\ Shortage(w)
  /\ Answered(w)
  /\ UNCHANGED <<rows, contended, raced, everAllowed>>

-----------------------------------------------------------------------------
(* adjustStock: read the balance, check it, write stockBefore +- quantity. *)

AdjustRead(w, b, n) ==
  LET move == [balance |-> b, before |-> stock[b], after |-> stock[b] + n,
               allow |-> b \in allowNegative]
  IN
  /\ req[w] = Idle
  /\ b \in created
  /\ move.after >= 0 \/ move.allow
  /\ Room(<<[balance |-> b, quantity |-> 1]>>)
  /\ req' = [req EXCEPT ![w].op = "adjust", ![w].step = "write", ![w].moves = <<move>>]
  /\ Contend(w, b)
  /\ UNCHANGED <<rows, raced, everAllowed>>

\* INSUFFICIENT_STOCK
AdjustRefused(w, b, n) ==
  /\ req[w] = Idle
  /\ b \in created \ allowNegative
  /\ stock[b] + n < 0
  /\ UNCHANGED vars

-----------------------------------------------------------------------------
(* Purchases.  receive: the service reads the purchase, the transaction    *)
(* reads it again; then for each line it finds the item or creates it,     *)
(* which locks the row of the generic category, locks the product row,     *)
(* reads the balance and writes it; at last it updates the purchase by id. *)

CreatePurchase(p) ==
  /\ purchase[p] = "none"
  /\ purchase' = [purchase EXCEPT ![p] = "DRAFT"]
  /\ UNCHANGED <<created, active, stock, allowNegative, kardex, req, contended, raced, everAllowed>>

ReceiveCheck(w, p) ==
  /\ req[w] = Idle
  /\ purchase[p] = "DRAFT"
  /\ Room(Items[p])
  /\ req' = [req EXCEPT ![w].op = "receive", ![w].step = "begin", ![w].purchase = p]
  /\ Race(w, p)
  /\ UNCHANGED <<rows, contended, everAllowed>>

ReceiveBegin(w) ==
  /\ req[w].op = "receive"
  /\ req[w].step = "begin"
  /\ purchase[req[w].purchase] = "DRAFT"
  /\ req' = [req EXCEPT ![w].step = "link", ![w].todo = Items[req[w].purchase]]
  /\ UNCHANGED <<rows, contended, raced, everAllowed>>

ReceiveStale(w) ==
  /\ req[w].op = "receive"
  /\ req[w].step = "begin"
  /\ purchase[req[w].purchase] # "DRAFT"
  /\ Answered(w)
  /\ UNCHANGED <<rows, contended, raced, everAllowed>>

ReceiveLink(w) ==
  /\ req[w].op = "receive"
  /\ req[w].step = "link"
  /\ req' = [req EXCEPT ![w].step =
               IF NextRead(w) \in created \cup ProductsOf(w) THEN "product" ELSE "category"]
  /\ UNCHANGED <<rows, contended, raced, everAllowed>>

\* The item was not found: its rows are inserted.
ReceiveInsert(w) ==
  /\ req[w].step = "category"
  /\ ~Waiting(w)
  /\ NextRead(w) \notin created
  /\ req' = [req EXCEPT ![w].step = "product", ![w].category = TRUE]
  /\ UNCHANGED <<rows, contended, raced, everAllowed>>

\* Another request has inserted them meanwhile: the unique index refuses.
ReceiveConflict(w) ==
  /\ req[w].step = "category"
  /\ ~Waiting(w)
  /\ NextRead(w) \in created
  /\ Answered(w)
  /\ UNCHANGED <<rows, contended, raced, everAllowed>>

ReceiveRead(w) ==
  LET need == Head(req[w].todo)
      b == need.balance
      before == StockAfter(w)[b]
  IN
  /\ req[w].step = "product"
  /\ ~Waiting(w)
  /\ req' = [req EXCEPT ![w].step = "write", ![w].todo = Tail(@),
                        ![w].moves = Append(@, [balance |-> b, before |-> before,
                                                after |-> before + need.quantity,
                                                allow |-> FALSE])]
  /\ Contend(w, b)
  /\ UNCHANGED <<rows, raced, everAllowed>>

\* Mutant: a purchase is cancelled in whatever status it is.
CancelCheckAnyStatus(w, p) ==
  /\ req[w] = Idle
  /\ purchase[p] # "none"
  /\ req' = [req EXCEPT ![w].op = "cancel", ![w].step = "commit", ![w].purchase = p]
  /\ Race(w, p)
  /\ UNCHANGED <<rows, contended, everAllowed>>

CancelCheck(w, p) ==
  /\ req[w] = Idle
  /\ purchase[p] = "DRAFT"
  /\ req' = [req EXCEPT ![w].op = "cancel", ![w].step = "commit", ![w].purchase = p]
  /\ Race(w, p)
  /\ UNCHANGED <<rows, contended, everAllowed>>

CancelCommit(w) ==
  /\ req[w].op = "cancel"
  /\ purchase' = [purchase EXCEPT ![req[w].purchase] = "CANCELLED"]
  /\ Answered(w)
  /\ UNCHANGED <<created, active, stock, allowNegative, kardex, contended, raced, everAllowed>>

\* "Cannot receive a purchase with status RECEIVED."
PurchaseRejected(w, p) ==
  /\ req[w] = Idle
  /\ purchase[p] \in {"RECEIVED", "CANCELLED"}
  /\ UNCHANGED vars

-----------------------------------------------------------------------------
(* Writing and committing *)

\* Mutant: the transaction ends with its first write.
StepAfterFirst(w) == "commit"

\* Mutant: nothing tells the last write.
StepAfterNone(w) == IF req[w].todo # <<>> THEN "link" ELSE "write"

\* The step after the write of the next move.
StepAfterWrite(w) ==
  IF req[w].todo # <<>> THEN "link"
  ELSE IF req[w].written + 1 < Len(req[w].moves) THEN "write"
  ELSE "commit"

\* Mutant: the consumption is written without the check of the stock.
WriteUnchecked(w) ==
  /\ req[w].step = "write"
  /\ ~Waiting(w)
  /\ req' = [req EXCEPT ![w].step = StepAfterWrite(w), ![w].written = @ + 1]
  /\ UNCHANGED <<rows, contended, raced, everAllowed>>

Write(w) ==
  /\ req[w].step = "write"
  /\ req[w].op = "consume" => ~Shortage(w)
  /\ ~Waiting(w)
  /\ req' = [req EXCEPT ![w].step = StepAfterWrite(w), ![w].written = @ + 1]
  /\ UNCHANGED <<rows, contended, raced, everAllowed>>

\* Mutant: a purchase that is received stays a draft.
CommitKeepsDraft(w) ==
  /\ req[w].op \in {"consume", "adjust", "receive"}
  /\ req[w].step = "commit"
  /\ created' = created \cup BalancesOf(req[w].moves)
  /\ active' = active \cup (BalancesOf(req[w].moves) \ created)
  /\ stock' = StockAfter(w)
  /\ kardex' = KardexAfter(w)
  /\ Answered(w)
  /\ UNCHANGED <<allowNegative, purchase, contended, raced, everAllowed>>

Commit(w) ==
  /\ req[w].op \in {"consume", "adjust", "receive"}
  /\ req[w].step = "commit"
  /\ created' = created \cup BalancesOf(req[w].moves)
  /\ active' = active \cup (BalancesOf(req[w].moves) \ created)
  /\ stock' = StockAfter(w)
  /\ kardex' = KardexAfter(w)
  /\ purchase' = IF req[w].op = "receive"
                   THEN [purchase EXCEPT ![req[w].purchase] = "RECEIVED"]
                   ELSE purchase
  /\ Answered(w)
  /\ UNCHANGED <<allowNegative, contended, raced, everAllowed>>

\* Mutant: nobody breaks a deadlock.
DeadlockIgnored(w) == Deadlocked(w) /\ UNCHANGED vars

\* PostgreSQL fails one of the transactions of a deadlock; it rolls back.
DeadlockAbort(w) ==
  /\ Deadlocked(w)
  /\ Answered(w)
  /\ UNCHANGED <<rows, contended, raced, everAllowed>>

-----------------------------------------------------------------------------
\* The steps of a request that is being served.
Serve(w) ==
  \/ ConsumeRead(w)
  \/ ConsumeSkip(w)
  \/ ConsumeRefused(w)
  \/ ReceiveBegin(w)
  \/ ReceiveStale(w)
  \/ ReceiveLink(w)
  \/ ReceiveInsert(w)
  \/ ReceiveConflict(w)
  \/ ReceiveRead(w)
  \/ CancelCommit(w)
  \/ Write(w)
  \/ Commit(w)
  \/ DeadlockAbort(w)

Next ==
  \/ \E w \in Workers :
       \/ \E order \in Orders : ConsumeStart(w, order)
       \/ \E b \in Balances, n \in Adjustments : AdjustRead(w, b, n) \/ AdjustRefused(w, b, n)
       \/ \E p \in Purchases : \/ ReceiveCheck(w, p) \/ CancelCheck(w, p)
                               \/ PurchaseRejected(w, p)
       \/ Serve(w)
  \/ \E b \in Balances, n \in Initial, negative \in BOOLEAN : CreateItem(b, n, negative)
  \/ \E b \in Edited, negative, isActive \in BOOLEAN : UpdateItem(b, negative, isActive)
  \/ \E p \in Purchases : CreatePurchase(p)

Spec == Init /\ [][Next]_vars

\* A handler is never abandoned, and PostgreSQL grants a row lock in the order
\* it was asked for.
Fairness ==
  \A w \in Workers : WF_vars(Serve(w)) /\ SF_vars(Write(w) \/ ReceiveRead(w) \/ ReceiveInsert(w))

FairSpec == Spec /\ Fairness

-----------------------------------------------------------------------------
(* Properties *)

TypeOK ==
  /\ created \subseteq Balances
  /\ active \subseteq created
  /\ stock \in [Balances -> Int]
  /\ allowNegative \subseteq created
  /\ kardex \in [Balances -> Seq(Movement)]
  /\ purchase \in [Purchases -> {"none", "DRAFT", "RECEIVED", "CANCELLED"}]
  /\ req \in [Workers -> Request]
  /\ \A w \in Workers : req[w].step = "write" => req[w].written < Len(req[w].moves)
  /\ contended \subseteq Balances
  /\ raced \subseteq Purchases
  /\ everAllowed \subseteq Balances

\* Whatever overlaps, the stock of an item is what its last movement left: the
\* absolute stock that a transaction writes and the movement it inserts are
\* committed together, under the lock of the balance row.
KardexClosed ==
  \A b \in Balances :
    LET k == kardex[b] IN stock[b] = IF k = <<>> THEN 0 ELSE k[Len(k)].after

\* The kardex of an item has no gap: every movement starts from the stock that
\* the one before left, so the stock is the sum of the movements, unless two
\* transactions read the item before either of them ended.
KardexUnbroken ==
  \A b \in Balances \ contended : \A i \in DOMAIN kardex[b] :
    kardex[b][i].before = IF i = 1 THEN 0 ELSE kardex[b][i - 1].after

\* An item that was never allowed a negative stock never has one, whatever
\* overlaps: every stock that is written was checked as it is written.
NeverNegative ==
  \A b \in Balances \ everAllowed :
    stock[b] >= 0 /\ \A i \in DOMAIN kardex[b] : kardex[b][i].after >= 0

\* How often the lines of purchase p on item b are in its kardex, and how many
\* lines these are.
Booked(p, b) == Cardinality({i \in DOMAIN kardex[b] : kardex[b][i].purchase = p})
LinesOn(p, b) == Cardinality({i \in DOMAIN Items[p] : Items[p][i].balance = b})

\* Receiving is all or nothing, even if a purchase is received more than once
\* or the transaction fails half way: every line of it is booked equally often.
ReceivingAtomic ==
  \A p \in Purchases : \E times \in 0 .. Cardinality(Workers) :
    \A b \in Balances : Booked(p, b) = times * LinesOn(p, b)

\* The lines of a purchase are in stock once if it is RECEIVED, and not at all
\* if it is in any other status, unless two requests on it overlapped.
ReceivedOnce ==
  \A p \in Purchases \ raced : \A b \in Balances :
    Booked(p, b) = IF purchase[p] = "RECEIVED" THEN LinesOn(p, b) ELSE 0

FinalStep ==
  \A p \in Purchases :
    purchase[p] \in {"RECEIVED", "CANCELLED"} =>
      /\ purchase'[p] \in {"RECEIVED", "CANCELLED"}
      /\ p \notin raced' => purchase'[p] = purchase[p]

\* A purchase that was received or cancelled is so for good: it never becomes a
\* draft again, and without an overlap it never turns from one into the other.
PurchaseFinal == [][FinalStep]_vars

\* Every request is answered: a deadlock between two transactions that write
\* the same items in a different order does not last.
RequestsAnswered == \A w \in Workers : req[w].op # "idle" ~> req[w].op = "idle"

\* purchase.service.spec.ts: "does not receive a purchase that is no longer in
\* draft".  Stated of the stock: no purchase is booked twice.
ReceivedAtMostOnce ==
  \A p \in Purchases : \A b \in Balances : Booked(p, b) <= LinesOn(p, b)

=============================================================================
