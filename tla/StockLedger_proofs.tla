------------------------- MODULE StockLedger_proofs -------------------------
(***************************************************************************)
(* Theorems about StockLedger, for any number of workers, items and        *)
(* purchases, and purchases and sales of any length.                       *)
(***************************************************************************)
EXTENDS StockLedger, SumTheorems

-----------------------------------------------------------------------------
(* The moves of a transaction on one balance: MovesOn is a recursive       *)
(* function, so that it has a value at all has to be shown first.          *)

\* The places of balance b among the first n moves.
Places(s, b, n) == {i \in 1 .. n : s[i].balance = b}

\* it holds the moves on b among the first n moves, for every n up to k.
MovesTable(it, s, b, k) ==
  it = [n \in 0 .. k |->
         IF n = 0 THEN <<>>
         ELSE IF s[n].balance = b THEN Append(it[n - 1], s[n])
         ELSE it[n - 1]]

\* f lists the places of b among the first n moves from left to right, and
\* mine is the moves at these places.
Listed(mine, f, s, b, n) ==
  /\ mine \in Seq(Move)
  /\ f \in [1 .. Len(mine) -> Places(s, b, n)]
  /\ \A k \in 1 .. Len(mine) : mine[k] = s[f[k]]
  /\ \A k, l \in 1 .. Len(mine) : k < l => f[k] < f[l]
  /\ \A i \in Places(s, b, n) : \E k \in 1 .. Len(mine) : f[k] = i

\* What such a table holds.
LEMMA MovesTableSteps ==
  ASSUME NEW s, NEW b, NEW k \in Nat, NEW it, MovesTable(it, s, b, k)
  PROVE  \A n \in 0 .. k :
           /\ n = 0 => it[n] = <<>>
           /\ n # 0 /\ s[n].balance = b => it[n] = Append(it[n - 1], s[n])
           /\ n # 0 /\ s[n].balance # b => it[n] = it[n - 1]
<1> DEFINE Value(m) == IF m = 0 THEN <<>>
                       ELSE IF s[m].balance = b THEN Append(it[m - 1], s[m])
                       ELSE it[m - 1]
<1>1. it = [m \in 0 .. k |-> Value(m)]
  BY DEF MovesTable
<1> HIDE DEF Value
<1>2. \A n \in 0 .. k : it[n] = Value(n)
  BY <1>1
<1>3. QED
  BY <1>2 DEF Value

\* The table of the moves on b exists for every number of moves.
LEMMA MovesTableExists ==
  ASSUME NEW s, NEW b, NEW k \in Nat
  PROVE  \E it : MovesTable(it, s, b, k)
<1> DEFINE Bad == {j \in Nat : ~ \E it : MovesTable(it, s, b, j)}
<1>1. SUFFICES ASSUME k \in Bad PROVE FALSE
  OBVIOUS
<1>2. PICK j \in Bad : \A i \in Bad : j <= i
  <2>1. Bad \in SUBSET Nat
    OBVIOUS
  <2> HIDE DEF Bad
  <2>2. QED
    BY <1>1, <2>1, LeastNumber
<1>3. j # 0
  <2>1. MovesTable([n \in 0 .. 0 |-> <<>>], s, b, 0)
    BY DEF MovesTable
  <2>2. QED
    BY <2>1
<1>4. j - 1 \in Nat /\ j - 1 \notin Bad
  BY <1>2, <1>3
<1>5. PICK old : MovesTable(old, s, b, j - 1)
  BY <1>4
<1> DEFINE new == [n \in 0 .. j |->
                     IF n = 0 THEN <<>>
                     ELSE IF s[n].balance = b THEN Append(old[n - 1], s[n])
                     ELSE old[n - 1]]
<1>6. ASSUME NEW n \in 0 .. j - 1
      PROVE  new[n] = old[n]
  <2>1. new[n] = IF n = 0 THEN <<>>
                 ELSE IF s[n].balance = b THEN Append(old[n - 1], s[n])
                 ELSE old[n - 1]
    BY <1>4
  <2> HIDE DEF new
  <2>2. \A m \in 0 .. j - 1 :
          /\ m = 0 => old[m] = <<>>
          /\ m # 0 /\ s[m].balance = b => old[m] = Append(old[m - 1], s[m])
          /\ m # 0 /\ s[m].balance # b => old[m] = old[m - 1]
    BY <1>4, <1>5, MovesTableSteps DEF MovesTable
  <2>3. QED
    BY <2>1, <2>2
<1>7. MovesTable(new, s, b, j)
  <2> DEFINE Value(n) == IF n = 0 THEN <<>>
                         ELSE IF s[n].balance = b THEN Append(new[n - 1], s[n])
                         ELSE new[n - 1]
             Known(n) == IF n = 0 THEN <<>>
                         ELSE IF s[n].balance = b THEN Append(old[n - 1], s[n])
                         ELSE old[n - 1]
  <2>1. new = [n \in 0 .. j |-> Known(n)]
    OBVIOUS
  <2> HIDE DEF new
  <2>2. ASSUME NEW n \in 0 .. j
        PROVE  Known(n) = Value(n)
    <3>1. n # 0 => new[n - 1] = old[n - 1]
      BY <1>4, <1>6
    <3>2. QED
      BY <3>1
  <2> HIDE DEF Known, Value
  <2>3. new = [n \in 0 .. j |-> Value(n)]
    BY <2>1, <2>2
  <2>4. QED
    BY <2>3 DEF Value, MovesTable
<1>8. QED
  BY <1>2, <1>7

\* MovesOn lists the moves on b in their order.
LEMMA MovesListed ==
  ASSUME NEW s \in Seq(Move), NEW b
  PROVE  \E f : Listed(MovesOn(s, b), f, s, b, Len(s))
<1>0. Len(s) \in Nat
  OBVIOUS
<1>1. MovesOn(s, b) = (CHOOSE it : MovesTable(it, s, b, Len(s)))[Len(s)]
  BY DEF MovesOn, MovesTable
<1>2. PICK it : MovesTable(it, s, b, Len(s)) /\ MovesOn(s, b) = it[Len(s)]
  <2>1. \E it : MovesTable(it, s, b, Len(s))
    BY <1>0, MovesTableExists
  <2>2. QED
    BY <1>1, <2>1
<1> DEFINE Steps(n) == /\ n = 0 => it[n] = <<>>
                       /\ n # 0 /\ s[n].balance = b => it[n] = Append(it[n - 1], s[n])
                       /\ n # 0 /\ s[n].balance # b => it[n] = it[n - 1]
<1>a. \A n \in 0 .. Len(s) : Steps(n)
  BY <1>0, <1>2, MovesTableSteps DEF MovesTable
<1> DEFINE Bad == {n \in 0 .. Len(s) : ~ \E f : Listed(it[n], f, s, b, n)}
<1>3. SUFFICES ASSUME Len(s) \in Bad PROVE FALSE
  BY <1>2
<1>4. PICK n \in Bad : \A m \in Bad : n <= m
  <2>1. Bad \in SUBSET Nat
    OBVIOUS
  <2> HIDE DEF Bad
  <2>2. QED
    BY <1>3, <2>1, LeastNumber
<1>5. n # 0
  <2>1. it[0] = <<>>
    BY <1>0, <1>a
  <2>2. Listed(it[0], <<>>, s, b, 0)
    BY <2>1 DEF Listed, Places
  <2>3. QED
    BY <2>2
<1>6. n - 1 \in 0 .. Len(s) /\ n - 1 \notin Bad /\ n \in 1 .. Len(s)
  BY <1>4, <1>5
<1>7. PICK f : Listed(it[n - 1], f, s, b, n - 1)
  BY <1>6
<1>8. CASE s[n].balance # b
  <2>1. it[n] = it[n - 1]
    BY <1>a, <1>6, <1>8
  <2>2. Places(s, b, n) = Places(s, b, n - 1)
    BY <1>6, <1>8 DEF Places
  <2>3. QED
    BY <1>7, <2>1, <2>2 DEF Listed
<1>9. CASE s[n].balance = b
  <2> DEFINE old == it[n - 1]
             mine == Append(old, s[n])
             g == [k \in 1 .. Len(old) + 1 |-> IF k = Len(old) + 1 THEN n ELSE f[k]]
  <2>1. it[n] = mine
    BY <1>a, <1>6, <1>9
  <2>2. /\ \A i \in Places(s, b, n) : i = n \/ i \in Places(s, b, n - 1)
        /\ n \in Places(s, b, n)
        /\ \A i \in Places(s, b, n - 1) : i \in Places(s, b, n) /\ i < n /\ i \in Int
    BY <1>6, <1>9 DEF Places
  <2>3. old \in Seq(Move) /\ s[n] \in Move /\ Len(old) \in Nat
    BY <1>6, <1>7 DEF Listed
  <2>4. mine \in Seq(Move) /\ Len(mine) = Len(old) + 1
    BY <2>3
  <2>5. \A k \in 1 .. Len(mine) : mine[k] = IF k = Len(old) + 1 THEN s[n] ELSE old[k]
    BY <2>3
  <2> HIDE DEF old, mine
  <2>6. \A k \in 1 .. Len(old) : f[k] \in Places(s, b, n - 1)
    BY <1>7 DEF Listed, old
  <2>7. g \in [1 .. Len(mine) -> Places(s, b, n)]
    BY <2>2, <2>3, <2>4, <2>6
  <2>8. \A k \in 1 .. Len(mine) : mine[k] = s[g[k]]
    BY <1>7, <2>3, <2>4, <2>5 DEF Listed, old
  <2>9. \A k, l \in 1 .. Len(mine) : k < l => g[k] < g[l]
    BY <1>7, <2>2, <2>3, <2>4, <2>6 DEF Listed, old
  <2>10. \A i \in Places(s, b, n) : \E k \in 1 .. Len(mine) : g[k] = i
    <3> SUFFICES ASSUME NEW i \in Places(s, b, n)
                 PROVE  \E k \in 1 .. Len(mine) : g[k] = i
      OBVIOUS
    <3>1. CASE i = n
      BY <2>3, <2>4, <3>1
    <3>2. CASE i \in Places(s, b, n - 1)
      <4>1. PICK k \in 1 .. Len(old) : f[k] = i
        BY <1>7, <3>2 DEF Listed, old
      <4>2. QED
        BY <2>3, <2>4, <4>1
    <3>3. QED
      BY <2>2, <3>1, <3>2
  <2>11. Listed(mine, g, s, b, n)
    BY <2>4, <2>7, <2>8, <2>9, <2>10 DEF Listed
  <2>12. QED
    BY <2>1, <2>11
<1>10. QED
  BY <1>8, <1>9

-----------------------------------------------------------------------------
(* Types *)

\* What the fields of a request hold, by the operation it serves and its step.
IdleShape(r) == r.op = "idle" => r = Idle

ConsumeShape(r) ==
  r.op = "consume" =>
    /\ r.step \in {"read", "write", "commit"}
    /\ r.purchase = NoPurchase
    /\ r.step = "read" <=> r.todo # <<>>
    /\ r.step = "read" => r.written = 0
    /\ r.step = "commit" => r.written = Len(r.moves)

AdjustShape(r) ==
  r.op = "adjust" =>
    /\ r.step \in {"write", "commit"}
    /\ r.purchase = NoPurchase
    /\ r.todo = <<>>
    /\ Len(r.moves) = 1
    /\ r.step = "commit" => r.written = 1

ReceiveShape(r) ==
  r.op = "receive" =>
    /\ r.step \in {"begin", "link", "category", "product", "write", "commit"}
    /\ r.purchase \in Purchases
    /\ r.step = "begin" => r.todo = <<>> /\ r.moves = <<>>
    /\ r.step \in {"link", "category", "product"} => r.todo # <<>>
    /\ r.step = "commit" => r.todo = <<>>
    /\ r.written = IF r.step = "write" THEN Len(r.moves) - 1 ELSE Len(r.moves)

CancelShape(r) ==
  r.op = "cancel" =>
    /\ r.step = "commit"
    /\ r.purchase \in Purchases
    /\ r.todo = <<>> /\ r.moves = <<>> /\ r.written = 0

Shape(r) ==
  /\ r.step = "write" => r.written < Len(r.moves)
  /\ IdleShape(r) /\ ConsumeShape(r) /\ AdjustShape(r) /\ ReceiveShape(r) /\ CancelShape(r)

RequestShape == \A w \in Workers : Shape(req[w])

Types == TypeOK /\ RequestShape


\* The other requests keep their types and their shape.
LEMMA RequestKept ==
  ASSUME NEW w \in Workers, NEW r \in Request, Shape(r), Types,
         req' = [req EXCEPT ![w] = r]
  PROVE  req' \in [Workers -> Request] /\ RequestShape'
  BY DEF Types, TypeOK, RequestShape

\* What the moves on b that a transaction writes are.
LEMMA MovesFacts ==
  ASSUME NEW s \in Seq(Move), NEW b
  PROVE  /\ MovesOn(s, b) \in Seq(Move)
         /\ MovesOn(s, b) = <<>> <=> b \notin BalancesOf(s)
         /\ \A k \in DOMAIN MovesOn(s, b) :
              \E i \in DOMAIN s : MovesOn(s, b)[k] = s[i] /\ s[i].balance = b
<1>1. PICK f : Listed(MovesOn(s, b), f, s, b, Len(s))
  BY MovesListed
<1>2. Places(s, b, Len(s)) = {i \in DOMAIN s : s[i].balance = b}
  BY DEF Places
<1> DEFINE mine == MovesOn(s, b)
<1> HIDE DEF mine
<1>3. mine \in Seq(Move) /\ f \in [1 .. Len(mine) -> Places(s, b, Len(s))]
  BY <1>1 DEF Listed, mine
<1>4. \A k \in DOMAIN mine : \E i \in DOMAIN s : mine[k] = s[i] /\ s[i].balance = b
  BY <1>1, <1>2, <1>3 DEF Listed, mine
<1>5. ASSUME mine = <<>>
      PROVE  b \notin BalancesOf(s)
  BY <1>1, <1>2, <1>5 DEF Listed, mine, BalancesOf
<1>6. ASSUME mine # <<>>
      PROVE  b \in BalancesOf(s)
  <2>1. 1 \in DOMAIN mine
    BY <1>3, <1>6
  <2>2. QED
    BY <1>4, <2>1 DEF BalancesOf
<1>7. QED
  BY <1>3, <1>4, <1>5, <1>6 DEF mine

\* Before the first request no row exists and every worker is idle.
LEMMA InitTypes == Init => Types
<1> SUFFICES ASSUME Init
             PROVE  Types
  OBVIOUS
<1> USE DEF Init
<1>1. Idle \in Request /\ Shape(Idle)
  BY NoPurchaseAssumption DEF Idle, Request, Shape, IdleShape, ConsumeShape, AdjustShape,
     ReceiveShape, CancelShape
<1>2. \A w \in Workers : req[w] = Idle
  OBVIOUS
<1>3. RequestShape
  BY <1>1, <1>2 DEF RequestShape
<1>4. req \in [Workers -> Request]
  BY <1>1
<1>5. kardex \in [Balances -> Seq(Movement)]
  OBVIOUS
<1>6. stock \in [Balances -> Int]
      /\ purchase \in [Purchases -> {"none", "DRAFT", "RECEIVED", "CANCELLED"}]
  OBVIOUS
<1>7. TypeOK
  <2>1. \A w \in Workers : req[w].step # "write"
    BY <1>2 DEF Idle
  <2> HIDE DEF Init
  <2>2. QED
    BY <1>4, <1>5, <1>6, <2>1 DEF TypeOK, Init
<1>8. QED
  BY <1>3, <1>7 DEF Types


\* The need that a request reads next, and what is left after it.
LEMMA NeedTypes ==
  ASSUME Types, NEW w \in Workers, req[w].todo # <<>>
  PROVE  /\ Head(req[w].todo) \in Need
         /\ NextRead(w) \in Balances
         /\ Head(req[w].todo).quantity \in Nat \ {0}
         /\ Tail(req[w].todo) \in Seq(Need)
         /\ Len(Tail(req[w].todo)) = Len(req[w].todo) - 1
<1>1. req[w].todo \in Seq(Need)
  BY DEF Types, TypeOK, Request
<1>2. Head(req[w].todo) \in Need /\ Tail(req[w].todo) \in Seq(Need)
  BY <1>1
<1>3. Len(Tail(req[w].todo)) = Len(req[w].todo) - 1
  BY <1>1
<1>4. QED
  BY <1>2, <1>3 DEF Need, NextRead

\* A need that is deducted is a move of its own, or lowers the stock that the
\* move on its item leaves and nothing else.
LEMMA DeductFacts ==
  ASSUME Types, NEW w \in Workers, req[w].todo # <<>>
  PROVE  /\ Deduct(w) \in Seq(Move)
         /\ Deduct(w) # <<>>
         /\ NextRead(w) \in BalancesOf(req[w].moves) =>
              /\ Len(Deduct(w)) = Len(req[w].moves)
              /\ \A i \in DOMAIN req[w].moves :
                   /\ Deduct(w)[i].balance = req[w].moves[i].balance
                   /\ Deduct(w)[i].before = req[w].moves[i].before
                   /\ Deduct(w)[i].allow = req[w].moves[i].allow
         /\ NextRead(w) \notin BalancesOf(req[w].moves) =>
              \E m \in Move :
                /\ Deduct(w) = Append(req[w].moves, m)
                /\ m.balance = NextRead(w)
                /\ m.before = stock[NextRead(w)]
                /\ m.allow = (NextRead(w) \in allowNegative)
<1> DEFINE b == NextRead(w)
           q == Head(req[w].todo).quantity
           moves == req[w].moves
           new == [balance |-> b, before |-> stock[b], after |-> stock[b] - q,
                   allow |-> b \in allowNegative]
           less == [i \in DOMAIN moves |-> IF moves[i].balance = b
                                            THEN [moves[i] EXCEPT !.after = @ - q]
                                            ELSE moves[i]]
<1>1. Deduct(w) = IF b \in BalancesOf(moves) THEN less ELSE Append(moves, new)
  BY DEF Deduct, NextRead
<1>2. b \in Balances /\ q \in Nat
  BY NeedTypes
<1>3. moves \in Seq(Move) /\ stock[b] \in Int
  BY <1>2 DEF Types, TypeOK, Request
<1>4. new \in Move
  BY <1>2, <1>3 DEF Move
<1> HIDE DEF b, q, moves
<1>5. ASSUME NEW i \in DOMAIN moves
      PROVE  /\ less[i] \in Move
             /\ less[i].balance = moves[i].balance
             /\ less[i].before = moves[i].before
             /\ less[i].allow = moves[i].allow
  <2>1. moves[i] \in Move
    BY <1>3
  <2>2. QED
    BY <1>2, <2>1 DEF Move
<1>6. less \in Seq(Move) /\ Len(less) = Len(moves)
  BY <1>3, <1>5
<1>7. Append(moves, new) \in Seq(Move) /\ Append(moves, new) # <<>>
  BY <1>3, <1>4
<1>8. b \in BalancesOf(moves) => less # <<>>
  BY <1>3, <1>6 DEF BalancesOf
<1>9. new.balance = b /\ new.before = stock[b] /\ new.allow = (b \in allowNegative)
  OBVIOUS
<1> HIDE DEF new, less
<1>10. QED
  BY <1>1, <1>4, <1>5, <1>6, <1>7, <1>8, <1>9 DEF b, moves

\* What a transaction leaves in an item's balance and in its kardex.
LEMMA RowsAfter ==
  ASSUME Types, NEW w \in Workers
  PROVE  /\ BalancesOf(req[w].moves) \subseteq Balances
         /\ StockAfter(w) \in [Balances -> Int]
         /\ KardexAfter(w) \in [Balances -> Seq(Movement)]
<1>1. req[w].moves \in Seq(Move) /\ req[w].purchase \in Purchases \cup {NoPurchase}
  BY DEF Types, TypeOK, Request
<1>2. BalancesOf(req[w].moves) \subseteq Balances
  <2>1. \A i \in DOMAIN req[w].moves : req[w].moves[i] \in Move
    BY <1>1
  <2>2. QED
    BY <2>1 DEF BalancesOf, Move
<1>3. ASSUME NEW b \in Balances
      PROVE  StockAfter(w)[b] \in Int /\ KardexAfter(w)[b] \in Seq(Movement)
  <2> DEFINE mine == MovesOn(req[w].moves, b)
             new == [i \in DOMAIN mine |-> MovementOf(w, mine[i])]
  <2>1. mine \in Seq(Move)
    BY <1>1, MovesFacts
  <2>2. StockAfter(w)[b] = (IF mine = <<>> THEN stock[b] ELSE mine[Len(mine)].after)
        /\ KardexAfter(w)[b] = kardex[b] \o new
    BY <1>3 DEF StockAfter, KardexAfter
  <2> HIDE DEF mine
  <2>3. mine # <<>> => mine[Len(mine)] \in Move
    BY <2>1
  <2>4. stock[b] \in Int /\ kardex[b] \in Seq(Movement)
    BY <1>3 DEF Types, TypeOK
  <2>5. \A i \in DOMAIN mine : new[i] \in Movement
    <3>1. \A i \in DOMAIN mine : mine[i] \in Move
      BY <2>1
    <3>2. QED
      BY <1>1, <3>1 DEF Move, Movement, MovementOf
  <2>6. new \in Seq(Movement)
    BY <2>1, <2>5
  <2> HIDE DEF new
  <2>7. QED
    BY <2>2, <2>3, <2>4, <2>6 DEF Move
<1>4. QED
  BY <1>2, <1>3 DEF StockAfter, KardexAfter


\* A step that changes one request and no row keeps the types.
LEMMA RequestStepTypes ==
  ASSUME Types, NEW w \in Workers, NEW r \in Request, Shape(r),
         req' = [req EXCEPT ![w] = r], UNCHANGED <<rows, everAllowed>>,
         contended' \subseteq Balances, raced' \subseteq Purchases
  PROVE  Types'
<1>1. req' \in [Workers -> Request] /\ RequestShape'
  BY RequestKept
<1>2. \A v \in Workers : req'[v].step = "write" => req'[v].written < Len(req'[v].moves)
  BY <1>1 DEF RequestShape, Shape
<1>3. QED
  BY <1>1, <1>2 DEF Types, TypeOK, rows

\* An answered request is idle again.
LEMMA AnsweredShape ==
  /\ Idle \in Request
  /\ Shape(Idle)
  /\ \A w : Answered(w) => req' = [req EXCEPT ![w] = Idle]
  BY NoPurchaseAssumption DEF Idle, Request, Shape, IdleShape, ConsumeShape, AdjustShape,
     ReceiveShape, CancelShape, Answered

\* A step that only answers a request keeps the types.
LEMMA AnswerTypes ==
  ASSUME Types, NEW w \in Workers, Answered(w),
         UNCHANGED <<rows, contended, raced, everAllowed>>
  PROVE  Types'
<1>1. contended' \subseteq Balances /\ raced' \subseteq Purchases
  BY DEF Types, TypeOK
<1>2. QED
  BY <1>1, AnsweredShape, RequestStepTypes

\* Every step of every handler keeps the rows typed, and leaves each request
\* with the fields its next step needs.
LEMMA NextTypes == Types /\ [Next]_vars => Types'
<1> SUFFICES ASSUME Types, [Next]_vars
             PROVE  Types'
  OBVIOUS
<1>a. \A w \in Workers : req[w] \in Request /\ Shape(req[w])
  BY DEF Types, TypeOK, RequestShape
<1>b. contended \subseteq Balances /\ raced \subseteq Purchases
  BY DEF Types, TypeOK
<1> USE DEF IdleShape, ConsumeShape, AdjustShape, ReceiveShape, CancelShape
<1>1. CASE UNCHANGED vars
  BY <1>1 DEF vars, rows, Types, TypeOK, RequestShape, Shape
<1>2. ASSUME NEW w \in Workers, NEW order \in Orders, ConsumeStart(w, order)
      PROVE  Types'
  <2> DEFINE r == [req[w] EXCEPT !.op = "consume", !.step = "read", !.todo = order]
  <2>0. req[w] = Idle
    BY <1>2 DEF ConsumeStart
  <2>1. order \in Seq(Need) /\ order # <<>>
    BY OrdersAssumption
  <2>2. r \in Request /\ Shape(r)
    <3>1. r \in Request
      BY <1>a, <2>1 DEF Request
    <3>2. /\ r.op = "consume"
          /\ r.step = "read"
          /\ r.purchase = NoPurchase
          /\ r.todo = order
          /\ r.moves = <<>>
          /\ r.written = 0
          /\ r.category = FALSE
      BY <1>a, <2>0 DEF Request, Idle
    <3> HIDE DEF r
    <3>3. QED
      BY <3>1, <3>2, <2>1 DEF Shape
  <2>3. req' = [req EXCEPT ![w] = r]
    BY <1>2 DEF ConsumeStart, Types, TypeOK
  <2>4. UNCHANGED <<rows, contended, raced, everAllowed>>
    BY <1>2 DEF ConsumeStart
  <2> HIDE DEF r
  <2>5. QED
    BY <1>b, <2>2, <2>3, <2>4, RequestStepTypes
<1>3. ASSUME NEW w \in Workers, ConsumeRead(w)
      PROVE  Types'
  <2> DEFINE after == Deduct(w)
             r == [req[w] EXCEPT !.step = StepAfterRead(w, after), !.todo = Tail(req[w].todo),
                                 !.moves = after]
  <2>1. req[w].todo # <<>>
    BY <1>3, <1>a DEF ConsumeRead, Shape
  <2>2. after \in Seq(Move) /\ after # <<>> /\ Tail(req[w].todo) \in Seq(Need)
        /\ NextRead(w) \in Balances
    BY <2>1, DeductFacts, NeedTypes
  <2>3. req' = [req EXCEPT ![w] = r]
    BY <1>3 DEF ConsumeRead, Types, TypeOK
  <2> HIDE DEF after
  <2>4. r \in Request /\ Shape(r)
    <3>1. r \in Request
      BY <1>a, <2>2 DEF Request, StepAfterRead
    <3>2. /\ r.op = req[w].op
          /\ r.step = StepAfterRead(w, after)
          /\ r.purchase = req[w].purchase
          /\ r.todo = Tail(req[w].todo)
          /\ r.moves = after
          /\ r.written = req[w].written
          /\ r.category = req[w].category
      BY <1>a DEF Request
    <3> HIDE DEF r
    <3>3. Len(after) > 0
      BY <2>2
    <3>4. QED
      BY <3>1, <3>2, <3>3, <1>3, <1>a, <2>2 DEF ConsumeRead, Shape, StepAfterRead
  <2>5. UNCHANGED <<rows, raced, everAllowed>> /\ contended' \subseteq Balances
    BY <1>3, <1>b, <2>2 DEF ConsumeRead, Contend
  <2> HIDE DEF r
  <2>6. QED
    BY <1>b, <2>3, <2>4, <2>5, RequestStepTypes
<1>4. ASSUME NEW w \in Workers, ConsumeSkip(w)
      PROVE  Types'
  <2> DEFINE r == [req[w] EXCEPT !.step = StepAfterRead(w, req[w].moves),
                                 !.todo = Tail(req[w].todo)]
  <2>1. req[w].todo # <<>>
    BY <1>4, <1>a DEF ConsumeSkip, Shape
  <2>2. Tail(req[w].todo) \in Seq(Need)
    BY <2>1, NeedTypes
  <2>3. req' = [req EXCEPT ![w] = r]
    BY <1>4 DEF ConsumeSkip, Types, TypeOK
  <2>4. r \in Request /\ Shape(r)
    <3>1. r \in Request
      BY <1>a, <2>2 DEF Request, StepAfterRead
    <3>2. /\ r.op = req[w].op
          /\ r.step = StepAfterRead(w, req[w].moves)
          /\ r.purchase = req[w].purchase
          /\ r.todo = Tail(req[w].todo)
          /\ r.moves = req[w].moves
          /\ r.written = req[w].written
          /\ r.category = req[w].category
      BY <1>a DEF Request
    <3> HIDE DEF r
    <3>3. QED
      BY <3>1, <3>2, <1>4, <1>a, <2>2 DEF ConsumeSkip, Shape, StepAfterRead, Request
  <2>5. UNCHANGED <<rows, contended, raced, everAllowed>>
    BY <1>4 DEF ConsumeSkip
  <2> HIDE DEF r
  <2>6. QED
    BY <1>b, <2>3, <2>4, <2>5, RequestStepTypes
<1>5. ASSUME NEW w \in Workers, ConsumeRefused(w)
      PROVE  Types'
  BY <1>5, AnswerTypes DEF ConsumeRefused
<1>6. ASSUME NEW w \in Workers, NEW b \in Balances, NEW n \in Adjustments, AdjustRead(w, b, n)
      PROVE  Types'
  <2> DEFINE move == [balance |-> b, before |-> stock[b], after |-> stock[b] + n,
                      allow |-> b \in allowNegative]
             r == [req[w] EXCEPT !.op = "adjust", !.step = "write", !.moves = <<move>>]
  <2>0. req[w] = Idle
    BY <1>6 DEF AdjustRead
  <2>1. move \in Move
    BY QuantitiesAssumption DEF Types, TypeOK, Move
  <2>2. req[w] = Idle
    BY <1>6 DEF AdjustRead
  <2>3. req' = [req EXCEPT ![w].op = "adjust", ![w].step = "write", ![w].moves = <<move>>]
    BY <1>6 DEF AdjustRead
  <2> HIDE DEF move
  <2>4. req' = [req EXCEPT ![w] = r]
    BY <2>3 DEF Types, TypeOK
  <2>5. r \in Request /\ Shape(r)
    <3>a. <<move>> \in Seq(Move) /\ Len(<<move>>) = 1
      BY <2>1
    <3>1. r \in Request
      BY <1>a, <3>a DEF Request
    <3>2. /\ r.op = "adjust"
          /\ r.step = "write"
          /\ r.purchase = NoPurchase
          /\ r.todo = <<>>
          /\ r.moves = <<move>>
          /\ r.written = 0
          /\ r.category = FALSE
      BY <1>a, <2>0 DEF Request, Idle
    <3> HIDE DEF r
    <3>3. QED
      BY <3>1, <3>2, <2>1 DEF Shape
  <2>6. UNCHANGED <<rows, raced, everAllowed>> /\ contended' \subseteq Balances
    BY <1>6, <1>b DEF AdjustRead, Contend
  <2> HIDE DEF r
  <2>7. QED
    BY <1>b, <2>4, <2>5, <2>6, RequestStepTypes
<1>7. ASSUME NEW w \in Workers, NEW p \in Purchases, ReceiveCheck(w, p)
      PROVE  Types'
  <2> DEFINE r == [req[w] EXCEPT !.op = "receive", !.step = "begin", !.purchase = p]
  <2>0. req[w] = Idle
    BY <1>7 DEF ReceiveCheck
  <2>1. r \in Request /\ Shape(r)
    <3>1. r \in Request
      BY <1>a DEF Request
    <3>2. /\ r.op = "receive"
          /\ r.step = "begin"
          /\ r.purchase = p
          /\ r.todo = <<>>
          /\ r.moves = <<>>
          /\ r.written = 0
          /\ r.category = FALSE
      BY <1>a, <2>0 DEF Request, Idle
    <3> HIDE DEF r
    <3>3. QED
      BY <3>1, <3>2, NoPurchaseAssumption DEF Shape
  <2>2. req' = [req EXCEPT ![w] = r]
    BY <1>7 DEF ReceiveCheck, Types, TypeOK
  <2>3. UNCHANGED <<rows, contended, everAllowed>> /\ raced' \subseteq Purchases
    BY <1>7, <1>b DEF ReceiveCheck, Race
  <2> HIDE DEF r
  <2>4. QED
    BY <1>b, <2>1, <2>2, <2>3, RequestStepTypes
<1>8. ASSUME NEW w \in Workers, ReceiveBegin(w)
      PROVE  Types'
  <2> DEFINE lines == Items[req[w].purchase]
             r == [req[w] EXCEPT !.step = "link", !.todo = lines]
  <2>1. lines \in Seq(Need) /\ lines # <<>>
    BY <1>8, <1>a, ItemsAssumption DEF ReceiveBegin, Shape
  <2>2. req' = [req EXCEPT ![w] = r]
    BY <1>8 DEF ReceiveBegin, Types, TypeOK
  <2> HIDE DEF lines
  <2>3. r \in Request /\ Shape(r)
    BY <1>8, <1>a, <2>1 DEF ReceiveBegin, Request, Shape
  <2>4. UNCHANGED <<rows, contended, raced, everAllowed>>
    BY <1>8 DEF ReceiveBegin
  <2> HIDE DEF r
  <2>5. QED
    BY <1>b, <2>2, <2>3, <2>4, RequestStepTypes
<1>9. ASSUME NEW w \in Workers, ReceiveStale(w)
      PROVE  Types'
  BY <1>9, AnswerTypes DEF ReceiveStale
<1>10. ASSUME NEW w \in Workers, ReceiveLink(w)
       PROVE  Types'
  <2> DEFINE next == IF NextRead(w) \in created \cup ProductsOf(w) THEN "product" ELSE "category"
             r == [req[w] EXCEPT !.step = next]
  <2>1. next \in {"product", "category"}
    OBVIOUS
  <2>2. req' = [req EXCEPT ![w] = r]
    BY <1>10 DEF ReceiveLink, Types, TypeOK
  <2> HIDE DEF next
  <2>3. r \in Request /\ Shape(r)
    BY <1>10, <1>a, <2>1 DEF ReceiveLink, Request, Shape
  <2>4. UNCHANGED <<rows, contended, raced, everAllowed>>
    BY <1>10 DEF ReceiveLink
  <2> HIDE DEF r
  <2>5. QED
    BY <1>b, <2>2, <2>3, <2>4, RequestStepTypes
<1>11. ASSUME NEW w \in Workers, ReceiveInsert(w)
       PROVE  Types'
  <2> DEFINE r == [req[w] EXCEPT !.step = "product", !.category = TRUE]
  <2>1. req[w].op = "receive"
    BY <1>11, <1>a DEF ReceiveInsert, Shape, Request, Idle
  <2>2. req' = [req EXCEPT ![w] = r]
    BY <1>11 DEF ReceiveInsert, Types, TypeOK
  <2>3. r \in Request /\ Shape(r)
    BY <1>11, <1>a, <2>1 DEF ReceiveInsert, Request, Shape
  <2>4. UNCHANGED <<rows, contended, raced, everAllowed>>
    BY <1>11 DEF ReceiveInsert
  <2> HIDE DEF r
  <2>5. QED
    BY <1>b, <2>2, <2>3, <2>4, RequestStepTypes
<1>12. ASSUME NEW w \in Workers, ReceiveConflict(w)
       PROVE  Types'
  BY <1>12, AnswerTypes DEF ReceiveConflict
<1>13. ASSUME NEW w \in Workers, ReceiveRead(w)
       PROVE  Types'
  <2> DEFINE b == NextRead(w)
             before == StockAfter(w)[b]
             move == [balance |-> b, before |-> before,
                      after |-> before + Head(req[w].todo).quantity, allow |-> FALSE]
             r == [req[w] EXCEPT !.step = "write", !.todo = Tail(req[w].todo),
                                 !.moves = Append(req[w].moves, move)]
  <2>1. req[w].op = "receive" /\ req[w].todo # <<>>
    BY <1>13, <1>a DEF ReceiveRead, Shape, Request, Idle
  <2>2. b \in Balances /\ Head(req[w].todo).quantity \in Int /\ Tail(req[w].todo) \in Seq(Need)
    BY <2>1, NeedTypes
  <2>3. before \in Int
    BY <2>2, RowsAfter
  <2>4. move \in Move
    BY <2>2, <2>3 DEF Move
  <2>5. req' = [req EXCEPT ![w] = r]
    BY <1>13 DEF ReceiveRead, NextRead, Types, TypeOK
  <2>6. UNCHANGED <<rows, raced, everAllowed>> /\ contended' \subseteq Balances
    BY <1>13, <1>b, <2>2 DEF ReceiveRead, Contend, NextRead
  <2> HIDE DEF move
  <2>7. r \in Request /\ Shape(r)
    <3>a. Append(req[w].moves, move) \in Seq(Move)
      BY <1>a, <2>4 DEF Request
    <3>1. r \in Request
      BY <1>a, <2>2, <3>a DEF Request
    <3>2. /\ r.op = req[w].op
          /\ r.step = "write"
          /\ r.purchase = req[w].purchase
          /\ r.todo = Tail(req[w].todo)
          /\ r.moves = Append(req[w].moves, move)
          /\ r.written = req[w].written
          /\ r.category = req[w].category
      BY <1>a DEF Request
    <3> HIDE DEF r
    <3>3. QED
      BY <3>1, <3>2, <1>13, <1>a, <2>1, <2>2, <2>4 DEF ReceiveRead, Shape, Request
  <2> HIDE DEF r
  <2>8. QED
    BY <1>b, <2>5, <2>6, <2>7, RequestStepTypes
<1>14. ASSUME NEW w \in Workers, NEW p \in Purchases, CancelCheck(w, p)
       PROVE  Types'
  <2> DEFINE r == [req[w] EXCEPT !.op = "cancel", !.step = "commit", !.purchase = p]
  <2>0. req[w] = Idle
    BY <1>14 DEF CancelCheck
  <2>1. r \in Request /\ Shape(r)
    <3>1. r \in Request
      BY <1>a DEF Request
    <3>2. /\ r.op = "cancel"
          /\ r.step = "commit"
          /\ r.purchase = p
          /\ r.todo = <<>>
          /\ r.moves = <<>>
          /\ r.written = 0
          /\ r.category = FALSE
      BY <1>a, <2>0 DEF Request, Idle
    <3> HIDE DEF r
    <3>3. QED
      BY <3>1, <3>2, NoPurchaseAssumption DEF Shape
  <2>2. req' = [req EXCEPT ![w] = r]
    BY <1>14 DEF CancelCheck, Types, TypeOK
  <2>3. UNCHANGED <<rows, contended, everAllowed>> /\ raced' \subseteq Purchases
    BY <1>14, <1>b DEF CancelCheck, Race
  <2> HIDE DEF r
  <2>4. QED
    BY <1>b, <2>1, <2>2, <2>3, RequestStepTypes
<1>15. ASSUME NEW w \in Workers, CancelCommit(w)
       PROVE  Types'
  <2>1. req' \in [Workers -> Request] /\ RequestShape'
    BY <1>15, AnsweredShape, RequestKept DEF CancelCommit
  <2>2. purchase' \in [Purchases -> {"none", "DRAFT", "RECEIVED", "CANCELLED"}]
    BY <1>15 DEF CancelCommit, Types, TypeOK
  <2>3. QED
    BY <1>15, <2>1, <2>2 DEF CancelCommit, Types, TypeOK, RequestShape, Shape
<1>16. ASSUME NEW w \in Workers, Write(w)
       PROVE  Types'
  <2> DEFINE r == [req[w] EXCEPT !.step = StepAfterWrite(w), !.written = req[w].written + 1]
  <2>1. req' = [req EXCEPT ![w] = r]
    BY <1>16 DEF Write, Types, TypeOK
  <2>2. r \in Request /\ Shape(r)
    <3>a. req[w].written + 1 \in Nat /\ StepAfterWrite(w) \in {"link", "write", "commit"}
      BY <1>a DEF Request, StepAfterWrite
    <3>1. r \in Request
      BY <1>a, <3>a DEF Request
    <3>2. /\ r.op = req[w].op
          /\ r.step = StepAfterWrite(w)
          /\ r.purchase = req[w].purchase
          /\ r.todo = req[w].todo
          /\ r.moves = req[w].moves
          /\ r.written = req[w].written + 1
          /\ r.category = req[w].category
      BY <1>a DEF Request
    <3> HIDE DEF r
    <3>3. Len(req[w].moves) \in Nat /\ req[w].written \in Nat /\ req[w].op # "idle"
      BY <1>16, <1>a DEF Write, Request, Shape, Idle
    <3>4. req[w].step = "write" /\ req[w].written < Len(req[w].moves)
      BY <1>16, <1>a DEF Write, Shape
    <3>5. r.step = "write" => r.written < Len(r.moves)
      BY <3>2, <3>3, <3>4 DEF StepAfterWrite
    <3>6. req[w].todo = <<>> =>
            /\ r.step \in {"write", "commit"}
            /\ r.step = "commit" => r.written = Len(req[w].moves)
      BY <3>2, <3>3, <3>4 DEF StepAfterWrite
    <3>7. req[w].todo # <<>> => r.step = "link"
      BY <3>2 DEF StepAfterWrite
    <3>8. Shape(req[w])
      BY <1>a
    <3>9. IdleShape(r) /\ CancelShape(r)
      BY <3>2, <3>3, <3>4, <3>8 DEF Shape
    <3>10. ConsumeShape(r)
      <4>1. CASE req[w].todo = <<>>
        BY <3>2, <3>3, <3>4, <3>6, <3>8, <4>1 DEF Shape
      <4>2. CASE req[w].todo # <<>>
        BY <3>2, <3>3, <3>4, <3>7, <3>8, <4>2 DEF Shape
      <4>3. QED
        BY <4>1, <4>2
    <3>11. AdjustShape(r)
      BY <3>2, <3>3, <3>4, <3>6, <3>8 DEF Shape
    <3>12. ReceiveShape(r)
      BY <3>2, <3>3, <3>4, <3>5, <3>6, <3>7, <3>8 DEF Shape
    <3>13. QED
      BY <3>1, <3>5, <3>9, <3>10, <3>11, <3>12 DEF Shape
  <2>3. UNCHANGED <<rows, contended, raced, everAllowed>>
    BY <1>16 DEF Write
  <2> HIDE DEF r
  <2>4. QED
    BY <1>b, <2>1, <2>2, <2>3, RequestStepTypes
<1>17. ASSUME NEW w \in Workers, Commit(w)
       PROVE  Types'
  <2>1. req' \in [Workers -> Request] /\ RequestShape'
    BY <1>17, AnsweredShape, RequestKept DEF Commit
  <2>2. stock' \in [Balances -> Int] /\ kardex' \in [Balances -> Seq(Movement)]
        /\ created' \subseteq Balances /\ active' \subseteq created' /\ created \subseteq created'
    BY <1>17, RowsAfter DEF Commit, Types, TypeOK
  <2>3. purchase' \in [Purchases -> {"none", "DRAFT", "RECEIVED", "CANCELLED"}]
    BY <1>17 DEF Commit, Types, TypeOK
  <2>4. QED
    BY <1>17, <2>1, <2>2, <2>3 DEF Commit, Types, TypeOK, RequestShape, Shape
<1>18. ASSUME NEW w \in Workers, DeadlockAbort(w)
       PROVE  Types'
  BY <1>18, AnswerTypes DEF DeadlockAbort
<1>19. ASSUME NEW b \in Balances, NEW n \in Initial, NEW negative \in BOOLEAN,
              CreateItem(b, n, negative)
       PROVE  Types'
  <2> DEFINE first == IF n > 0 THEN <<[before |-> 0, after |-> n, purchase |-> NoPurchase]>>
                               ELSE <<>>
  <2>1. n \in Int /\ n \in Nat
    BY QuantitiesAssumption
  <2>2. [before |-> 0, after |-> n, purchase |-> NoPurchase] \in Movement
    BY <2>1 DEF Movement
  <2>3. first \in Seq(Movement)
    BY <2>2
  <2>4. kardex' = [kardex EXCEPT ![b] = first]
    BY <1>19 DEF CreateItem
  <2> HIDE DEF first
  <2>5. kardex' \in [Balances -> Seq(Movement)] /\ stock' \in [Balances -> Int]
    BY <1>19, <2>1, <2>3, <2>4 DEF CreateItem, Types, TypeOK
  <2>6. QED
    BY <1>19, <2>5 DEF CreateItem, Types, TypeOK, RequestShape, Shape
<1>20. ASSUME NEW b \in Edited, NEW negative \in BOOLEAN, NEW isActive \in BOOLEAN,
              UpdateItem(b, negative, isActive)
       PROVE  Types'
  BY <1>20, EditedAssumption DEF UpdateItem, Types, TypeOK, RequestShape, Shape
<1>21. ASSUME NEW p \in Purchases, CreatePurchase(p)
       PROVE  Types'
  BY <1>21 DEF CreatePurchase, Types, TypeOK, RequestShape, Shape
<1>22. ASSUME NEW w \in Workers, \/ \E b \in Balances, n \in Adjustments : AdjustRefused(w, b, n)
                                 \/ \E p \in Purchases : PurchaseRejected(w, p)
       PROVE  Types'
  BY <1>1, <1>22 DEF AdjustRefused, PurchaseRejected
<1>23. QED
  BY <1>1, <1>2, <1>3, <1>4, <1>5, <1>6, <1>7, <1>8, <1>9, <1>10, <1>11, <1>12, <1>13, <1>14,
     <1>15, <1>16, <1>17, <1>18, <1>19, <1>20, <1>21, <1>22 DEF Next, Serve

\* Type correctness: the rows that the stock, adjustment and purchase handlers
\* write have their types in every state, and a request that is about to write
\* always has a move left to write.
THEOREM TypeCorrect == Spec => []TypeOK
<1>1. Types => TypeOK
  BY DEF Types
<1>2. QED
  BY <1>1, InitTypes, NextTypes, PTL DEF Spec

-----------------------------------------------------------------------------
(* The inductive invariant about the stock and its kardex *)

\* Movements are only written for items that exist; what a sale or an
\* adjustment has read exists.
ItemsExist ==
  /\ \A b \in Balances \ created : kardex[b] = <<>>
  /\ \A w \in Workers :
       req[w].op \in {"consume", "adjust"} => BalancesOf(req[w].moves) \subseteq created

\* A move is allowed a negative stock only for an item that was.  The checks
\* that adjustStock and the receive have made hold for every move they carry;
\* a consumption has passed its check once it has written.
Covered(m) == m.balance \in everAllowed \/ m.after >= 0
MovesChecked ==
  /\ allowNegative \subseteq everAllowed
  /\ \A w \in Workers : \A i \in DOMAIN req[w].moves :
       /\ req[w].moves[i].allow => req[w].moves[i].balance \in everAllowed
       /\ req[w].op \in {"adjust", "receive"} => Covered(req[w].moves[i])
       /\ req[w].op = "consume" /\ (req[w].written > 0 \/ req[w].step = "commit")
            => Covered(req[w].moves[i])

\* Unless two transactions read it before either ended, an item is in the
\* moves of one of them at most.
ReadAlone ==
  \A w, v \in Workers :
    w # v => BalancesOf(req[w].moves) \cap BalancesOf(req[v].moves) \subseteq contended

\* A consumption has one move for each item.
OneMoveEach ==
  \A w \in Workers :
    req[w].op = "consume" =>
      \A i, j \in DOMAIN req[w].moves :
        req[w].moves[i].balance = req[w].moves[j].balance => i = j

\* The moves of a transaction on an item start from its stock and continue each
\* other, unless another one read the item meanwhile.
FirstOn(moves, j) == \A i \in 1 .. j - 1 : moves[i].balance # moves[j].balance
NextOn(moves, i, j) ==
  /\ i < j
  /\ moves[i].balance = moves[j].balance
  /\ \A k \in i + 1 .. j - 1 : moves[k].balance # moves[j].balance
Chained(moves, from, shared) ==
  \A j \in DOMAIN moves :
    moves[j].balance \notin shared =>
      /\ FirstOn(moves, j) => moves[j].before = from[moves[j].balance]
      /\ \A i \in DOMAIN moves : NextOn(moves, i, j) => moves[j].before = moves[i].after
MovesChained == \A w \in Workers : Chained(req[w].moves, stock, contended)


\* The places that balance b has among the moves.
PlacesOf(s, b) == {i \in DOMAIN s : s[i].balance = b}

\* mine starts at the first place, ends at the last one and leaves none out.
Ordered(mine, s, places) ==
  /\ mine # <<>> => \E i \in places : mine[1] = s[i] /\ \A j \in places : i <= j
  /\ mine # <<>> => \E i \in places : mine[Len(mine)] = s[i] /\ \A j \in places : j <= i
  /\ \A k \in 2 .. Len(mine) :
       \E i, j \in places :
         /\ mine[k - 1] = s[i]
         /\ mine[k] = s[j]
         /\ i < j
         /\ \A l \in places : l <= i \/ j <= l

\* The moves on b are met from left to right, and none is left out.
LEMMA MovesOrder ==
  ASSUME NEW s \in Seq(Move), NEW b
  PROVE  Ordered(MovesOn(s, b), s, PlacesOf(s, b))
<1> DEFINE mine == MovesOn(s, b)
           places == PlacesOf(s, b)
           n == Len(mine)
<1>1. PICK f : Listed(mine, f, s, b, Len(s))
  BY MovesListed
<1>2. Places(s, b, Len(s)) = places
  BY DEF Places, PlacesOf
<1>3. places \subseteq Int
  BY DEF PlacesOf
<1> HIDE DEF mine, places
<1>4. mine \in Seq(Move) /\ n \in Nat
  BY <1>1 DEF Listed
<1>5. /\ f \in [1 .. n -> places]
      /\ \A k \in 1 .. n : mine[k] = s[f[k]]
      /\ \A k, l \in 1 .. n : k < l => f[k] < f[l]
      /\ \A i \in places : \E k \in 1 .. n : f[k] = i
  BY <1>1, <1>2 DEF Listed
<1> HIDE DEF n
<1>6. ASSUME NEW k \in 1 .. n, NEW l \in 1 .. n, k <= l
      PROVE  f[k] <= f[l]
  <2>1. f[k] \in Int /\ f[l] \in Int
    BY <1>3, <1>5
  <2>2. CASE k < l
    BY <1>5, <2>1, <2>2
  <2>3. CASE k = l
    BY <2>1, <2>3
  <2>4. QED
    BY <1>4, <1>6, <2>2, <2>3
<1>7. ASSUME mine # <<>>
      PROVE  /\ \E i \in places : mine[1] = s[i] /\ \A j \in places : i <= j
             /\ \E i \in places : mine[n] = s[i] /\ \A j \in places : j <= i
  <2>1. 1 \in 1 .. n /\ n \in 1 .. n
    BY <1>4, <1>7 DEF n
  <2>2. \A j \in places : f[1] <= j /\ j <= f[n]
    BY <1>4, <1>5, <1>6, <2>1
  <2>3. QED
    BY <1>5, <2>1, <2>2
<1>8. ASSUME NEW k \in 2 .. n
      PROVE  \E i, j \in places : /\ mine[k - 1] = s[i]
                                   /\ mine[k] = s[j]
                                   /\ i < j
                                   /\ \A l \in places : l <= i \/ j <= l
  <2>1. k \in 1 .. n /\ k - 1 \in 1 .. n /\ k - 1 < k
    BY <1>4
  <2>2. f[k - 1] \in places /\ f[k] \in places /\ f[k - 1] < f[k]
        /\ mine[k - 1] = s[f[k - 1]] /\ mine[k] = s[f[k]]
    BY <1>5, <2>1
  <2>3. ASSUME NEW l \in places
        PROVE  l <= f[k - 1] \/ f[k] <= l
    <3>1. PICK m \in 1 .. n : f[m] = l
      BY <1>5
    <3>2. m <= k - 1 \/ k <= m
      BY <1>4, <2>1
    <3>3. QED
      BY <1>6, <2>1, <3>1, <3>2
  <2>4. QED
    BY <2>2, <2>3
<1>9. QED
  BY <1>7, <1>8 DEF mine, places, n, Ordered

\* A step that writes no row of the stock, reads none and ends or goes on with
\* what a request has read.
Quiet ==
  /\ UNCHANGED <<created, stock, kardex, allowNegative, contended, everAllowed>>
  /\ \A w \in Workers :
       \/ req'[w].moves = <<>>
       \/ /\ req'[w].moves = req[w].moves
          /\ req'[w].op = req[w].op
          /\ req'[w].op = "consume" /\ (req'[w].written > 0 \/ req'[w].step = "commit") =>
               (req[w].written > 0 \/ req[w].step = "commit") \/ ~Shortage(w)

\* Only a receive reads purchase lines.
LEMMA ReceiveSteps ==
  ASSUME Types, NEW w \in Workers, req[w].step \in {"link", "category", "product"}
  PROVE  req[w].op = "receive" /\ req[w].todo # <<>>
<1>1. req[w] \in Request /\ Shape(req[w])
  BY DEF Types, TypeOK, RequestShape
<1>2. req[w].op \in {"idle", "consume", "adjust", "receive", "cancel"}
  BY <1>1 DEF Request
<1>3. QED
  BY <1>1, <1>2 DEF Shape, IdleShape, ConsumeShape, AdjustShape, ReceiveShape, CancelShape, Idle

\* What a step can do to the stock, its kardex and what requests have read.
LEMMA StepKinds ==
  Types /\ [Next]_vars =>
    \/ Quiet
    \/ \E w \in Workers : ConsumeRead(w) \/ ReceiveRead(w) \/ Commit(w)
    \/ \E w \in Workers, b \in Balances, n \in Adjustments : AdjustRead(w, b, n)
    \/ \E b \in Balances, n \in Initial, negative \in BOOLEAN : CreateItem(b, n, negative)
    \/ \E b \in Edited, negative, isActive \in BOOLEAN : UpdateItem(b, negative, isActive)
<1> SUFFICES ASSUME Types, [Next]_vars
             PROVE  \/ Quiet
                    \/ \E w \in Workers : ConsumeRead(w) \/ ReceiveRead(w) \/ Commit(w)
                    \/ \E w \in Workers, b \in Balances, n \in Adjustments : AdjustRead(w, b, n)
                    \/ \E b \in Balances, n \in Initial, negative \in BOOLEAN :
                         CreateItem(b, n, negative)
                    \/ \E b \in Edited, negative, isActive \in BOOLEAN :
                         UpdateItem(b, negative, isActive)
  OBVIOUS
<1>a. req \in [Workers -> Request] /\ \A w \in Workers : req[w] \in Request /\ Shape(req[w])
  BY DEF Types, TypeOK, RequestShape
<1>1. ASSUME UNCHANGED vars
      PROVE  Quiet
  BY <1>1 DEF vars, rows, Quiet
<1>2. ASSUME NEW w \in Workers, Answered(w), UNCHANGED <<rows, contended, everAllowed>>
      PROVE  Quiet
  <2>1. \A v \in Workers : req'[v] = IF v = w THEN Idle ELSE req[v]
    BY <1>a, <1>2 DEF Answered
  <2>2. QED
    BY <1>2, <2>1 DEF Quiet, rows, Idle
<1>3. ASSUME NEW w \in Workers, NEW order \in Orders, ConsumeStart(w, order)
      PROVE  Quiet
  <2>1. req[w] = Idle /\ req'[w].moves = <<>> /\ \A v \in Workers : v # w => req'[v] = req[v]
    BY <1>a, <1>3 DEF ConsumeStart, Idle
  <2>2. QED
    BY <1>3, <2>1 DEF ConsumeStart, Quiet, rows
<1>4. ASSUME NEW w \in Workers, NEW p \in Purchases, ReceiveCheck(w, p) \/ CancelCheck(w, p)
      PROVE  Quiet
  <2>1. req[w] = Idle /\ req'[w].moves = <<>> /\ \A v \in Workers : v # w => req'[v] = req[v]
    BY <1>a, <1>4 DEF ReceiveCheck, CancelCheck, Idle
  <2>2. QED
    BY <1>4, <2>1 DEF ReceiveCheck, CancelCheck, Quiet, rows
<1>5. ASSUME NEW w \in Workers, ConsumeSkip(w)
      PROVE  Quiet
  <2>1. /\ req'[w].moves = req[w].moves /\ req'[w].op = req[w].op
        /\ req'[w].written = req[w].written /\ req[w].written = 0
        /\ req'[w].step = "commit" => req[w].moves = <<>>
        /\ \A v \in Workers : v # w => req'[v] = req[v]
    BY <1>a, <1>5 DEF ConsumeSkip, Request, Shape, ConsumeShape, StepAfterRead
  <2>2. QED
    BY <1>5, <2>1 DEF ConsumeSkip, Quiet, rows
<1>6. ASSUME NEW w \in Workers, ReceiveBegin(w) \/ ReceiveLink(w) \/ ReceiveInsert(w)
      PROVE  Quiet
  <2>1. req[w].op = "receive"
    BY <1>a, <1>6 DEF ReceiveBegin, ReceiveLink, ReceiveInsert, Shape, IdleShape, ConsumeShape,
       AdjustShape, CancelShape, Idle, Request
  <2>2. /\ req'[w].moves = req[w].moves /\ req'[w].op = req[w].op
        /\ \A v \in Workers : v # w => req'[v] = req[v]
    BY <1>a, <1>6 DEF ReceiveBegin, ReceiveLink, ReceiveInsert, Request
  <2>3. QED
    BY <1>6, <2>1, <2>2 DEF ReceiveBegin, ReceiveLink, ReceiveInsert, Quiet, rows
<1>7. ASSUME NEW w \in Workers, Write(w)
      PROVE  Quiet
  <2>1. /\ req'[w].moves = req[w].moves /\ req'[w].op = req[w].op
        /\ \A v \in Workers : v # w => req'[v] = req[v]
    BY <1>a, <1>7 DEF Write, Request
  <2>2. QED
    BY <1>7, <2>1 DEF Write, Quiet, rows
<1>8. ASSUME NEW w \in Workers, CancelCommit(w)
      PROVE  Quiet
  <2>1. \A v \in Workers : req'[v] = IF v = w THEN Idle ELSE req[v]
    BY <1>a, <1>8 DEF CancelCommit, Answered
  <2>2. QED
    BY <1>8, <2>1 DEF CancelCommit, Quiet, Idle
<1>9. ASSUME NEW p \in Purchases, CreatePurchase(p)
       PROVE  Quiet
  BY <1>9 DEF CreatePurchase, Quiet
<1>10. ASSUME NEW w \in Workers,
              ConsumeRefused(w) \/ ReceiveStale(w) \/ ReceiveConflict(w) \/ DeadlockAbort(w)
       PROVE  Quiet
  BY <1>2, <1>10 DEF ConsumeRefused, ReceiveStale, ReceiveConflict, DeadlockAbort
<1>11. ASSUME NEW w \in Workers, \/ \E b \in Balances, n \in Adjustments : AdjustRefused(w, b, n)
                                 \/ \E p \in Purchases : PurchaseRejected(w, p)
       PROVE  Quiet
  BY <1>1, <1>11 DEF AdjustRefused, PurchaseRejected
<1>12. QED
  BY <1>1, <1>3, <1>4, <1>5, <1>6, <1>7, <1>8, <1>9, <1>10, <1>11 DEF Next, Serve


\* What Commit leaves of an item: the moves on it are appended to its kardex,
\* and the last of them is its stock.
LEMMA CommitRows ==
  ASSUME Types, NEW w \in Workers, Commit(w), NEW b \in Balances
  PROVE  LET mine == MovesOn(req[w].moves, b)
         IN
         /\ mine \in Seq(Move)
         /\ mine = <<>> <=> b \notin BalancesOf(req[w].moves)
         /\ mine = <<>> => stock'[b] = stock[b] /\ kardex'[b] = kardex[b]
         /\ mine # <<>> => stock'[b] = mine[Len(mine)].after
         /\ kardex'[b] \in Seq(Movement)
         /\ Len(kardex'[b]) = Len(kardex[b]) + Len(mine)
         /\ \A i \in DOMAIN kardex'[b] :
              kardex'[b][i] = IF i <= Len(kardex[b]) THEN kardex[b][i]
                              ELSE MovementOf(w, mine[i - Len(kardex[b])])
<1> DEFINE mine == MovesOn(req[w].moves, b)
           new == [i \in DOMAIN mine |-> MovementOf(w, mine[i])]
           k == kardex[b]
<1>1. req[w].moves \in Seq(Move)
  BY DEF Types, TypeOK, Request
<1>2. mine \in Seq(Move) /\ (mine = <<>> <=> b \notin BalancesOf(req[w].moves))
  BY <1>1, MovesFacts
<1>3. stock'[b] = (IF mine = <<>> THEN stock[b] ELSE mine[Len(mine)].after)
      /\ kardex'[b] = k \o new
  BY DEF Commit, StockAfter, KardexAfter
<1>4. k \in Seq(Movement) /\ kardex'[b] \in Seq(Movement)
  BY NextTypes DEF Types, TypeOK, Next, Serve
<1> HIDE DEF mine, k
<1>5. \A i \in DOMAIN mine : new[i] \in Movement
  <2>1. \A i \in DOMAIN mine : mine[i] \in Move
    BY <1>2
  <2>2. req[w].purchase \in Purchases \cup {NoPurchase}
    BY DEF Types, TypeOK, Request
  <2>3. QED
    BY <2>1, <2>2 DEF Move, Movement, MovementOf
<1>6. new \in Seq(Movement) /\ Len(new) = Len(mine) /\ DOMAIN new = DOMAIN mine
  BY <1>2, <1>5
<1>7. \A i \in DOMAIN mine : new[i] = MovementOf(w, mine[i])
  OBVIOUS
<1> HIDE DEF new
<1>8. /\ Len(k \o new) = Len(k) + Len(mine)
      /\ \A i \in DOMAIN (k \o new) :
           (k \o new)[i] = IF i <= Len(k) THEN k[i] ELSE MovementOf(w, mine[i - Len(k)])
  BY <1>2, <1>4, <1>6, <1>7
<1>9. mine = <<>> => k \o new = k
  BY <1>4, <1>6
<1>10. QED
  BY <1>2, <1>3, <1>4, <1>8, <1>9 DEF mine, k

\* What a kardex row that is created by hand holds.
LEMMA CreatedRows ==
  ASSUME Types, NEW b \in Balances, NEW n \in Initial, NEW negative \in BOOLEAN,
         CreateItem(b, n, negative)
  PROVE  /\ n \in Nat
         /\ stock' = [stock EXCEPT ![b] = n]
         /\ \A c \in Balances \ {b} : kardex'[c] = kardex[c]
         /\ \/ n = 0 /\ kardex'[b] = <<>>
            \/ n > 0 /\ kardex'[b] = <<[before |-> 0, after |-> n, purchase |-> NoPurchase]>>
  BY QuantitiesAssumption DEF CreateItem, Types, TypeOK

-----------------------------------------------------------------------------
(* The stock is what its last movement left *)

\* Before the first movement every stock is 0.
LEMMA InitClosed == Init => KardexClosed
  BY DEF Init, KardexClosed

\* Every step keeps the stock of an item what its last movement left.
LEMMA NextClosed == Types /\ KardexClosed /\ [Next]_vars => KardexClosed'
<1> SUFFICES ASSUME Types, KardexClosed, [Next]_vars, NEW b \in Balances
             PROVE  stock'[b] = IF kardex'[b] = <<>> THEN 0 ELSE kardex'[b][Len(kardex'[b])].after
  BY Zenon DEF KardexClosed
<1> DEFINE Closed == stock'[b] = IF kardex'[b] = <<>> THEN 0
                                 ELSE kardex'[b][Len(kardex'[b])].after
<1>a. stock[b] = IF kardex[b] = <<>> THEN 0 ELSE kardex[b][Len(kardex[b])].after
  BY DEF KardexClosed
<1>b. kardex[b] \in Seq(Movement)
  BY DEF Types, TypeOK
<1>1. ASSUME stock'[b] = stock[b], kardex'[b] = kardex[b]
      PROVE  Closed
  BY <1>a, <1>1
<1>2. ASSUME NEW w \in Workers, Commit(w)
      PROVE  Closed
  <2> DEFINE mine == MovesOn(req[w].moves, b)
  <2> HIDE DEF mine
  <2>1. /\ mine \in Seq(Move)
        /\ mine = <<>> => stock'[b] = stock[b] /\ kardex'[b] = kardex[b]
        /\ mine # <<>> => stock'[b] = mine[Len(mine)].after
        /\ kardex'[b] \in Seq(Movement)
        /\ Len(kardex'[b]) = Len(kardex[b]) + Len(mine)
        /\ \A i \in DOMAIN kardex'[b] :
             kardex'[b][i] = IF i <= Len(kardex[b]) THEN kardex[b][i]
                             ELSE MovementOf(w, mine[i - Len(kardex[b])])
    BY <1>2, CommitRows DEF mine
  <2>2. CASE mine = <<>>
    BY <1>1, <2>1, <2>2
  <2>3. CASE mine # <<>>
    <3>1. Len(mine) > 0 /\ Len(kardex[b]) \in Nat /\ Len(mine) \in Nat
      BY <1>b, <2>1, <2>3
    <3>2. Len(kardex'[b]) \in DOMAIN kardex'[b] /\ kardex'[b] # <<>>
      BY <2>1, <3>1
    <3>3. kardex'[b][Len(kardex'[b])] = MovementOf(w, mine[Len(mine)])
      BY <2>1, <3>1, <3>2
    <3>4. QED
      BY <2>1, <2>3, <3>2, <3>3 DEF MovementOf
  <2>4. QED
    BY <2>2, <2>3
<1>3. ASSUME NEW c \in Balances, NEW n \in Initial, NEW negative \in BOOLEAN,
             CreateItem(c, n, negative)
      PROVE  Closed
  <2>0. /\ n \in Nat
        /\ stock' = [stock EXCEPT ![c] = n]
        /\ \A d \in Balances \ {c} : kardex'[d] = kardex[d]
        /\ \/ n = 0 /\ kardex'[c] = <<>>
           \/ n > 0 /\ kardex'[c] = <<[before |-> 0, after |-> n, purchase |-> NoPurchase]>>
    BY <1>3, CreatedRows
  <2>1. CASE c # b
    BY <1>1, <2>0, <2>1 DEF Types, TypeOK
  <2>2. CASE c = b
    <3>1. stock'[b] = n
      BY <2>0, <2>2 DEF Types, TypeOK
    <3>2. QED
      BY <2>0, <2>2, <3>1
  <2>3. QED
    BY <2>1, <2>2
<1>4. ASSUME Quiet \/ \E w \in Workers : ConsumeRead(w) \/ ReceiveRead(w)
      PROVE  Closed
  BY <1>1, <1>4 DEF Quiet, ConsumeRead, ReceiveRead, rows
<1>5. ASSUME NEW w \in Workers, NEW c \in Balances, NEW n \in Adjustments, AdjustRead(w, c, n)
      PROVE  Closed
  BY <1>1, <1>5 DEF AdjustRead, rows
<1>6. ASSUME NEW c \in Edited, NEW negative \in BOOLEAN, NEW isActive \in BOOLEAN,
             UpdateItem(c, negative, isActive)
      PROVE  Closed
  BY <1>1, <1>6 DEF UpdateItem
<1>7. QED
  BY <1>2, <1>3, <1>4, <1>5, <1>6, StepKinds

\* Whatever the handlers interleave, the stockOnHand of a balance is the
\* stockAfter of its last movement: a transaction writes both together.
THEOREM StockIsLastMovement == Spec => []KardexClosed
<1>1. QED
  BY InitTypes, NextTypes, InitClosed, NextClosed, PTL DEF Spec

-----------------------------------------------------------------------------
(* No negative stock *)

NegativeInv == Types /\ MovesChecked /\ NeverNegative

\* Nothing is checked or negative before the first request.
LEMMA InitNegative == Init => MovesChecked /\ NeverNegative
  BY DEF Init, MovesChecked, NeverNegative, Idle

\* The stock that worker w sees of an item that may not be negative is not.
LEMMA SeenNotNegative ==
  ASSUME NegativeInv, NEW w \in Workers, req[w].op = "receive", NEW b \in Balances \ everAllowed
  PROVE  StockAfter(w)[b] >= 0
<1> DEFINE mine == MovesOn(req[w].moves, b)
<1>1. req[w].moves \in Seq(Move)
  BY DEF NegativeInv, Types, TypeOK, Request
<1>2. StockAfter(w)[b] = IF mine = <<>> THEN stock[b] ELSE mine[Len(mine)].after
  BY DEF StockAfter
<1>3. mine \in Seq(Move) /\ \A k \in DOMAIN mine : \E i \in DOMAIN req[w].moves :
                               mine[k] = req[w].moves[i] /\ req[w].moves[i].balance = b
  BY <1>1, MovesFacts
<1> HIDE DEF mine
<1>4. CASE mine = <<>>
  BY <1>2, <1>4 DEF NegativeInv, NeverNegative
<1>5. CASE mine # <<>>
  <2>1. Len(mine) \in DOMAIN mine
    BY <1>3, <1>5
  <2>2. PICK i \in DOMAIN req[w].moves :
          mine[Len(mine)] = req[w].moves[i] /\ req[w].moves[i].balance = b
    BY <1>3, <2>1
  <2>3. QED
    BY <1>2, <1>5, <2>2 DEF NegativeInv, MovesChecked, Covered
<1>6. QED
  BY <1>4, <1>5

\* Every step keeps the stock of an item that was never allowed to be negative
\* from being so.
LEMMA NextNegative == NegativeInv /\ [Next]_vars => MovesChecked' /\ NeverNegative'
<1> SUFFICES ASSUME NegativeInv, [Next]_vars
             PROVE  MovesChecked' /\ NeverNegative'
  OBVIOUS
<1>a. req \in [Workers -> Request] /\ \A v \in Workers : req[v] \in Request /\ Shape(req[v])
  BY DEF NegativeInv, Types, TypeOK, RequestShape
<1>b. Types /\ Types' /\ MovesChecked
  BY NextTypes DEF NegativeInv
<1>c. ASSUME UNCHANGED <<stock, kardex, everAllowed>>
      PROVE  NeverNegative'
  BY <1>c DEF NegativeInv, NeverNegative
<1>1. CASE Quiet
  <2>1. \A v \in Workers : \A i \in DOMAIN req[v].moves :
          req[v].op = "consume" /\ ~Shortage(v) => Covered(req[v].moves[i])
    <3> SUFFICES ASSUME NEW v \in Workers, NEW i \in DOMAIN req[v].moves, ~Shortage(v)
                 PROVE  Covered(req[v].moves[i])
      OBVIOUS
    <3>1. req[v].moves \in Seq(Move)
      BY <1>a DEF Request
    <3>2. req[v].moves[i] \in Move
      BY <3>1
    <3>3. req[v].moves[i].after \in Int
      BY <3>2 DEF Move
    <3>4. ~ (req[v].moves[i].after < 0) \/ req[v].moves[i].allow
      BY DEF Shortage
    <3>5. QED
      BY <1>b, <3>3, <3>4 DEF Covered, MovesChecked
  <2>2. MovesChecked'
    <3> SUFFICES ASSUME NEW v \in Workers, NEW i \in DOMAIN req'[v].moves
                 PROVE  /\ req'[v].moves[i].allow => req'[v].moves[i].balance \in everAllowed
                        /\ req'[v].op \in {"adjust", "receive"} => Covered(req'[v].moves[i])
                        /\ req'[v].op = "consume" /\ (req'[v].written > 0 \/ req'[v].step = "commit")
                             => Covered(req'[v].moves[i])
      BY <1>1, <1>b DEF MovesChecked, Quiet, Covered
    <3>1. req'[v].moves # <<>>
      OBVIOUS
    <3>2. req'[v].moves = req[v].moves /\ req'[v].op = req[v].op
          /\ (req'[v].op = "consume" /\ (req'[v].written > 0 \/ req'[v].step = "commit") =>
                (req[v].written > 0 \/ req[v].step = "commit") \/ ~Shortage(v))
      BY <1>1, <3>1 DEF Quiet
    <3>3. QED
      BY <1>b, <2>1, <3>2 DEF MovesChecked
  <2>3. QED
    BY <1>1, <1>c, <2>2 DEF Quiet
<1>2. ASSUME NEW w \in Workers, ConsumeRead(w)
      PROVE  MovesChecked' /\ NeverNegative'
  <2>1. req[w].todo # <<>> /\ req[w].written = 0
    BY <1>2, <1>a DEF ConsumeRead, Shape, ConsumeShape
  <2> DEFINE after == Deduct(w)
  <2>2. /\ after # <<>>
        /\ NextRead(w) \in BalancesOf(req[w].moves) =>
             /\ Len(after) = Len(req[w].moves)
             /\ \A i \in DOMAIN req[w].moves :
                  /\ after[i].balance = req[w].moves[i].balance
                  /\ after[i].allow = req[w].moves[i].allow
        /\ NextRead(w) \notin BalancesOf(req[w].moves) =>
             \E m \in Move :
               /\ after = Append(req[w].moves, m)
               /\ m.balance = NextRead(w)
               /\ m.allow = (NextRead(w) \in allowNegative)
        /\ after \in Seq(Move)
    BY <1>b, <2>1, DeductFacts
  <2>3. /\ req'[w].moves = after /\ req'[w].op = "consume" /\ req'[w].written = 0
        /\ req'[w].step = StepAfterRead(w, after)
        /\ \A v \in Workers : v # w => req'[v] = req[v]
        /\ UNCHANGED <<stock, kardex, everAllowed, allowNegative>>
    BY <1>2, <1>a, <2>1 DEF ConsumeRead, rows, Request
  <2> HIDE DEF after
  <2>4. req'[w].step # "commit"
    BY <2>2, <2>3 DEF StepAfterRead
  <2>5. req[w].moves \in Seq(Move)
    BY <1>a DEF Request
  <2>6. \A i \in DOMAIN after : after[i].allow => after[i].balance \in everAllowed
    <3>1. CASE NextRead(w) \in BalancesOf(req[w].moves)
      BY <1>b, <2>2, <2>5, <3>1 DEF MovesChecked
    <3>2. CASE NextRead(w) \notin BalancesOf(req[w].moves)
      <4>1. PICK m \in Move : /\ after = Append(req[w].moves, m)
                              /\ m.balance = NextRead(w)
                              /\ m.allow = (NextRead(w) \in allowNegative)
        BY <2>2, <3>2
      <4>2. m.allow => m.balance \in everAllowed
        BY <1>b, <4>1 DEF MovesChecked
      <4>3. QED
        BY <1>b, <2>5, <4>1, <4>2 DEF MovesChecked
    <3>3. QED
      BY <3>1, <3>2
  <2>7. MovesChecked'
    <3> SUFFICES ASSUME NEW v \in Workers, NEW i \in DOMAIN req'[v].moves
                 PROVE  /\ req'[v].moves[i].allow => req'[v].moves[i].balance \in everAllowed
                        /\ req'[v].op \in {"adjust", "receive"} => Covered(req'[v].moves[i])
                        /\ req'[v].op = "consume" /\ (req'[v].written > 0 \/ req'[v].step = "commit")
                             => Covered(req'[v].moves[i])
      BY <1>b, <2>3 DEF MovesChecked, Covered
    <3>1. CASE v = w
      BY <2>3, <2>4, <2>6, <3>1
    <3>2. CASE v # w
      BY <1>b, <2>3, <3>2 DEF MovesChecked
    <3>3. QED
      BY <3>1, <3>2
  <2>8. QED
    BY <1>c, <2>3, <2>7
<1>3. ASSUME NEW w \in Workers, ReceiveRead(w)
      PROVE  MovesChecked' /\ NeverNegative'
  <2>1. req[w].op = "receive" /\ req[w].todo # <<>>
    BY <1>3, <1>b, ReceiveSteps DEF ReceiveRead
  <2> DEFINE b == NextRead(w)
             q == Head(req[w].todo).quantity
             before == StockAfter(w)[b]
             move == [balance |-> b, before |-> before, after |-> before + q, allow |-> FALSE]
  <2>2. b \in Balances /\ q \in Nat /\ before \in Int
    BY <1>b, <2>1, NeedTypes, RowsAfter
  <2>3. b \notin everAllowed => before >= 0
    BY <2>1, <2>2, SeenNotNegative
  <2>4. /\ req'[w].moves = Append(req[w].moves, move)
        /\ req'[w].op = "receive"
        /\ \A v \in Workers : v # w => req'[v] = req[v]
        /\ UNCHANGED <<stock, kardex, everAllowed, allowNegative>>
    BY <1>3, <1>a, <2>1 DEF ReceiveRead, NextRead, rows, Request
  <2> HIDE DEF b, q, before
  <2>5. Covered(move) /\ ~move.allow
    BY <2>2, <2>3 DEF Covered
  <2> HIDE DEF move
  <2>6. req[w].moves \in Seq(Move)
    BY <1>a DEF Request
  <2>7. \A i \in DOMAIN Append(req[w].moves, move) :
          LET m == Append(req[w].moves, move)[i]
          IN  Covered(m) /\ (m.allow => m.balance \in everAllowed)
    BY <1>b, <2>1, <2>5, <2>6 DEF MovesChecked
  <2>8. MovesChecked'
    <3> SUFFICES ASSUME NEW v \in Workers, NEW i \in DOMAIN req'[v].moves
                 PROVE  /\ req'[v].moves[i].allow => req'[v].moves[i].balance \in everAllowed
                        /\ req'[v].op \in {"adjust", "receive"} => Covered(req'[v].moves[i])
                        /\ req'[v].op = "consume" /\ (req'[v].written > 0 \/ req'[v].step = "commit")
                             => Covered(req'[v].moves[i])
      BY <1>b, <2>4 DEF MovesChecked, Covered
    <3>1. CASE v = w
      BY <2>4, <2>7, <3>1
    <3>2. CASE v # w
      BY <1>b, <2>4, <3>2 DEF MovesChecked
    <3>3. QED
      BY <3>1, <3>2
  <2>9. QED
    BY <1>c, <2>4, <2>8
<1>4. ASSUME NEW w \in Workers, NEW b \in Balances, NEW n \in Adjustments, AdjustRead(w, b, n)
      PROVE  MovesChecked' /\ NeverNegative'
  <2> DEFINE move == [balance |-> b, before |-> stock[b], after |-> stock[b] + n,
                      allow |-> b \in allowNegative]
  <2>1. move.allow => move.balance \in everAllowed
    BY <1>b DEF MovesChecked
  <2>2. Covered(move)
    BY <1>4, <1>b DEF AdjustRead, Covered, MovesChecked
  <2>3. /\ req'[w].moves = <<move>>
        /\ \A v \in Workers : v # w => req'[v] = req[v]
        /\ UNCHANGED <<stock, kardex, everAllowed, allowNegative>>
    BY <1>4, <1>a DEF AdjustRead, rows, Request
  <2> HIDE DEF move
  <2>4. MovesChecked'
    <3> SUFFICES ASSUME NEW v \in Workers, NEW i \in DOMAIN req'[v].moves
                 PROVE  /\ req'[v].moves[i].allow => req'[v].moves[i].balance \in everAllowed
                        /\ req'[v].op \in {"adjust", "receive"} => Covered(req'[v].moves[i])
                        /\ req'[v].op = "consume" /\ (req'[v].written > 0 \/ req'[v].step = "commit")
                             => Covered(req'[v].moves[i])
      BY <1>b, <2>3 DEF MovesChecked, Covered
    <3>1. CASE v = w
      BY <2>1, <2>2, <2>3, <3>1
    <3>2. CASE v # w
      BY <1>b, <2>3, <3>2 DEF MovesChecked
    <3>3. QED
      BY <3>1, <3>2
  <2>5. QED
    BY <1>c, <2>3, <2>4
<1>5. ASSUME NEW w \in Workers, Commit(w)
      PROVE  MovesChecked' /\ NeverNegative'
  <2>1. \A i \in DOMAIN req[w].moves : Covered(req[w].moves[i])
    BY <1>5, <1>b DEF Commit, MovesChecked
  <2>2. MovesChecked'
    BY <1>5, <1>a, <1>b DEF Commit, MovesChecked, Answered, Idle, Covered
  <2>3. ASSUME NEW b \in Balances \ everAllowed
        PROVE  stock'[b] >= 0 /\ \A i \in DOMAIN kardex'[b] : kardex'[b][i].after >= 0
    <3> DEFINE mine == MovesOn(req[w].moves, b)
    <3>1. req[w].moves \in Seq(Move)
      BY <1>a DEF Request
    <3>2. /\ mine \in Seq(Move)
          /\ \A k \in DOMAIN mine :
               \E i \in DOMAIN req[w].moves : mine[k] = req[w].moves[i] /\ req[w].moves[i].balance = b
      BY <3>1, MovesFacts
    <3>3. \A k \in DOMAIN mine : mine[k].after >= 0
      BY <2>1, <3>2 DEF Covered
    <3>4. /\ mine = <<>> => stock'[b] = stock[b]
          /\ mine # <<>> => stock'[b] = mine[Len(mine)].after
          /\ kardex'[b] \in Seq(Movement)
          /\ Len(kardex'[b]) = Len(kardex[b]) + Len(mine)
          /\ \A i \in DOMAIN kardex'[b] :
               kardex'[b][i] = IF i <= Len(kardex[b]) THEN kardex[b][i]
                               ELSE MovementOf(w, mine[i - Len(kardex[b])])
      BY <1>5, <1>b, CommitRows
    <3> HIDE DEF mine
    <3>5. kardex[b] \in Seq(Movement) /\ stock[b] >= 0
          /\ \A i \in DOMAIN kardex[b] : kardex[b][i].after >= 0
      BY <1>b DEF NegativeInv, NeverNegative, Types, TypeOK
    <3>6. stock'[b] >= 0
      BY <3>2, <3>3, <3>4, <3>5
    <3>7. ASSUME NEW i \in DOMAIN kardex'[b]
          PROVE  kardex'[b][i].after >= 0
      <4>1. CASE i <= Len(kardex[b])
        BY <3>4, <3>5, <4>1
      <4>2. CASE ~ (i <= Len(kardex[b]))
        <5>1. i - Len(kardex[b]) \in DOMAIN mine
          BY <3>2, <3>4, <3>5, <4>2
        <5>2. kardex'[b][i] = MovementOf(w, mine[i - Len(kardex[b])])
          BY <3>4, <4>2
        <5>3. kardex'[b][i].after = mine[i - Len(kardex[b])].after
          BY <5>2 DEF MovementOf
        <5>4. QED
          BY <3>3, <5>1, <5>3
      <4>3. QED
        BY <4>1, <4>2
    <3>8. QED
      BY <3>6, <3>7
  <2>4. QED
    BY <1>5, <2>2, <2>3 DEF Commit, NeverNegative
<1>6. ASSUME NEW b \in Balances, NEW n \in Initial, NEW negative \in BOOLEAN,
             CreateItem(b, n, negative)
      PROVE  MovesChecked' /\ NeverNegative'
  <2>1. /\ everAllowed \subseteq everAllowed' /\ allowNegative' \subseteq everAllowed'
        /\ req' = req
    BY <1>6 DEF CreateItem
  <2>2. MovesChecked'
    BY <1>b, <2>1 DEF MovesChecked, Covered
  <2>3. NeverNegative'
    <3> SUFFICES ASSUME NEW c \in Balances \ everAllowed'
                 PROVE  stock'[c] >= 0 /\ \A i \in DOMAIN kardex'[c] : kardex'[c][i].after >= 0
      BY DEF NeverNegative
    <3>1. CASE c # b
      <4>1. stock'[c] = stock[c] /\ kardex'[c] = kardex[c]
        BY <1>6, <1>b, <3>1, CreatedRows DEF Types, TypeOK
      <4>2. QED
        BY <2>1, <4>1 DEF NegativeInv, NeverNegative
    <3>2. CASE c = b
      BY <1>6, <1>b, <3>2, CreatedRows DEF Types, TypeOK
    <3>3. QED
      BY <3>1, <3>2
  <2>4. QED
    BY <2>2, <2>3
<1>7. ASSUME NEW b \in Edited, NEW negative \in BOOLEAN, NEW isActive \in BOOLEAN,
             UpdateItem(b, negative, isActive)
      PROVE  MovesChecked' /\ NeverNegative'
  <2>1. /\ everAllowed \subseteq everAllowed' /\ allowNegative' \subseteq everAllowed'
        /\ UNCHANGED <<req, stock, kardex>>
    BY <1>7 DEF UpdateItem
  <2>2. QED
    BY <1>b, <2>1 DEF MovesChecked, Covered, NegativeInv, NeverNegative
<1>8. QED
  BY <1>b, <1>1, <1>2, <1>3, <1>4, <1>5, <1>6, <1>7, StepKinds

\* An item that was never allowed a negative stock never has one, whatever
\* consumptions, adjustments and receives overlap: the stock a transaction
\* writes was checked for the value that is written.
THEOREM NeverBelowZero == Spec => []NeverNegative
<1>1. Init => NegativeInv
  BY InitTypes, InitNegative DEF NegativeInv
<1>2. NegativeInv /\ [Next]_vars => NegativeInv'
  BY NextTypes, NextNegative DEF NegativeInv
<1>3. NegativeInv => NeverNegative
  BY DEF NegativeInv
<1>4. QED
  BY <1>1, <1>2, <1>3, PTL DEF Spec

-----------------------------------------------------------------------------
(* The kardex has no gap *)

UnbrokenInv ==
  /\ Types
  /\ ItemsExist
  /\ KardexClosed
  /\ ReadAlone
  /\ OneMoveEach
  /\ MovesChained
  /\ KardexUnbroken

\* Nothing is read or booked before the first request.
LEMMA InitUnbroken == Init => UnbrokenInv
<1> SUFFICES ASSUME Init
             PROVE  UnbrokenInv
  OBVIOUS
<1>1. \A w \in Workers : req[w].moves = <<>> /\ req[w].op = "idle"
  BY DEF Init, Idle
<1>2. ItemsExist
  BY <1>1 DEF Init, ItemsExist
<1>3. ReadAlone
  BY <1>1 DEF ReadAlone, BalancesOf
<1>4. OneMoveEach
  BY <1>1 DEF OneMoveEach
<1>5. MovesChained
  BY <1>1 DEF MovesChained, Chained
<1>6. KardexUnbroken
  BY DEF Init, KardexUnbroken
<1>7. QED
  BY <1>2, <1>3, <1>4, <1>5, <1>6, InitTypes, InitClosed DEF UnbrokenInv

\* An item that is created by hand is in no request's moves.
LEMMA CreatedUnread ==
  ASSUME Types, ItemsExist, NEW b \in Balances, NEW n \in Initial, NEW negative \in BOOLEAN,
         CreateItem(b, n, negative), NEW w \in Workers
  PROVE  b \notin BalancesOf(req[w].moves)
<1>1. req[w] \in Request /\ Shape(req[w])
  BY DEF Types, TypeOK, RequestShape
<1>2. req[w].op \in {"idle", "consume", "adjust", "receive", "cancel"}
  BY <1>1 DEF Request
<1>3. b \notin created /\ b \notin Inserted(w)
  BY DEF CreateItem
<1>4. CASE req[w].op \in {"consume", "adjust"}
  BY <1>3, <1>4 DEF ItemsExist
<1>5. CASE req[w].op = "receive"
  BY <1>3, <1>5 DEF Inserted, ProductsOf
<1>6. CASE req[w].op \in {"idle", "cancel"}
  <2>1. req[w].moves = <<>>
    BY <1>1, <1>6 DEF Shape, IdleShape, CancelShape, Idle
  <2>2. QED
    BY <2>1 DEF BalancesOf
<1>7. QED
  BY <1>2, <1>4, <1>5, <1>6

\* The moves of a transaction on an item that it alone has read continue the
\* stock and each other.
LEMMA MineChained ==
  ASSUME Types, MovesChained, NEW w \in Workers, NEW b \in Balances \ contended
  PROVE  LET mine == MovesOn(req[w].moves, b)
         IN
         /\ mine # <<>> => mine[1].before = stock[b]
         /\ \A k \in 2 .. Len(mine) : mine[k].before = mine[k - 1].after
<1> DEFINE moves == req[w].moves
           mine == MovesOn(moves, b)
           places == PlacesOf(moves, b)
<1>1. moves \in Seq(Move) /\ Chained(moves, stock, contended)
  BY DEF Types, TypeOK, Request, MovesChained
<1>2. /\ mine # <<>> => \E i \in places : mine[1] = moves[i] /\ \A j \in places : i <= j
      /\ \A k \in 2 .. Len(mine) :
           \E i, j \in places : /\ mine[k - 1] = moves[i]
                                /\ mine[k] = moves[j]
                                /\ i < j
                                /\ \A l \in places : l <= i \/ j <= l
  BY <1>1, MovesOrder DEF Ordered
<1> USE DEF PlacesOf
<1> HIDE DEF mine, moves
<1>4. ASSUME mine # <<>>
      PROVE  mine[1].before = stock[b]
  <2>1. PICK i \in places : mine[1] = moves[i] /\ \A j \in places : i <= j
    BY <1>2, <1>4
  <2>2. i \in DOMAIN moves /\ moves[i].balance = b /\ DOMAIN moves = 1 .. Len(moves)
        /\ Len(moves) \in Nat
    BY <1>1
  <2>3. FirstOn(moves, i)
    BY <2>1, <2>2 DEF FirstOn
  <2>4. QED
    BY <1>1, <2>1, <2>2, <2>3 DEF Chained
<1>5. ASSUME NEW k \in 2 .. Len(mine)
      PROVE  mine[k].before = mine[k - 1].after
  <2>1. PICK i \in places, j \in places : /\ mine[k - 1] = moves[i]
                                         /\ mine[k] = moves[j]
                                         /\ i < j
                                         /\ \A l \in places : l <= i \/ j <= l
    BY <1>2
  <2>2. /\ i \in DOMAIN moves /\ moves[i].balance = b
        /\ j \in DOMAIN moves /\ moves[j].balance = b
        /\ DOMAIN moves = 1 .. Len(moves) /\ Len(moves) \in Nat
    BY <1>1
  <2>3. NextOn(moves, i, j)
    BY <2>1, <2>2 DEF NextOn
  <2>4. QED
    BY <1>1, <2>1, <2>2, <2>3 DEF Chained
<1>6. QED
  BY <1>4, <1>5 DEF mine, moves

\* Committing keeps the kardex of an item unbroken.
LEMMA CommitUnbroken ==
  ASSUME UnbrokenInv, NEW w \in Workers, Commit(w), NEW b \in Balances \ contended,
         NEW i \in DOMAIN kardex'[b]
  PROVE  kardex'[b][i].before = IF i = 1 THEN 0 ELSE kardex'[b][i - 1].after
<1> DEFINE mine == MovesOn(req[w].moves, b)
           k == kardex[b]
           n == Len(k)
<1>1. /\ mine \in Seq(Move)
      /\ kardex'[b] \in Seq(Movement)
      /\ Len(kardex'[b]) = n + Len(mine)
      /\ \A j \in DOMAIN kardex'[b] :
           kardex'[b][j] = IF j <= n THEN k[j] ELSE MovementOf(w, mine[j - n])
  BY CommitRows DEF UnbrokenInv
<1>2. /\ mine # <<>> => mine[1].before = stock[b]
      /\ \A j \in 2 .. Len(mine) : mine[j].before = mine[j - 1].after
  BY MineChained DEF UnbrokenInv
<1>3. k \in Seq(Movement) /\ n \in Nat
  BY DEF UnbrokenInv, Types, TypeOK
<1>4. stock[b] = IF k = <<>> THEN 0 ELSE k[n].after
  BY DEF UnbrokenInv, KardexClosed
<1>5. \A j \in DOMAIN k : k[j].before = IF j = 1 THEN 0 ELSE k[j - 1].after
  BY DEF UnbrokenInv, KardexUnbroken
<1>6. \A m : MovementOf(w, m).before = m.before /\ MovementOf(w, m).after = m.after
  BY DEF MovementOf
<1> HIDE DEF mine, k
<1>7. Len(mine) \in Nat /\ i \in 1 .. n + Len(mine)
  BY <1>1
<1>8. CASE i <= n
  <2>1. i \in DOMAIN k /\ kardex'[b][i] = k[i]
    BY <1>1, <1>3, <1>7, <1>8
  <2>2. i # 1 => i - 1 \in DOMAIN kardex'[b] /\ kardex'[b][i - 1] = k[i - 1]
    BY <1>1, <1>3, <1>7, <1>8
  <2>3. QED
    BY <1>5, <2>1, <2>2
<1>9. CASE i = n + 1
  <2>1. mine # <<>>
    BY <1>1, <1>3, <1>7, <1>9
  <2>2. kardex'[b][i] = MovementOf(w, mine[1])
    <3>1. i \in DOMAIN kardex'[b] /\ ~(i <= n) /\ i - n = 1
      BY <1>3, <1>7, <1>9
    <3>2. QED
      BY <1>1, <3>1
  <2>3. kardex'[b][i].before = stock[b]
    BY <1>2, <1>6, <2>1, <2>2
  <2>4. i # 1 => i - 1 \in DOMAIN kardex'[b] /\ kardex'[b][i - 1] = k[n] /\ k # <<>>
    BY <1>1, <1>3, <1>7, <1>9
  <2>5. i = 1 => k = <<>>
    BY <1>3, <1>9
  <2>6. QED
    BY <1>4, <2>3, <2>4, <2>5
<1>10. CASE i > n + 1
  <2>1. i - n \in 2 .. Len(mine) /\ i # 1
    BY <1>3, <1>7, <1>10
  <2>2. kardex'[b][i] = MovementOf(w, mine[i - n])
    BY <1>1, <1>3, <1>7, <1>10
  <2>3. i - 1 \in DOMAIN kardex'[b] /\ kardex'[b][i - 1] = MovementOf(w, mine[i - 1 - n])
    BY <1>1, <1>3, <1>7, <1>10
  <2>4. i - n - 1 = i - 1 - n
    BY <1>3, <1>7
  <2>5. mine[i - n].before = mine[i - 1 - n].after
    BY <1>2, <2>1, <2>4
  <2>6. QED
    BY <1>6, <2>1, <2>2, <2>3, <2>5
<1>11. QED
  BY <1>3, <1>7, <1>8, <1>9, <1>10

\* Every step keeps the kardex of an item unbroken.
LEMMA NextKardex == UnbrokenInv /\ [Next]_vars => KardexUnbroken'
<1> SUFFICES ASSUME UnbrokenInv, [Next]_vars
             PROVE  KardexUnbroken'
  OBVIOUS
<1>a. Types
  BY DEF UnbrokenInv
<1>1. ASSUME kardex' = kardex, contended \subseteq contended'
      PROVE  KardexUnbroken'
  BY <1>1 DEF UnbrokenInv, KardexUnbroken
<1>2. ASSUME NEW w \in Workers, Commit(w)
      PROVE  KardexUnbroken'
  BY <1>2, CommitUnbroken DEF KardexUnbroken, Commit
<1>3. ASSUME NEW c \in Balances, NEW n \in Initial, NEW negative \in BOOLEAN,
             CreateItem(c, n, negative)
      PROVE  KardexUnbroken'
  <2>0. /\ \A d \in Balances \ {c} : kardex'[d] = kardex[d]
        /\ \/ kardex'[c] = <<>>
           \/ kardex'[c] = <<[before |-> 0, after |-> n, purchase |-> NoPurchase]>>
        /\ contended' = contended
    BY <1>3, <1>a, CreatedRows DEF CreateItem
  <2> SUFFICES ASSUME NEW b \in Balances \ contended, NEW i \in DOMAIN kardex'[b]
               PROVE  kardex'[b][i].before = IF i = 1 THEN 0 ELSE kardex'[b][i - 1].after
    BY <2>0 DEF KardexUnbroken
  <2>1. CASE b # c
    BY <2>0, <2>1 DEF UnbrokenInv, KardexUnbroken
  <2>2. CASE b = c
    BY <2>0, <2>2
  <2>3. QED
    BY <2>1, <2>2
<1>4. ASSUME \/ Quiet
             \/ \E w \in Workers : ConsumeRead(w) \/ ReceiveRead(w)
             \/ \E w \in Workers, c \in Balances, n \in Adjustments : AdjustRead(w, c, n)
      PROVE  KardexUnbroken'
  BY <1>1, <1>4 DEF Quiet, ConsumeRead, ReceiveRead, AdjustRead, Contend, rows
<1>5. ASSUME NEW c \in Edited, NEW negative \in BOOLEAN, NEW isActive \in BOOLEAN,
             UpdateItem(c, negative, isActive)
      PROVE  KardexUnbroken'
  BY <1>1, <1>5 DEF UpdateItem
<1>6. QED
  BY <1>a, <1>2, <1>3, <1>4, <1>5, StepKinds

\* Worker w reads item b, and nothing else changes but its request.
Reads(w, b) ==
  /\ b \in Balances
  /\ req'[w].op \in {"consume", "adjust"} => b \in created
  /\ req[w].op \in {"idle", req'[w].op}
  /\ BalancesOf(req'[w].moves) \subseteq BalancesOf(req[w].moves) \cup {b}
  /\ \A v \in Workers : v # w => req'[v] = req[v]
  /\ Contend(w, b)
  /\ UNCHANGED <<created, stock, kardex>>

\* The balances of moves with one more.
LEMMA BalancesOfAppend ==
  ASSUME NEW s \in Seq(Move), NEW m \in Move
  PROVE  BalancesOf(Append(s, m)) = BalancesOf(s) \cup {m.balance}
<1>1. /\ DOMAIN Append(s, m) = DOMAIN s \cup {Len(s) + 1}
      /\ \A i \in DOMAIN s : Append(s, m)[i] = s[i]
      /\ Append(s, m)[Len(s) + 1] = m
  OBVIOUS
<1>2. QED
  BY <1>1 DEF BalancesOf

\* The reads of a consumption, an adjustment and a receive read one item each.
LEMMA ReadSteps ==
  ASSUME Types, NEW w \in Workers
  PROVE  /\ ConsumeRead(w) \/ ReceiveRead(w) => Reads(w, NextRead(w))
         /\ \A b \in Balances : \A n \in Adjustments : AdjustRead(w, b, n) => Reads(w, b)
<1>a. req \in [Workers -> Request] /\ req[w] \in Request /\ Shape(req[w])
  BY DEF Types, TypeOK, RequestShape
<1>b. req[w].moves \in Seq(Move)
  BY <1>a DEF Request
<1>1. ASSUME ConsumeRead(w)
      PROVE  Reads(w, NextRead(w))
  <2>1. req[w].todo # <<>> /\ NextRead(w) \in created
    BY <1>1, <1>a DEF ConsumeRead, Shape, ConsumeShape, Types, TypeOK
  <2> DEFINE after == Deduct(w)
             b == NextRead(w)
  <2>2. /\ after \in Seq(Move)
        /\ b \in BalancesOf(req[w].moves) =>
             /\ Len(after) = Len(req[w].moves)
             /\ \A i \in DOMAIN req[w].moves : after[i].balance = req[w].moves[i].balance
        /\ b \notin BalancesOf(req[w].moves) =>
             \E m \in Move : after = Append(req[w].moves, m) /\ m.balance = b
    BY <2>1, DeductFacts
  <2>3. /\ req'[w].moves = after /\ req'[w].op = "consume" /\ req[w].op = "consume"
        /\ \A v \in Workers : v # w => req'[v] = req[v]
        /\ Contend(w, b)
        /\ UNCHANGED <<created, stock, kardex>>
    BY <1>1, <1>a DEF ConsumeRead, rows, Request
  <2> HIDE DEF after
  <2>4. BalancesOf(after) \subseteq BalancesOf(req[w].moves) \cup {b}
    <3>1. CASE b \in BalancesOf(req[w].moves)
      BY <1>b, <2>2, <3>1 DEF BalancesOf
    <3>2. CASE b \notin BalancesOf(req[w].moves)
      BY <1>b, <2>2, <3>2, BalancesOfAppend
    <3>3. QED
      BY <3>1, <3>2
  <2>5. b \in Balances
    BY <2>1, NeedTypes
  <2> HIDE DEF b
  <2>6. Reads(w, b)
    BY <2>1, <2>3, <2>4, <2>5 DEF Reads, b
  <2>7. QED
    BY <2>6 DEF b
<1>2. ASSUME ReceiveRead(w)
      PROVE  Reads(w, NextRead(w))
  <2>1. req[w].op = "receive" /\ req[w].todo # <<>>
    BY <1>2, ReceiveSteps DEF ReceiveRead
  <2> DEFINE b == NextRead(w)
             move == [balance |-> b, before |-> StockAfter(w)[b],
                      after |-> StockAfter(w)[b] + Head(req[w].todo).quantity, allow |-> FALSE]
  <2>2. b \in Balances /\ Head(req[w].todo).quantity \in Int /\ StockAfter(w)[b] \in Int
    BY <2>1, NeedTypes, RowsAfter
  <2>3. move \in Move /\ move.balance = b
    BY <2>2 DEF Move
  <2>4. /\ req'[w].moves = Append(req[w].moves, move) /\ req'[w].op = "receive"
        /\ \A v \in Workers : v # w => req'[v] = req[v]
        /\ Contend(w, b)
        /\ UNCHANGED <<created, stock, kardex>>
    BY <1>2, <1>a, <2>1 DEF ReceiveRead, NextRead, rows, Request
  <2> HIDE DEF move
  <2>5. BalancesOf(req'[w].moves) = BalancesOf(req[w].moves) \cup {b}
    BY <1>b, <2>3, <2>4, BalancesOfAppend
  <2> HIDE DEF b
  <2>6. Reads(w, b)
    BY <2>1, <2>2, <2>4, <2>5 DEF Reads
  <2>7. QED
    BY <2>6 DEF b
<1>3. ASSUME NEW b \in Balances, NEW n \in Adjustments, AdjustRead(w, b, n)
      PROVE  Reads(w, b)
  <2> DEFINE move == [balance |-> b, before |-> stock[b], after |-> stock[b] + n,
                      allow |-> b \in allowNegative]
  <2>1. /\ req'[w].moves = <<move>> /\ req'[w].op = "adjust" /\ req[w].op = "idle"
        /\ b \in created
        /\ \A v \in Workers : v # w => req'[v] = req[v]
        /\ Contend(w, b)
        /\ UNCHANGED <<created, stock, kardex>>
    BY <1>3, <1>a DEF AdjustRead, rows, Request, Idle
  <2>2. move.balance = b
    OBVIOUS
  <2> HIDE DEF move
  <2>3. BalancesOf(<<move>>) = {b}
    BY <2>2 DEF BalancesOf
  <2>4. QED
    BY <2>1, <2>3 DEF Reads
<1>4. QED
  BY <1>1, <1>2, <1>3

\* What is read or booked stays an item that exists.
LEMMA NextItems == Types /\ ItemsExist /\ [Next]_vars => ItemsExist'
<1> SUFFICES ASSUME Types, ItemsExist, [Next]_vars
             PROVE  ItemsExist'
  OBVIOUS
<1>a. req \in [Workers -> Request]
  BY DEF Types, TypeOK
<1>1. CASE Quiet
  <2>1. \A v \in Workers : req'[v].moves = <<>> => BalancesOf(req'[v].moves) = {}
    BY DEF BalancesOf
  <2>2. QED
    BY <1>1, <2>1 DEF Quiet, ItemsExist
<1>2. ASSUME NEW w \in Workers, NEW b \in Balances, Reads(w, b)
      PROVE  ItemsExist'
  <2>1. req[w].op = "idle" => BalancesOf(req[w].moves) = {}
    BY DEF BalancesOf, Types, RequestShape, Shape, IdleShape, Idle
  <2>2. ASSUME NEW v \in Workers, req'[v].op \in {"consume", "adjust"}
        PROVE  BalancesOf(req'[v].moves) \subseteq created
    <3>1. CASE v = w
      BY <1>2, <2>1, <2>2, <3>1 DEF Reads, ItemsExist
    <3>2. CASE v # w
      BY <1>2, <2>2, <3>2 DEF Reads, ItemsExist
    <3>3. QED
      BY <3>1, <3>2
  <2>3. QED
    BY <1>2, <2>2 DEF Reads, ItemsExist
<1>3. ASSUME NEW w \in Workers, Commit(w)
      PROVE  ItemsExist'
  <2>1. created' = created \cup BalancesOf(req[w].moves)
    BY <1>3 DEF Commit
  <2>2. \A b \in Balances \ created' : kardex'[b] = kardex[b]
    BY <1>3, <2>1, CommitRows
  <2>3. \A v \in Workers : req'[v] = IF v = w THEN Idle ELSE req[v]
    BY <1>3, <1>a DEF Commit, Answered
  <2>4. BalancesOf(Idle.moves) = {}
    BY DEF BalancesOf, Idle
  <2>5. \A v \in Workers :
          req'[v].op \in {"consume", "adjust"} => BalancesOf(req'[v].moves) \subseteq created'
    BY <2>1, <2>3, <2>4 DEF ItemsExist
  <2>6. QED
    BY <2>1, <2>2, <2>5 DEF ItemsExist
<1>4. ASSUME NEW c \in Balances, NEW n \in Initial, NEW negative \in BOOLEAN,
             CreateItem(c, n, negative)
      PROVE  ItemsExist'
  <2>1. /\ \A d \in Balances \ {c} : kardex'[d] = kardex[d]
        /\ created' = created \cup {c} /\ req' = req
    BY <1>4, CreatedRows DEF CreateItem
  <2>2. QED
    BY <2>1 DEF ItemsExist
<1>5. ASSUME NEW c \in Edited, NEW negative \in BOOLEAN, NEW isActive \in BOOLEAN,
             UpdateItem(c, negative, isActive)
      PROVE  ItemsExist'
  BY <1>5 DEF UpdateItem, ItemsExist
<1>6. \A w \in Workers, b \in Balances : Reads(w, b) => ItemsExist'
  BY <1>2
<1>7. \A w \in Workers : Reads(w, NextRead(w)) => NextRead(w) \in Balances
  BY DEF Reads
<1>8. QED
  BY <1>1, <1>3, <1>4, <1>5, <1>6, <1>7, StepKinds, ReadSteps

\* An item that two requests have read is marked contended.
LEMMA NextAlone == Types /\ ReadAlone /\ [Next]_vars => ReadAlone'
<1> SUFFICES ASSUME Types, ReadAlone, [Next]_vars
             PROVE  ReadAlone'
  OBVIOUS
<1>a. req \in [Workers -> Request]
  BY DEF Types, TypeOK
<1>1. ASSUME contended \subseteq contended',
             \A v \in Workers : req'[v].moves = <<>> \/ req'[v].moves = req[v].moves
      PROVE  ReadAlone'
  <2>1. \A v \in Workers : BalancesOf(req'[v].moves) \subseteq BalancesOf(req[v].moves)
    BY <1>1 DEF BalancesOf
  <2>2. QED
    BY <1>1, <2>1 DEF ReadAlone
<1>2. CASE Quiet
  BY <1>1, <1>2 DEF Quiet
<1>3. ASSUME NEW w \in Workers, NEW b \in Balances, Reads(w, b)
      PROVE  ReadAlone'
  <2>1. contended' = contended \cup IF \E v \in Workers \ {w} : b \in BalancesOf(req[v].moves)
                                    THEN {b} ELSE {}
    BY <1>3 DEF Reads, Contend
  <2> SUFFICES ASSUME NEW u \in Workers, NEW v \in Workers, u # v,
                      NEW c \in BalancesOf(req'[u].moves) \cap BalancesOf(req'[v].moves)
               PROVE  c \in contended'
    BY DEF ReadAlone
  <2>2. CASE u # w /\ v # w
    BY <1>3, <2>1, <2>2 DEF Reads, ReadAlone
  <2>3. CASE u = w /\ v # w
    BY <1>3, <2>1, <2>3 DEF Reads, ReadAlone
  <2>4. CASE u # w /\ v = w
    BY <1>3, <2>1, <2>4 DEF Reads, ReadAlone
  <2>5. QED
    BY <2>2, <2>3, <2>4
<1>4. ASSUME NEW w \in Workers, Commit(w)
      PROVE  ReadAlone'
  <2>1. \A v \in Workers : req'[v] = IF v = w THEN Idle ELSE req[v]
    BY <1>4, <1>a DEF Commit, Answered
  <2>2. QED
    BY <1>1, <1>4, <2>1 DEF Commit, Idle
<1>5. ASSUME UNCHANGED <<req, contended>>
      PROVE  ReadAlone'
  BY <1>5 DEF ReadAlone
<1>6. \A w \in Workers, b \in Balances : Reads(w, b) => ReadAlone'
  BY <1>3
<1>7. \A w \in Workers : Reads(w, NextRead(w)) => NextRead(w) \in Balances
  BY DEF Reads
<1>8. QED
  BY <1>2, <1>4, <1>5, <1>6, <1>7, StepKinds, ReadSteps DEF CreateItem, UpdateItem

\* A consumption adds up what it takes of an item in one move.
LEMMA NextOneMove == Types /\ OneMoveEach /\ [Next]_vars => OneMoveEach'
<1> SUFFICES ASSUME Types, OneMoveEach, [Next]_vars
             PROVE  OneMoveEach'
  OBVIOUS
<1>a. req \in [Workers -> Request] /\ \A v \in Workers : req[v] \in Request /\ Shape(req[v])
  BY DEF Types, TypeOK, RequestShape
<1>1. CASE Quiet
  BY <1>1 DEF Quiet, OneMoveEach
<1>2. ASSUME NEW w \in Workers, ConsumeRead(w)
      PROVE  OneMoveEach'
  <2>1. req[w].todo # <<>> /\ req[w].op = "consume"
    BY <1>2, <1>a DEF ConsumeRead, Shape, ConsumeShape
  <2> DEFINE after == Deduct(w)
             old == req[w].moves
             b == NextRead(w)
  <2>2. /\ after \in Seq(Move)
        /\ b \in BalancesOf(old) =>
             /\ Len(after) = Len(old)
             /\ \A i \in DOMAIN old : after[i].balance = old[i].balance
        /\ b \notin BalancesOf(old) =>
             \E m \in Move : after = Append(old, m) /\ m.balance = b
    BY <2>1, DeductFacts
  <2>3. /\ req'[w].moves = after /\ \A v \in Workers : v # w => req'[v] = req[v]
    BY <1>2, <1>a DEF ConsumeRead, Request
  <2>4. old \in Seq(Move) /\ \A i, j \in DOMAIN old : old[i].balance = old[j].balance => i = j
    BY <1>a, <2>1 DEF Request, OneMoveEach
  <2>5. b \notin BalancesOf(old) => \A i \in DOMAIN old : old[i].balance # b
    BY DEF BalancesOf
  <2> HIDE DEF after, old
  <2>6. \A i, j \in DOMAIN after : after[i].balance = after[j].balance => i = j
    <3>1. CASE b \in BalancesOf(old)
      BY <2>2, <2>4, <3>1
    <3>2. CASE b \notin BalancesOf(old)
      <4>1. PICK m \in Move : after = Append(old, m) /\ m.balance = b
        BY <2>2, <3>2
      <4>2. QED
        BY <2>4, <2>5, <3>2, <4>1
    <3>3. QED
      BY <3>1, <3>2
  <2>7. QED
    BY <2>3, <2>6 DEF OneMoveEach
<1>3. ASSUME NEW w \in Workers,
             \A v \in Workers : v # w => req'[v] = req[v],
             req'[w].op # "consume"
      PROVE  OneMoveEach'
  BY <1>3 DEF OneMoveEach
<1>4. ASSUME NEW w \in Workers, ReceiveRead(w)
      PROVE  OneMoveEach'
  <2>1. req[w].op = "receive"
    BY <1>4, ReceiveSteps DEF ReceiveRead
  <2>2. QED
    BY <1>3, <1>4, <1>a, <2>1 DEF ReceiveRead, Request
<1>5. ASSUME NEW w \in Workers, NEW b \in Balances, NEW n \in Adjustments, AdjustRead(w, b, n)
      PROVE  OneMoveEach'
  BY <1>3, <1>5, <1>a DEF AdjustRead, Request
<1>6. ASSUME NEW w \in Workers, Commit(w)
      PROVE  OneMoveEach'
  BY <1>3, <1>6, <1>a DEF Commit, Answered, Idle
<1>7. ASSUME req' = req
      PROVE  OneMoveEach'
  BY <1>7 DEF OneMoveEach
<1>8. QED
  BY <1>1, <1>2, <1>4, <1>5, <1>6, <1>7, StepKinds DEF CreateItem, UpdateItem

\* One more move keeps the moves chained if it starts from the stock the
\* transaction would leave.
LEMMA AppendChained ==
  ASSUME NEW s \in Seq(Move), NEW from, NEW shared, Chained(s, from, shared), NEW m \in Move,
         m.before = IF MovesOn(s, m.balance) = <<>> THEN from[m.balance]
                    ELSE MovesOn(s, m.balance)[Len(MovesOn(s, m.balance))].after
  PROVE  Chained(Append(s, m), from, shared)
<1> DEFINE b == m.balance
           mine == MovesOn(s, b)
           new == Append(s, m)
           n == Len(s)
<1>1. Ordered(mine, s, PlacesOf(s, b)) /\ (mine = <<>> <=> b \notin BalancesOf(s))
  BY MovesOrder, MovesFacts
<1>2. /\ DOMAIN new = 1 .. n + 1 /\ DOMAIN s = 1 .. n /\ n \in Nat
      /\ \A i \in 1 .. n : new[i] = s[i]
      /\ new[n + 1] = m
  OBVIOUS
<1>3. m.before = IF mine = <<>> THEN from[b] ELSE mine[Len(mine)].after
  OBVIOUS
<1> HIDE DEF mine, new, n
<1> SUFFICES ASSUME NEW j \in DOMAIN new, new[j].balance \notin shared
             PROVE  /\ FirstOn(new, j) => new[j].before = from[new[j].balance]
                    /\ \A i \in DOMAIN new : NextOn(new, i, j) => new[j].before = new[i].after
  BY DEF Chained, new
<1>4. CASE j \in 1 .. n
  <2>1. FirstOn(new, j) => FirstOn(s, j)
    BY <1>2, <1>4 DEF FirstOn
  <2>2. \A i \in DOMAIN new : NextOn(new, i, j) => i \in DOMAIN s /\ NextOn(s, i, j)
    BY <1>2, <1>4 DEF NextOn
  <2>3. QED
    BY <1>2, <1>4, <2>1, <2>2 DEF Chained
<1>5. CASE j = n + 1
  <2>1. new[j] = m
    BY <1>2, <1>5
  <2>2. ASSUME FirstOn(new, j)
        PROVE  new[j].before = from[b]
    <3>1. b \notin BalancesOf(s)
      BY <1>2, <1>5, <2>1, <2>2 DEF FirstOn, BalancesOf
    <3>2. QED
      BY <1>1, <1>3, <2>1, <3>1
  <2>3. ASSUME NEW i \in DOMAIN new, NextOn(new, i, j)
        PROVE  new[j].before = new[i].after
    <3>1. i \in 1 .. n /\ s[i].balance = b /\ \A l \in i + 1 .. n : s[l].balance # b
      BY <1>2, <1>5, <2>1, <2>3 DEF NextOn
    <3>2. mine # <<>>
      BY <1>1, <1>2, <3>1 DEF BalancesOf
    <3>3. PICK k \in PlacesOf(s, b) : mine[Len(mine)] = s[k] /\ \A l \in PlacesOf(s, b) : l <= k
      BY <1>1, <3>2 DEF Ordered
    <3>4. k = i
      BY <1>2, <3>1, <3>3 DEF PlacesOf
    <3>5. QED
      BY <1>2, <1>3, <2>1, <3>1, <3>2, <3>3, <3>4
  <2>4. QED
    BY <2>1, <2>2, <2>3
<1>6. QED
  BY <1>2, <1>4, <1>5

\* More items are contended, and the stock of those that are not is the same.
LEMMA ChainedKept ==
  ASSUME NEW s, NEW from, NEW shared, Chained(s, from, shared),
         NEW newFrom, NEW newShared, shared \subseteq newShared,
         \A b \in BalancesOf(s) \ newShared : newFrom[b] = from[b]
  PROVE  Chained(s, newFrom, newShared)
  BY DEF Chained, BalancesOf

\* What a request has read continues the stock, unless it is contended.
LEMMA NextChained == UnbrokenInv /\ [Next]_vars => MovesChained'
<1> SUFFICES ASSUME UnbrokenInv, [Next]_vars
             PROVE  \A v \in Workers : Chained(req'[v].moves, stock', contended')
  BY DEF MovesChained
<1>a. req \in [Workers -> Request] /\ \A v \in Workers : req[v] \in Request /\ Shape(req[v])
  BY DEF UnbrokenInv, Types, TypeOK, RequestShape
<1>b. Types /\ \A v \in Workers : Chained(req[v].moves, stock, contended)
                                  /\ req[v].moves \in Seq(Move)
  BY <1>a DEF UnbrokenInv, MovesChained, Request
<1>c. \A from, shared : Chained(<<>>, from, shared)
  BY DEF Chained
<1>d. ASSUME NEW w \in Workers, NEW b \in Balances, Reads(w, b)
      PROVE  \A v \in Workers \ {w} : Chained(req'[v].moves, stock', contended')
  <2>1. contended \subseteq contended' /\ stock' = stock
        /\ \A v \in Workers \ {w} : req'[v] = req[v]
    BY <1>d DEF Reads, Contend
  <2>2. QED
    BY <1>b, <2>1, ChainedKept
<1>1. CASE Quiet
  <2>1. contended' = contended /\ stock' = stock
        /\ \A v \in Workers : req'[v].moves = <<>> \/ req'[v].moves = req[v].moves
    BY <1>1 DEF Quiet
  <2>2. QED
    BY <1>b, <1>c, <2>1
<1>2. ASSUME NEW w \in Workers, ConsumeRead(w)
      PROVE  \A v \in Workers : Chained(req'[v].moves, stock', contended')
  <2>1. req[w].todo # <<>> /\ req[w].op = "consume"
    BY <1>2, <1>a DEF ConsumeRead, Shape, ConsumeShape
  <2> DEFINE after == Deduct(w)
             old == req[w].moves
             b == NextRead(w)
  <2>2. /\ after \in Seq(Move)
        /\ b \in BalancesOf(old) =>
             /\ Len(after) = Len(old)
             /\ \A i \in DOMAIN old : /\ after[i].balance = old[i].balance
                                      /\ after[i].before = old[i].before
        /\ b \notin BalancesOf(old) =>
             \E m \in Move : after = Append(old, m) /\ m.balance = b /\ m.before = stock[b]
    BY <1>b, <2>1, DeductFacts
  <2>3. req'[w].moves = after /\ contended \subseteq contended' /\ stock' = stock
    BY <1>2, <1>a DEF ConsumeRead, Contend, rows, Request
  <2>4. old \in Seq(Move) /\ Chained(old, stock, contended)
        /\ \A i, j \in DOMAIN old : old[i].balance = old[j].balance => i = j
    BY <1>b, <2>1 DEF UnbrokenInv, OneMoveEach
  <2>5. Reads(w, b)
    BY <1>2, <1>b, ReadSteps
  <2>6. b \in Balances
    BY <2>5 DEF Reads
  <2> HIDE DEF after, old, b
  <2>7. Chained(after, stock, contended)
    <3>1. CASE b \in BalancesOf(old)
      <4>1. DOMAIN after = DOMAIN old /\ DOMAIN old = 1 .. Len(old) /\ Len(old) \in Nat
        BY <2>2, <2>4, <3>1
      <4>2. \A i \in DOMAIN old : after[i].balance = old[i].balance
        BY <2>2, <3>1
      <4>3. ASSUME NEW j \in DOMAIN old, FirstOn(after, j)
            PROVE  FirstOn(old, j)
        <5>1. \A i \in 1 .. j - 1 : i \in DOMAIN old
          BY <4>1
        <5>2. QED
          BY <4>3, <4>2, <5>1 DEF FirstOn
      <4>4. ASSUME NEW i \in DOMAIN after, NEW j \in DOMAIN after
            PROVE  ~NextOn(after, i, j)
        <5>1. after[i].balance = after[j].balance => i = j
          BY <2>4, <4>1, <4>2
        <5>2. ~(i = j /\ i < j)
          BY <4>1
        <5>3. QED
          BY <5>1, <5>2 DEF NextOn
      <4>5. QED
        BY <2>2, <2>4, <3>1, <4>1, <4>3, <4>4 DEF Chained
    <3>2. CASE b \notin BalancesOf(old)
      <4>1. PICK m \in Move : after = Append(old, m) /\ m.balance = b /\ m.before = stock[b]
        BY <2>2, <3>2
      <4>2. MovesOn(old, b) = <<>>
        BY <2>4, <3>2, MovesFacts
      <4>3. Chained(Append(old, m), stock, contended)
        BY <2>4, <4>1, <4>2, AppendChained
      <4>4. QED
        BY <4>1, <4>3
    <3>3. QED
      BY <3>1, <3>2
  <2>8. Chained(req'[w].moves, stock', contended')
    BY <2>3, <2>7, ChainedKept
  <2>9. QED
    BY <1>d, <2>5, <2>6, <2>8
<1>3. ASSUME NEW w \in Workers, ReceiveRead(w)
      PROVE  \A v \in Workers : Chained(req'[v].moves, stock', contended')
  <2>1. req[w].op = "receive" /\ req[w].todo # <<>>
    BY <1>3, <1>b, ReceiveSteps DEF ReceiveRead
  <2> DEFINE b == NextRead(w)
             old == req[w].moves
             before == StockAfter(w)[b]
             move == [balance |-> b, before |-> before,
                      after |-> before + Head(req[w].todo).quantity, allow |-> FALSE]
  <2>2. b \in Balances /\ Head(req[w].todo).quantity \in Int /\ before \in Int
    BY <1>b, <2>1, NeedTypes, RowsAfter
  <2>3. move \in Move /\ move.balance = b /\ move.before = before
    BY <2>2 DEF Move
  <2>4. before = IF MovesOn(old, b) = <<>> THEN stock[b]
                 ELSE MovesOn(old, b)[Len(MovesOn(old, b))].after
    BY <2>2 DEF StockAfter
  <2>5. req'[w].moves = Append(old, move) /\ contended \subseteq contended' /\ stock' = stock
    BY <1>3, <1>a DEF ReceiveRead, NextRead, Contend, rows, Request
  <2>6. Reads(w, b)
    BY <1>3, <1>b, ReadSteps
  <2>7. old \in Seq(Move) /\ Chained(old, stock, contended)
    BY <1>b
  <2> HIDE DEF b, old, before, move
  <2>8. Chained(Append(old, move), stock, contended)
    BY <2>3, <2>4, <2>7, AppendChained
  <2>9. Chained(req'[w].moves, stock', contended')
    BY <2>5, <2>8, ChainedKept
  <2>10. QED
    BY <1>d, <2>2, <2>6, <2>9
<1>4. ASSUME NEW w \in Workers, NEW b \in Balances, NEW n \in Adjustments, AdjustRead(w, b, n)
      PROVE  \A v \in Workers : Chained(req'[v].moves, stock', contended')
  <2> DEFINE move == [balance |-> b, before |-> stock[b], after |-> stock[b] + n,
                      allow |-> b \in allowNegative]
  <2>1. req'[w].moves = <<move>> /\ stock' = stock
    BY <1>4, <1>a DEF AdjustRead, rows, Request
  <2>2. move.balance = b /\ move.before = stock[b]
    OBVIOUS
  <2> HIDE DEF move
  <2>3. Chained(<<move>>, stock, contended')
    <3>1. \A i, j \in DOMAIN <<move>> : ~NextOn(<<move>>, i, j)
      BY DEF NextOn
    <3>2. QED
      BY <2>2, <3>1 DEF Chained
  <2>4. Reads(w, b)
    BY <1>4, <1>b, ReadSteps
  <2>5. QED
    BY <1>d, <2>1, <2>3, <2>4
<1>5. ASSUME NEW w \in Workers, Commit(w)
      PROVE  \A v \in Workers : Chained(req'[v].moves, stock', contended')
  <2>1. /\ \A v \in Workers : req'[v] = IF v = w THEN Idle ELSE req[v]
        /\ contended' = contended
    BY <1>5, <1>a DEF Commit, Answered
  <2>2. ASSUME NEW v \in Workers \ {w}
        PROVE  Chained(req[v].moves, stock', contended)
    <3>1. ASSUME NEW b \in BalancesOf(req[v].moves) \ contended
          PROVE  stock'[b] = stock[b]
      <4>1. b \notin BalancesOf(req[w].moves)
        BY DEF UnbrokenInv, ReadAlone
      <4>2. b \in Balances
        BY <1>b, RowsAfter
      <4>3. QED
        BY <1>5, <1>b, <4>1, <4>2, CommitRows
    <3>2. QED
      BY <1>b, <3>1, ChainedKept
  <2>3. Idle.moves = <<>>
    BY DEF Idle
  <2>4. QED
    BY <1>c, <2>1, <2>2, <2>3
<1>6. ASSUME NEW c \in Balances, NEW n \in Initial, NEW negative \in BOOLEAN,
             CreateItem(c, n, negative)
      PROVE  \A v \in Workers : Chained(req'[v].moves, stock', contended')
  <2>1. stock' = [stock EXCEPT ![c] = n] /\ contended' = contended /\ req' = req
    BY <1>6 DEF CreateItem
  <2> SUFFICES ASSUME NEW v \in Workers
               PROVE  Chained(req[v].moves, stock', contended)
    BY <2>1
  <2>2. \A b \in BalancesOf(req[v].moves) : stock'[b] = stock[b]
    <3>1. c \notin BalancesOf(req[v].moves)
      BY <1>6, <1>b, CreatedUnread DEF UnbrokenInv
    <3>2. BalancesOf(req[v].moves) \subseteq Balances
      BY <1>b, RowsAfter
    <3>3. QED
      BY <1>b, <2>1, <3>1, <3>2 DEF Types, TypeOK
  <2>3. QED
    BY <1>b, <2>2, ChainedKept
<1>7. ASSUME UNCHANGED <<req, stock, contended>>
      PROVE  \A v \in Workers : Chained(req'[v].moves, stock', contended')
  BY <1>b, <1>7
<1>8. QED
  BY <1>b, <1>1, <1>2, <1>3, <1>4, <1>5, <1>6, <1>7, StepKinds DEF UpdateItem

\* The kardex of an item has no gap, whatever overlaps, unless two transactions
\* read the item before either of them ended: what a handler writes as
\* stockBefore is then the stockAfter of the last movement.
THEOREM KardexHasNoGap == Spec => []KardexUnbroken
<1>1. UnbrokenInv /\ [Next]_vars => UnbrokenInv'
  BY NextTypes, NextItems, NextClosed, NextAlone, NextOneMove, NextChained, NextKardex
     DEF UnbrokenInv
<1>2. UnbrokenInv => KardexUnbroken
  BY DEF UnbrokenInv
<1>3. QED
  BY <1>1, <1>2, InitUnbroken, PTL DEF Spec

-----------------------------------------------------------------------------
(* The inductive invariant about purchases *)

\* A receive that has found its purchase a draft within its transaction.
Receiving(r) == r.op = "receive" /\ r.step # "begin"

\* What a receive has read and has still to read is the lines of its purchase.
LinesRead ==
  \A w \in Workers :
    Receiving(req[w]) =>
      LET lines == Items[req[w].purchase]
          read  == Len(req[w].moves)
      IN
      /\ read + Len(req[w].todo) = Len(lines)
      /\ \A i \in 1 .. read : req[w].moves[i].balance = lines[i].balance
      /\ \A i \in DOMAIN req[w].todo : req[w].todo[i] = lines[read + i]

\* A purchase that a request works on exists; unless it is marked raced, the
\* request works on it alone and it is a draft.
PurchaseAlone ==
  \A w \in Workers :
    req[w].purchase \in Purchases =>
      /\ purchase[req[w].purchase] # "none"
      /\ req[w].purchase \notin raced =>
           /\ purchase[req[w].purchase] = "DRAFT"
           /\ \A v \in Workers \ {w} : req[v].purchase # req[w].purchase

\* The lines of purchase p are booked this many times: not while it is a draft,
\* once if it is received and was never raced, and no more often than requests
\* can have found it a draft.
Receivers(p) == {w \in Workers : Receiving(req[w]) /\ req[w].purchase = p}
BookedTimes(p, times) ==
  /\ \A b \in Balances : Booked(p, b) = times * LinesOn(p, b)
  /\ purchase[p] \in {"none", "DRAFT"} => times = 0
  /\ p \notin raced => times = IF purchase[p] = "RECEIVED" THEN 1 ELSE 0
  /\ times + Cardinality(Receivers(p)) <= Cardinality(Workers)
LinesBooked ==
  \A p \in Purchases : \E times \in 0 .. Cardinality(Workers) : BookedTimes(p, times)

BookedInv == Types /\ ItemsExist /\ LinesRead /\ PurchaseAlone /\ LinesBooked

\* What a step can do to a receive that has begun its transaction.
LEMMA ReceivingSteps ==
  ASSUME Types, [Next]_vars, NEW w \in Workers, Receiving(req'[w])
  PROVE  \/ /\ Receiving(req[w])
            /\ req'[w].purchase = req[w].purchase
            /\ req'[w].todo = req[w].todo
            /\ req'[w].moves = req[w].moves
         \/ ReceiveBegin(w)
         \/ ReceiveRead(w)
<1> DEFINE Same(v) == /\ Receiving(req[v])
                      /\ req'[v].purchase = req[v].purchase
                      /\ req'[v].todo = req[v].todo
                      /\ req'[v].moves = req[v].moves
           Goal == Same(w) \/ ReceiveBegin(w) \/ ReceiveRead(w)
<1>a. req \in [Workers -> Request] /\ \A v \in Workers : req[v] \in Request /\ Shape(req[v])
  BY DEF Types, TypeOK, RequestShape
<1>b. ~Receiving(Idle)
  BY DEF Receiving, Idle
<1>0. ASSUME req'[w] = req[w]
      PROVE  Goal
  BY <1>0
<1>1. ASSUME NEW v \in Workers, Answered(v)
      PROVE  Goal
  <2>1. \A u \in Workers : req'[u] = IF u = v THEN Idle ELSE req[u]
    BY <1>a, <1>1 DEF Answered
  <2>2. v # w
    BY <1>b, <2>1
  <2>3. QED
    BY <1>0, <2>1, <2>2
<1>2. ASSUME NEW v \in Workers, NEW order \in Orders, ConsumeStart(v, order)
      PROVE  Goal
  <2>1. req'[v].op = "consume" /\ \A u \in Workers \ {v} : req'[u] = req[u]
    BY <1>a, <1>2 DEF ConsumeStart, Request
  <2>2. QED
    BY <1>0, <2>1 DEF Receiving
<1>3. ASSUME NEW v \in Workers, NEW b \in Balances, NEW n \in Adjustments, AdjustRead(v, b, n)
      PROVE  Goal
  <2>1. req'[v].op = "adjust" /\ \A u \in Workers \ {v} : req'[u] = req[u]
    BY <1>a, <1>3 DEF AdjustRead, Request
  <2>2. QED
    BY <1>0, <2>1 DEF Receiving
<1>4. ASSUME NEW v \in Workers, NEW p \in Purchases, ReceiveCheck(v, p) \/ CancelCheck(v, p)
      PROVE  Goal
  <2>1. /\ \/ req'[v].op = "receive" /\ req'[v].step = "begin"
           \/ req'[v].op = "cancel"
        /\ \A u \in Workers \ {v} : req'[u] = req[u]
    BY <1>a, <1>4 DEF ReceiveCheck, CancelCheck, Request
  <2>2. QED
    BY <1>0, <2>1 DEF Receiving
<1>5. ASSUME NEW v \in Workers, ConsumeRead(v) \/ ConsumeSkip(v)
      PROVE  Goal
  <2>1. req'[v].op = "consume" /\ \A u \in Workers \ {v} : req'[u] = req[u]
    BY <1>a, <1>5 DEF ConsumeRead, ConsumeSkip, Request
  <2>2. QED
    BY <1>0, <2>1 DEF Receiving
<1>6. ASSUME NEW v \in Workers, ReceiveBegin(v) \/ ReceiveRead(v)
      PROVE  Goal
  <2>1. \A u \in Workers \ {v} : req'[u] = req[u]
    BY <1>a, <1>6 DEF ReceiveBegin, ReceiveRead
  <2>2. QED
    BY <1>0, <1>6, <2>1
<1>7. ASSUME NEW v \in Workers, ReceiveLink(v) \/ ReceiveInsert(v) \/ Write(v)
      PROVE  Goal
  <2>1. /\ req'[v].op = req[v].op
        /\ req'[v].purchase = req[v].purchase
        /\ req'[v].todo = req[v].todo
        /\ req'[v].moves = req[v].moves
        /\ req[v].step # "begin"
        /\ \A u \in Workers \ {v} : req'[u] = req[u]
    BY <1>a, <1>7 DEF ReceiveLink, ReceiveInsert, Write, Request
  <2>2. QED
    BY <1>0, <2>1 DEF Receiving
<1>8. ASSUME req' = req
      PROVE  Goal
  BY <1>0, <1>8
<1> HIDE DEF Goal
<1>9. \A v \in Workers :
        /\ ConsumeRefused(v) \/ ReceiveStale(v) \/ ReceiveConflict(v) => Answered(v)
        /\ CancelCommit(v) \/ Commit(v) \/ DeadlockAbort(v) => Answered(v)
  BY DEF ConsumeRefused, ReceiveStale, ReceiveConflict, CancelCommit, Commit, DeadlockAbort
<1>10. /\ UNCHANGED vars => req' = req
       /\ \A v \in Workers, b \in Balances, n \in Adjustments : AdjustRefused(v, b, n) => req' = req
       /\ \A v \in Workers, p \in Purchases : PurchaseRejected(v, p) => req' = req
       /\ \A b \in Balances, n \in Initial, negative \in BOOLEAN :
            CreateItem(b, n, negative) => req' = req
       /\ \A b \in Edited, negative, isActive \in BOOLEAN :
            UpdateItem(b, negative, isActive) => req' = req
       /\ \A p \in Purchases : CreatePurchase(p) => req' = req
  BY DEF vars, AdjustRefused, PurchaseRejected, CreateItem, UpdateItem, CreatePurchase
<1>11. ASSUME NEW v \in Workers, Serve(v)
       PROVE  Goal
  <2>1. \/ Answered(v)
        \/ ConsumeRead(v) \/ ConsumeSkip(v)
        \/ ReceiveBegin(v) \/ ReceiveRead(v)
        \/ ReceiveLink(v) \/ ReceiveInsert(v) \/ Write(v)
    BY <1>9, <1>11 DEF Serve
  <2>2. QED
    BY <1>1, <1>5, <1>6, <1>7, <2>1
<1>12. Goal
  BY <1>2, <1>3, <1>4, <1>8, <1>10, <1>11 DEF Next
<1>13. QED
  BY <1>12 DEF Goal

\* What a step can do to the purchases and to the requests that work on them.
LEMMA PurchaseSteps ==
  ASSUME Types, [Next]_vars
  PROVE  /\ \/ purchase' = purchase
            \/ \E p \in Purchases : CreatePurchase(p)
            \/ \E w \in Workers : CancelCommit(w)
            \/ \E w \in Workers : Commit(w) /\ req[w].op = "receive"
         /\ \/ \A w \in Workers : req'[w].purchase \in {req[w].purchase, NoPurchase}
            \/ \E w \in Workers, p \in Purchases : ReceiveCheck(w, p) \/ CancelCheck(w, p)
         /\ raced \subseteq raced'
<1> DEFINE Keeps == \A w \in Workers : req'[w].purchase \in {req[w].purchase, NoPurchase}
           Free == purchase' = purchase /\ Keeps /\ raced' = raced
<1>a. req \in [Workers -> Request]
  BY DEF Types, TypeOK
<1>b. Idle.purchase = NoPurchase
  BY DEF Idle
<1>1. ASSUME NEW v \in Workers, Answered(v)
      PROVE  Keeps
  BY <1>a, <1>b, <1>1 DEF Answered
<1>2. ASSUME NEW v \in Workers,
             \/ \E order \in Orders : ConsumeStart(v, order)
             \/ \E b \in Balances, n \in Adjustments : AdjustRead(v, b, n)
             \/ ConsumeRead(v) \/ ConsumeSkip(v)
             \/ ReceiveBegin(v) \/ ReceiveLink(v) \/ ReceiveInsert(v) \/ ReceiveRead(v) \/ Write(v)
      PROVE  Free
  <2>1. purchase' = purchase /\ raced' = raced
    BY <1>2 DEF ConsumeStart, AdjustRead, ConsumeRead, ConsumeSkip, ReceiveBegin, ReceiveLink,
       ReceiveInsert, ReceiveRead, Write, rows
  <2>2. \E r \in Request : req' = [req EXCEPT ![v] = r] /\ r.purchase = req[v].purchase
    <3>0. req[v] \in Request
      BY <1>a
    <3>1. req' = [req EXCEPT ![v] = req'[v]] /\ req'[v].purchase = req[v].purchase
      <4>1. ASSUME NEW order \in Orders, ConsumeStart(v, order)
            PROVE  req' = [req EXCEPT ![v] = req'[v]] /\ req'[v].purchase = req[v].purchase
        BY <1>a, <3>0, <4>1 DEF ConsumeStart, Request
      <4>2. ASSUME NEW b \in Balances, NEW n \in Adjustments, AdjustRead(v, b, n)
            PROVE  req' = [req EXCEPT ![v] = req'[v]] /\ req'[v].purchase = req[v].purchase
        BY <1>a, <3>0, <4>2 DEF AdjustRead, Request
      <4>3. CASE ConsumeRead(v) \/ ConsumeSkip(v)
        BY <1>a, <3>0, <4>3 DEF ConsumeRead, ConsumeSkip, Request
      <4>4. CASE ReceiveBegin(v) \/ ReceiveLink(v) \/ ReceiveInsert(v) \/ ReceiveRead(v)
        BY <1>a, <3>0, <4>4 DEF ReceiveBegin, ReceiveLink, ReceiveInsert, ReceiveRead, Request
      <4>5. CASE Write(v)
        BY <1>a, <3>0, <4>5 DEF Write, Request
      <4>6. QED
        BY <1>2, <4>1, <4>2, <4>3, <4>4, <4>5
    <3>2. req'[v] \in Request
      BY NextTypes DEF Types, TypeOK
    <3>3. QED
      BY <3>1, <3>2
  <2>3. Keeps
    BY <1>a, <2>2
  <2>4. QED
    BY <2>1, <2>3
<1>3. ASSUME NEW v \in Workers,
             ConsumeRefused(v) \/ ReceiveStale(v) \/ ReceiveConflict(v) \/ DeadlockAbort(v)
      PROVE  Free
  BY <1>1, <1>3 DEF ConsumeRefused, ReceiveStale, ReceiveConflict, DeadlockAbort, rows
<1>4. ASSUME NEW v \in Workers, CancelCommit(v) \/ Commit(v)
      PROVE  /\ Keeps /\ raced' = raced
             /\ \/ purchase' = purchase
                \/ CancelCommit(v)
                \/ Commit(v) /\ req[v].op = "receive"
  <2>1. Answered(v) /\ raced' = raced
    BY <1>4 DEF CancelCommit, Commit
  <2>2. Keeps
    BY <1>1, <2>1
  <2>3. Commit(v) => purchase' = purchase \/ req[v].op = "receive"
    BY DEF Commit
  <2>4. QED
    BY <1>4, <2>1, <2>2, <2>3
<1>5. ASSUME NEW v \in Workers, NEW p \in Purchases, ReceiveCheck(v, p) \/ CancelCheck(v, p)
      PROVE  purchase' = purchase /\ raced \subseteq raced'
  BY <1>5 DEF ReceiveCheck, CancelCheck, Race, rows
<1>6. /\ UNCHANGED vars => Free
      /\ \A v \in Workers, b \in Balances, n \in Adjustments : AdjustRefused(v, b, n) => Free
      /\ \A v \in Workers, p \in Purchases : PurchaseRejected(v, p) => Free
      /\ \A b \in Balances, n \in Initial, negative \in BOOLEAN :
           CreateItem(b, n, negative) => Free
      /\ \A b \in Edited, negative, isActive \in BOOLEAN :
           UpdateItem(b, negative, isActive) => Free
      /\ \A p \in Purchases : CreatePurchase(p) => Keeps /\ raced' = raced
  BY DEF vars, rows, AdjustRefused, PurchaseRejected, CreateItem, UpdateItem, CreatePurchase
<1> HIDE DEF Keeps
<1>7. QED
  <2>1. CASE UNCHANGED vars
    BY <1>6, <2>1 DEF Keeps
  <2>2. CASE Next
    <3>1. CASE \E b \in Balances, n \in Initial, negative \in BOOLEAN : CreateItem(b, n, negative)
      BY <1>6, <3>1 DEF Keeps
    <3>2. CASE \E b \in Edited, negative, isActive \in BOOLEAN : UpdateItem(b, negative, isActive)
      BY <1>6, <3>2 DEF Keeps
    <3>3. CASE \E p \in Purchases : CreatePurchase(p)
      BY <1>6, <3>3 DEF Keeps
    <3>4. ASSUME NEW v \in Workers,
                 \/ \E order \in Orders : ConsumeStart(v, order)
                 \/ \E b \in Balances, n \in Adjustments : AdjustRead(v, b, n)
                 \/ \E b \in Balances, n \in Adjustments : AdjustRefused(v, b, n)
                 \/ \E p \in Purchases : PurchaseRejected(v, p)
                 \/ Serve(v)
          PROVE  Free \/ CancelCommit(v) \/ Commit(v)
      BY <1>2, <1>3, <1>6, <3>4 DEF Serve
    <3>5. QED
      BY <1>4, <1>5, <2>2, <3>1, <3>2, <3>3, <3>4 DEF Next, Keeps
  <2>3. QED
    BY <2>1, <2>2

-----------------------------------------------------------------------------
(* Counting the movements of a purchase *)

\* How many movements of a kardex are of purchase p.
BookedIn(k, p) == Cardinality({i \in DOMAIN k : k[i].purchase = p})

\* The kardex k has grown to more by n movements of q.
Appended(k, more, n, q) ==
  /\ Len(more) = Len(k) + n
  /\ \A i \in 1 .. Len(k) : more[i] = k[i]
  /\ \A i \in Len(k) + 1 .. Len(k) + n : more[i].purchase = q

\* A kardex is finite: how many it has of a purchase is a number.
LEMMA BookedIsNat ==
  ASSUME NEW k \in Seq(Movement), NEW p
  PROVE  BookedIn(k, p) \in Nat
<1>1. DOMAIN k = 1 .. Len(k) /\ Len(k) \in Nat
  OBVIOUS
<1>2. IsFiniteSet(DOMAIN k)
  BY <1>1, FS_Interval
<1>3. IsFiniteSet({i \in DOMAIN k : k[i].purchase = p})
  BY <1>2, FS_Subset
<1>4. QED
  BY <1>3, FS_CardinalityType DEF BookedIn

\* The movements of a purchase that are appended to a kardex add up.
LEMMA BookedMore ==
  ASSUME NEW k \in Seq(Movement), NEW more \in Seq(Movement), NEW n \in Nat, NEW q, NEW p,
         Appended(k, more, n, q)
  PROVE  BookedIn(more, p) = BookedIn(k, p) + IF p = q THEN n ELSE 0
<1> DEFINE old == {i \in DOMAIN k : k[i].purchase = p}
           added == IF p = q THEN Len(k) + 1 .. Len(k) + n ELSE {}
           all == {i \in DOMAIN more : more[i].purchase = p}
<1>a. /\ \A i \in 1 .. Len(k) : more[i] = k[i]
      /\ \A i \in Len(k) + 1 .. Len(k) + n : more[i].purchase = q
  BY DEF Appended
<1>1. /\ DOMAIN k = 1 .. Len(k) /\ DOMAIN more = 1 .. Len(k) + n
      /\ Len(k) \in Nat
  BY DEF Appended
<1>2. IsFiniteSet(1 .. Len(k)) /\ IsFiniteSet(Len(k) + 1 .. Len(k) + n)
      /\ Cardinality(Len(k) + 1 .. Len(k) + n) = n
  BY <1>1, FS_Interval
<1>3. IsFiniteSet(old)
  BY <1>1, <1>2, FS_Subset
<1>4. IsFiniteSet(added) /\ Cardinality(added) = IF p = q THEN n ELSE 0
  BY <1>2, FS_EmptySet
<1>5. all = old \cup added
  <2>1. ASSUME NEW i \in 1 .. Len(k)
        PROVE  i \in all <=> i \in old \cup added
    BY <1>a, <1>1
  <2>2. ASSUME NEW i \in Len(k) + 1 .. Len(k) + n
        PROVE  i \in all <=> i \in old \cup added
    BY <1>a, <1>1
  <2>3. all \subseteq 1 .. Len(k) + n /\ old \cup added \subseteq 1 .. Len(k) + n
    BY <1>1
  <2>4. \A i \in 1 .. Len(k) + n : i \in 1 .. Len(k) \/ i \in Len(k) + 1 .. Len(k) + n
    BY <1>1
  <2> HIDE DEF all, old, added
  <2>5. QED
    BY <2>1, <2>2, <2>3, <2>4
<1>6. old \cap added = {}
  BY <1>1
<1>7. Cardinality(old) \in Nat
  BY BookedIsNat DEF BookedIn
<1> HIDE DEF old, added, all
<1>8. Cardinality(all) = Cardinality(old) + Cardinality(added)
  <2>1. Cardinality(old \cup added)
          = Cardinality(old) + Cardinality(added) - Cardinality(old \cap added)
    BY <1>3, <1>4, FS_Union
  <2>2. Cardinality(old \cap added) = 0 /\ Cardinality(added) \in Nat
    BY <1>4, <1>6, FS_EmptySet, FS_CardinalityType
  <2>3. QED
    BY <1>5, <1>7, <2>1, <2>2
<1>9. QED
  BY <1>4, <1>7, <1>8 DEF old, all, BookedIn

\* There are as many moves on b as places of b.
LEMMA MovesCounted ==
  ASSUME NEW s \in Seq(Move), NEW b
  PROVE  Cardinality(PlacesOf(s, b)) = Len(MovesOn(s, b))
<1> DEFINE mine == MovesOn(s, b)
           n == Len(mine)
           places == PlacesOf(s, b)
<1>1. PICK f : Listed(mine, f, s, b, Len(s))
  BY MovesListed
<1>2. Places(s, b, Len(s)) = places
  BY DEF Places, PlacesOf
<1>3. places \subseteq Int
  BY DEF PlacesOf
<1> HIDE DEF mine, places
<1>4. n \in Nat
  BY <1>1 DEF Listed
<1>5. /\ f \in [1 .. n -> places]
      /\ \A k, l \in 1 .. n : k < l => f[k] < f[l]
      /\ \A i \in places : \E k \in 1 .. n : f[k] = i
  BY <1>1, <1>2 DEF Listed
<1> HIDE DEF n
<1>6. ASSUME NEW k \in 1 .. n, NEW l \in 1 .. n, f[k] = f[l]
      PROVE  k = l
  <2>1. f[k] \in Int /\ f[l] \in Int
    BY <1>3, <1>5
  <2>2. ~(k < l) /\ ~(l < k)
    BY <1>5, <1>6, <2>1
  <2>3. QED
    BY <1>4, <2>2
<1>7. f \in Bijection(1 .. n, places)
  BY <1>5, <1>6 DEF Bijection, Injection, Surjection, IsInjective
<1>8. IsFiniteSet(1 .. n) /\ Cardinality(1 .. n) = n
  BY <1>4, FS_Interval
<1>9. Cardinality(places) = n
  BY <1>7, <1>8, FS_Bijection DEF ExistsBijection
<1>10. QED
  BY <1>9 DEF n, mine, places

\* The lines of a purchase are finitely many.
LEMMA LinesAreNat ==
  ASSUME NEW p \in Purchases, NEW b
  PROVE  LinesOn(p, b) \in Nat
<1>1. Items[p] \in Seq(Need)
  BY ItemsAssumption
<1>2. DOMAIN Items[p] = 1 .. Len(Items[p]) /\ Len(Items[p]) \in Nat
  BY <1>1
<1>3. IsFiniteSet(DOMAIN Items[p])
  BY <1>2, FS_Interval
<1>4. IsFiniteSet({i \in DOMAIN Items[p] : Items[p][i].balance = b})
  BY <1>3, FS_Subset
<1>5. QED
  BY <1>4, FS_CardinalityType DEF LinesOn

\* Worker w commits a receive of purchase p.
Books(w, p) == Commit(w) /\ req[w].op = "receive" /\ req[w].purchase = p

\* A receive that commits books each line of its purchase once, and no other
\* step books any.
LEMMA BookedNext ==
  ASSUME Types, ItemsExist, LinesRead, [Next]_vars, NEW p \in Purchases, NEW b \in Balances
  PROVE  /\ BookedIn(kardex[b], p) \in Nat /\ LinesOn(p, b) \in Nat
         /\ (\A w \in Workers : ~Books(w, p)) =>
              BookedIn(kardex'[b], p) = BookedIn(kardex[b], p)
         /\ (\E w \in Workers : Books(w, p)) =>
              BookedIn(kardex'[b], p) = BookedIn(kardex[b], p) + LinesOn(p, b)
<1> DEFINE now == BookedIn(kardex[b], p)
           then == BookedIn(kardex'[b], p)
           lines == LinesOn(p, b)
<1>a. kardex[b] \in Seq(Movement) /\ p # NoPurchase
  BY NoPurchaseAssumption DEF Types, TypeOK
<1>b. now \in Nat
  BY <1>a, BookedIsNat
<1>c. lines \in Nat
  BY LinesAreNat
<1>1. ASSUME NEW w \in Workers, Commit(w)
      PROVE  then = now + IF p = req[w].purchase THEN Len(MovesOn(req[w].moves, b)) ELSE 0
  <2> DEFINE mine == MovesOn(req[w].moves, b)
             k == kardex[b]
             more == kardex'[b]
  <2> HIDE DEF mine
  <2>1. /\ mine \in Seq(Move)
        /\ more \in Seq(Movement)
        /\ Len(more) = Len(k) + Len(mine)
        /\ \A i \in DOMAIN more :
             more[i] = IF i <= Len(k) THEN k[i] ELSE MovementOf(w, mine[i - Len(k)])
    BY <1>1, CommitRows DEF mine
  <2>2. Len(mine) \in Nat /\ Len(k) \in Nat /\ DOMAIN more = 1 .. Len(k) + Len(mine)
    BY <1>a, <2>1
  <2>3. \A i \in 1 .. Len(k) : more[i] = k[i]
    BY <2>1, <2>2
  <2>0. k \in Seq(Movement)
    BY <1>a
  <2> HIDE DEF k, more
  <2>4. ASSUME NEW i \in Len(k) + 1 .. Len(k) + Len(mine)
        PROVE  more[i].purchase = req[w].purchase
    <3>1. i \in DOMAIN more /\ ~(i <= Len(k))
      BY <2>2
    <3>2. more[i] = MovementOf(w, mine[i - Len(k)])
      BY <2>1, <3>1
    <3>3. QED
      BY <3>2 DEF MovementOf
  <2>5. BookedIn(more, p) = BookedIn(k, p) + IF p = req[w].purchase THEN Len(mine) ELSE 0
    <3>1. Appended(k, more, Len(mine), req[w].purchase)
      BY <2>1, <2>3, <2>4 DEF Appended
    <3>2. QED
      BY <2>0, <2>1, <2>2, <3>1, BookedMore
  <2>6. QED
    BY <2>5 DEF k, more, mine
<1>2. ASSUME NEW w \in Workers, Books(w, p)
      PROVE  then = now + lines
  <2> DEFINE moves == req[w].moves
  <2>1. moves \in Seq(Move) /\ Shape(req[w]) /\ req[w].op = "receive" /\ req[w].step = "commit"
        /\ req[w].purchase = p
    BY <1>2 DEF Books, Commit, Types, TypeOK, RequestShape, Request
  <2>2. Len(req[w].todo) = 0 /\ Len(moves) \in Nat
    BY <2>1 DEF Shape, ReceiveShape
  <2>8. Receiving(req[w])
    BY <2>1 DEF Receiving
  <2>3. Len(moves) = Len(Items[p])
        /\ \A i \in 1 .. Len(moves) : moves[i].balance = Items[p][i].balance
    <3>1. Len(moves) + Len(req[w].todo) = Len(Items[p])
      BY <2>1, <2>8 DEF LinesRead
    <3>2. \A i \in 1 .. Len(moves) : moves[i].balance = Items[p][i].balance
      BY <2>1, <2>8 DEF LinesRead
    <3>3. QED
      BY <2>2, <3>1, <3>2
  <2>4. Items[p] \in Seq(Need)
    BY ItemsAssumption
  <2> HIDE DEF moves
  <2>5. PlacesOf(moves, b) = {i \in DOMAIN Items[p] : Items[p][i].balance = b}
    BY <2>1, <2>3, <2>4 DEF PlacesOf
  <2>6. Len(MovesOn(moves, b)) = lines
    BY <2>1, <2>5, MovesCounted DEF LinesOn
  <2>7. QED
    BY <1>1, <1>2, <2>1, <2>6 DEF moves, Books
<1>3. ASSUME NEW w \in Workers, Commit(w), ~Books(w, p)
      PROVE  then = now
  <2>1. req[w] \in Request /\ Shape(req[w]) /\ req[w].op \in {"consume", "adjust", "receive"}
    BY <1>3 DEF Commit, Types, TypeOK, RequestShape
  <2>2. req[w].purchase # p
    BY <1>3, <1>a, <2>1 DEF Books, Shape, ConsumeShape, AdjustShape
  <2> HIDE DEF now, then
  <2>3. QED
    BY <1>1, <1>3, <1>b, <2>2
<1>4. ASSUME NEW c \in Balances, NEW n \in Initial, NEW negative \in BOOLEAN,
             CreateItem(c, n, negative)
      PROVE  then = now
  <2>1. /\ \A d \in Balances \ {c} : kardex'[d] = kardex[d]
        /\ \/ kardex'[c] = <<>>
           \/ kardex'[c] = <<[before |-> 0, after |-> n, purchase |-> NoPurchase]>>
    BY <1>4, CreatedRows
  <2>2. kardex[c] = <<>>
    BY <1>4 DEF CreateItem, ItemsExist
  <2>3. CASE b # c
    BY <2>1, <2>3
  <2>4. CASE b = c
    <3>1. {i \in DOMAIN kardex[b] : kardex[b][i].purchase = p} = {}
      BY <2>2, <2>4
    <3>2. {i \in DOMAIN kardex'[b] : kardex'[b][i].purchase = p} = {}
      BY <1>a, <2>1, <2>4
    <3>3. QED
      BY <3>1, <3>2 DEF BookedIn
  <2>5. QED
    BY <2>3, <2>4
<1>5. ASSUME kardex' = kardex
      PROVE  then = now
  BY <1>5
<1> HIDE DEF now, then
<1>6. CASE \E w \in Workers : Commit(w)
  <2>1. PICK w \in Workers : Commit(w)
    BY <1>6
  <2>2. \A v \in Workers : Books(v, p) => then = now + lines
    BY <1>2
  <2>3. (\A v \in Workers : ~Books(v, p)) => then = now
    BY <1>3, <2>1
  <2>4. QED
    BY <1>b, <1>c, <2>2, <2>3 DEF now, then
<1>7. CASE ~ \E w \in Workers : Commit(w)
  <2>1. \A w \in Workers : ~Books(w, p)
    BY <1>7 DEF Books
  <2>2. then = now
    BY <1>4, <1>5, <1>7, StepKinds DEF Quiet, ConsumeRead, ReceiveRead, AdjustRead, UpdateItem,
       rows
  <2>3. QED
    BY <1>b, <1>c, <2>1, <2>2 DEF now, then
<1>8. QED
  BY <1>6, <1>7

-----------------------------------------------------------------------------
(* Receiving is all or nothing, and once *)

\* A receive reads the lines of its purchase from the first to the last.
LEMMA NextLines == Types /\ LinesRead /\ [Next]_vars => LinesRead'
<1> SUFFICES ASSUME Types, LinesRead, [Next]_vars, NEW w \in Workers, Receiving(req'[w])
             PROVE  LET lines == Items[req'[w].purchase]
                        read  == Len(req'[w].moves)
                    IN
                    /\ read + Len(req'[w].todo) = Len(lines)
                    /\ \A i \in 1 .. read : req'[w].moves[i].balance = lines[i].balance
                    /\ \A i \in DOMAIN req'[w].todo : req'[w].todo[i] = lines[read + i]
  BY DEF LinesRead
<1>a. /\ req \in [Workers -> Request] /\ req[w] \in Request /\ Shape(req[w])
      /\ req[w].todo \in Seq(Need) /\ req[w].moves \in Seq(Move)
  BY DEF Types, TypeOK, RequestShape, Request
<1> DEFINE lines == Items[req[w].purchase]
           read == Len(req[w].moves)
           todo == req[w].todo
<1>b. Receiving(req[w]) =>
        /\ read + Len(todo) = Len(lines)
        /\ \A i \in 1 .. read : req[w].moves[i].balance = lines[i].balance
        /\ \A i \in DOMAIN todo : todo[i] = lines[read + i]
  BY DEF LinesRead
<1>1. CASE /\ Receiving(req[w])
           /\ req'[w].purchase = req[w].purchase
           /\ req'[w].todo = req[w].todo
           /\ req'[w].moves = req[w].moves
  BY <1>1, <1>b
<1>2. CASE ReceiveBegin(w)
  <2>1. req[w].purchase \in Purchases /\ req[w].moves = <<>>
    BY <1>2, <1>a DEF ReceiveBegin, Shape, ReceiveShape
  <2>2. req'[w].todo = lines /\ req'[w].moves = <<>> /\ req'[w].purchase = req[w].purchase
    BY <1>2, <1>a, <2>1 DEF ReceiveBegin, Request
  <2>3. lines \in Seq(Need)
    BY <2>1, ItemsAssumption
  <2> HIDE DEF lines
  <2>4. Len(req'[w].moves) = 0 /\ Len(req'[w].todo) = Len(lines) /\ Len(lines) \in Nat
    BY <2>2, <2>3
  <2>5. \A i \in DOMAIN req'[w].todo : req'[w].todo[i] = lines[0 + i]
    BY <2>2, <2>3
  <2>6. QED
    BY <2>2, <2>4, <2>5 DEF lines
<1>3. CASE ReceiveRead(w)
  <2>1. req[w].op = "receive" /\ todo # <<>> /\ Receiving(req[w])
    BY <1>3, ReceiveSteps DEF ReceiveRead, Receiving
  <2> DEFINE b == NextRead(w)
             move == [balance |-> b, before |-> StockAfter(w)[b],
                      after |-> StockAfter(w)[b] + Head(todo).quantity, allow |-> FALSE]
  <2>2. b \in Balances /\ Head(todo).quantity \in Int /\ StockAfter(w)[b] \in Int
    BY <2>1, NeedTypes, RowsAfter
  <2>3. move \in Move /\ move.balance = b
    BY <2>2 DEF Move
  <2>4. /\ req'[w].moves = Append(req[w].moves, move) /\ req'[w].todo = Tail(todo)
        /\ req'[w].purchase = req[w].purchase
    BY <1>3, <1>a, <2>1 DEF ReceiveRead, NextRead, rows, Request
  <2>5. b = Head(todo).balance
    BY DEF NextRead
  <2> HIDE DEF move, b
  <2>6. /\ Len(req'[w].moves) = read + 1 /\ read \in Nat
        /\ \A i \in 1 .. read : req'[w].moves[i] = req[w].moves[i]
        /\ req'[w].moves[read + 1] = move
    BY <1>a, <2>3, <2>4
  <2>7. /\ Len(todo) \in Nat \ {0} /\ Head(todo) = todo[1]
        /\ DOMAIN todo = 1 .. Len(todo)
        /\ Len(Tail(todo)) = Len(todo) - 1 /\ DOMAIN Tail(todo) = 1 .. Len(todo) - 1
        /\ \A i \in 1 .. Len(todo) - 1 : Tail(todo)[i] = todo[i + 1]
    BY <1>a, <2>1
  <2> HIDE DEF todo, read, lines
  <2>8. /\ read + Len(todo) = Len(lines)
        /\ \A i \in 1 .. read : req[w].moves[i].balance = lines[i].balance
        /\ \A i \in 1 .. Len(todo) : todo[i] = lines[read + i]
    BY <1>b, <2>1, <2>7
  <2>9. move.balance = lines[read + 1].balance
    BY <2>3, <2>5, <2>7, <2>8
  <2>10. ASSUME NEW i \in 1 .. read + 1
         PROVE  req'[w].moves[i].balance = lines[i].balance
    <3>1. CASE i \in 1 .. read
      BY <2>6, <2>8, <3>1
    <3>2. CASE i = read + 1
      BY <2>6, <2>9, <3>2
    <3>3. QED
      BY <2>6, <3>1, <3>2
  <2>11. ASSUME NEW i \in 1 .. Len(todo) - 1
         PROVE  Tail(todo)[i] = lines[read + 1 + i]
    <3>1. i + 1 \in 1 .. Len(todo) /\ read + (i + 1) = read + 1 + i
      BY <2>6, <2>7
    <3>2. QED
      BY <2>7, <2>8, <3>1
  <2>12. read + 1 + (Len(todo) - 1) = Len(lines)
    <3>1. read \in Nat /\ Len(todo) \in Nat
      BY <2>6, <2>7
    <3>2. read + Len(todo) = Len(lines)
      BY <2>8
    <3>3. QED
      BY <3>1, <3>2
  <2>13. QED
    BY <2>4, <2>6, <2>7, <2>10, <2>11, <2>12 DEF lines
<1>4. QED
  BY <1>1, <1>2, <1>3, ReceivingSteps

\* A purchase is only worked on by two requests if it is marked raced, and its
\* status only changes under a request that works on it.
LEMMA NextPurchaseAlone == Types /\ PurchaseAlone /\ [Next]_vars => PurchaseAlone'
<1> SUFFICES ASSUME Types, PurchaseAlone, [Next]_vars
             PROVE  PurchaseAlone'
  OBVIOUS
<1>a. /\ req \in [Workers -> Request] /\ NoPurchase \notin Purchases
      /\ purchase \in [Purchases -> {"none", "DRAFT", "RECEIVED", "CANCELLED"}]
      /\ raced \subseteq raced'
  BY NoPurchaseAssumption, PurchaseSteps DEF Types, TypeOK
<1> DEFINE Keeps == \A w \in Workers : req'[w].purchase \in {req[w].purchase, NoPurchase}
<1>1. CASE Keeps /\ purchase' = purchase
  BY <1>a, <1>1 DEF PurchaseAlone
<1>2. ASSUME NEW p \in Purchases, CreatePurchase(p)
      PROVE  PurchaseAlone'
  <2>1. req' = req /\ raced' = raced /\ purchase' = [purchase EXCEPT ![p] = "DRAFT"]
        /\ purchase[p] = "none"
    BY <1>2 DEF CreatePurchase
  <2>2. \A w \in Workers : req[w].purchase # p
    BY <2>1 DEF PurchaseAlone
  <2>3. QED
    BY <1>a, <2>1, <2>2 DEF PurchaseAlone
<1>3. ASSUME NEW w \in Workers, CancelCommit(w) \/ (Commit(w) /\ req[w].op = "receive")
      PROVE  PurchaseAlone'
  <2> DEFINE p == req[w].purchase
  <2>1. p \in Purchases
    BY <1>3 DEF CancelCommit, Types, RequestShape, Shape, CancelShape, ReceiveShape
  <2>2. \A v \in Workers : req'[v] = IF v = w THEN Idle ELSE req[v]
    BY <1>a, <1>3 DEF CancelCommit, Commit, Answered
  <2>3. /\ purchase'[p] \in {"RECEIVED", "CANCELLED"} /\ raced' = raced
        /\ \A q \in Purchases \ {p} : purchase'[q] = purchase[q]
    BY <1>a, <1>3, <2>1 DEF CancelCommit, Commit
  <2>4. Idle.purchase = NoPurchase
    BY DEF Idle
  <2> HIDE DEF p
  <2>5. ASSUME NEW v \in Workers, req'[v].purchase \in Purchases
        PROVE  /\ v # w /\ req'[v] = req[v]
               /\ req[v].purchase = p => p \in raced
    BY <1>a, <2>1, <2>2, <2>4, <2>5 DEF PurchaseAlone, p
  <2>6. QED
    BY <1>a, <2>1, <2>2, <2>3, <2>4, <2>5 DEF PurchaseAlone
<1>4. ASSUME NEW w \in Workers, NEW p \in Purchases, ReceiveCheck(w, p) \/ CancelCheck(w, p)
      PROVE  PurchaseAlone'
  <2>1. /\ req'[w].purchase = p
        /\ \A v \in Workers \ {w} : req'[v] = req[v]
    BY <1>a, <1>4 DEF ReceiveCheck, CancelCheck, Request
  <2>2. purchase' = purchase /\ purchase[p] = "DRAFT"
    BY <1>4 DEF ReceiveCheck, CancelCheck, rows
  <2>3. raced' = raced \cup IF \E v \in Workers \ {w} : req[v].purchase = p THEN {p} ELSE {}
    BY <1>4 DEF ReceiveCheck, CancelCheck, Race
  <2>4. (\E v \in Workers \ {w} : req[v].purchase = p) => p \in raced'
    BY <2>3
  <2>5. ASSUME NEW v \in Workers, req'[v].purchase \in Purchases
        PROVE  /\ purchase'[req'[v].purchase] # "none"
               /\ req'[v].purchase \notin raced' =>
                    /\ purchase'[req'[v].purchase] = "DRAFT"
                    /\ \A u \in Workers \ {v} : req'[u].purchase # req'[v].purchase
    <3>1. CASE v = w
      BY <2>1, <2>2, <2>4, <3>1
    <3>2. CASE v # w
      <4>1. req'[v] = req[v] /\ (req[v].purchase = p => p \in raced')
        BY <2>1, <2>4, <3>2
      <4>2. purchase[req[v].purchase] # "none"
            /\ (req[v].purchase \notin raced =>
                  /\ purchase[req[v].purchase] = "DRAFT"
                  /\ \A u \in Workers \ {v} : req[u].purchase # req[v].purchase)
        BY <2>5, <4>1 DEF PurchaseAlone
      <4>3. QED
        BY <1>a, <2>1, <2>2, <4>1, <4>2
    <3>3. QED
      BY <3>1, <3>2
  <2>6. QED
    BY <2>5 DEF PurchaseAlone
<1>5. QED
  <2>1. CASE \E p \in Purchases : CreatePurchase(p)
    BY <1>2, <2>1
  <2>2. CASE \E w \in Workers : CancelCommit(w) \/ (Commit(w) /\ req[w].op = "receive")
    BY <1>3, <2>2
  <2>3. CASE \E w \in Workers, p \in Purchases : ReceiveCheck(w, p) \/ CancelCheck(w, p)
    BY <1>4, <2>3
  <2>4. CASE Keeps /\ purchase' = purchase
    BY <1>1, <2>4
  <2> HIDE DEF Keeps
  <2>5. \/ purchase' = purchase
        \/ \E p \in Purchases : CreatePurchase(p)
        \/ \E w \in Workers : CancelCommit(w) \/ (Commit(w) /\ req[w].op = "receive")
    BY PurchaseSteps
  <2>6. Keeps \/ \E w \in Workers, p \in Purchases : ReceiveCheck(w, p) \/ CancelCheck(w, p)
    BY PurchaseSteps DEF Keeps
  <2>7. QED
    BY <2>1, <2>2, <2>3, <2>4, <2>5, <2>6

\* A status is only left or reached in these ways.
LEMMA StatusSteps ==
  ASSUME Types, PurchaseAlone, [Next]_vars, NEW p \in Purchases
  PROVE  /\ (\E w \in Workers : Books(w, p)) =>
              purchase'[p] = "RECEIVED" /\ (p \notin raced => purchase[p] = "DRAFT")
         /\ (\A w \in Workers : ~Books(w, p)) =>
              \/ purchase'[p] = purchase[p]
              \/ purchase[p] = "none" /\ purchase'[p] = "DRAFT"
              \/ purchase'[p] = "CANCELLED" /\ (p \notin raced => purchase[p] = "DRAFT")
         /\ raced \subseteq raced'
         /\ purchase[p] \in {"none", "DRAFT", "RECEIVED", "CANCELLED"}
<1> DEFINE Ends == /\ (\E w \in Workers : Books(w, p)) =>
                        purchase'[p] = "RECEIVED" /\ (p \notin raced => purchase[p] = "DRAFT")
                   /\ (\A w \in Workers : ~Books(w, p)) =>
                        \/ purchase'[p] = purchase[p]
                        \/ purchase[p] = "none" /\ purchase'[p] = "DRAFT"
                        \/ purchase'[p] = "CANCELLED" /\ (p \notin raced => purchase[p] = "DRAFT")
<1>a. /\ req \in [Workers -> Request]
      /\ purchase \in [Purchases -> {"none", "DRAFT", "RECEIVED", "CANCELLED"}]
  BY DEF Types, TypeOK
<1>1. ASSUME NEW w \in Workers, Books(w, p)
      PROVE  purchase'[p] = "RECEIVED" /\ (p \notin raced => purchase[p] = "DRAFT")
  BY <1>1, <1>a DEF Books, Commit, PurchaseAlone
<1>2. ASSUME NEW q \in Purchases, CreatePurchase(q)
      PROVE  purchase'[p] = purchase[p] \/ (purchase[p] = "none" /\ purchase'[p] = "DRAFT")
  BY <1>2, <1>a DEF CreatePurchase
<1>3. ASSUME NEW w \in Workers, CancelCommit(w)
      PROVE  \/ purchase'[p] = purchase[p]
             \/ purchase'[p] = "CANCELLED" /\ (p \notin raced => purchase[p] = "DRAFT")
  <2>1. purchase' = [purchase EXCEPT ![req[w].purchase] = "CANCELLED"]
    BY <1>3 DEF CancelCommit
  <2>2. CASE req[w].purchase = p
    BY <1>a, <2>1, <2>2 DEF PurchaseAlone
  <2>3. CASE req[w].purchase # p
    BY <1>a, <2>1, <2>3
  <2>4. QED
    BY <2>2, <2>3
<1>4. ASSUME NEW w \in Workers, Commit(w), req[w].op = "receive", ~Books(w, p)
      PROVE  purchase'[p] = purchase[p]
  BY <1>4, <1>a DEF Books, Commit
<1>5. raced \subseteq raced'
  BY PurchaseSteps
<1>6. \/ purchase' = purchase
      \/ \E q \in Purchases : CreatePurchase(q)
      \/ \E w \in Workers : CancelCommit(w)
      \/ \E w \in Workers : Commit(w) /\ req[w].op = "receive"
  BY PurchaseSteps
<1>7. QED
  BY <1>a, <1>1, <1>2, <1>3, <1>4, <1>5, <1>6

\* Who receives a purchase: a request that begins to finds it a draft, and one
\* that books it does so no longer.
LEMMA ReceiverSteps ==
  ASSUME Types, [Next]_vars, NEW p \in Purchases
  PROVE  /\ Cardinality(Receivers(p)) \in Nat /\ Cardinality(Receivers(p)') \in Nat
         /\ Cardinality(Receivers(p)') <= Cardinality(Workers)
         /\ (\E w \in Workers : Books(w, p)) =>
              Cardinality(Receivers(p)') <= Cardinality(Receivers(p)) - 1
         /\ \/ Cardinality(Receivers(p)') <= Cardinality(Receivers(p))
            \/ purchase'[p] = "DRAFT"
<1>a. req \in [Workers -> Request]
  BY DEF Types, TypeOK
<1>1. /\ IsFiniteSet(Receivers(p)) /\ IsFiniteSet(Receivers(p)')
      /\ Cardinality(Receivers(p)') <= Cardinality(Workers)
  BY WorkersAssumption, FS_Subset DEF Receivers
<1>2. Cardinality(Receivers(p)) \in Nat /\ Cardinality(Receivers(p)') \in Nat
  BY <1>1, FS_CardinalityType
<1>3. ASSUME NEW w \in Receivers(p)', w \notin Receivers(p)
      PROVE  ReceiveBegin(w) /\ purchase'[p] = "DRAFT"
  <2>1. w \in Workers /\ Receiving(req'[w]) /\ req'[w].purchase = p
    BY DEF Receivers, Receiving
  <2>2. ~(Receiving(req[w]) /\ req[w].purchase = p)
    BY <1>3, <2>1 DEF Receivers
  <2>3. ASSUME ReceiveRead(w)
        PROVE  FALSE
    <3>1. Receiving(req[w])
      BY <2>1, <2>3, ReceiveSteps DEF ReceiveRead, Receiving
    <3>2. req'[w].purchase = req[w].purchase
      BY <1>a, <2>1, <2>3 DEF ReceiveRead, Request
    <3>3. QED
      BY <2>1, <2>2, <3>1, <3>2
  <2>4. ReceiveBegin(w)
    BY <2>1, <2>2, <2>3, ReceivingSteps
  <2>5. purchase[req[w].purchase] = "DRAFT" /\ purchase' = purchase
    BY <2>4 DEF ReceiveBegin, rows
  <2>6. req'[w].purchase = req[w].purchase
    BY <1>a, <2>1, <2>4 DEF ReceiveBegin, Request
  <2>7. QED
    BY <2>1, <2>4, <2>5, <2>6
<1>4. CASE Receivers(p)' \subseteq Receivers(p)
  <2>1. Cardinality(Receivers(p)') <= Cardinality(Receivers(p))
    BY <1>1, <1>4, FS_Subset
  <2>2. ASSUME NEW w \in Workers, Books(w, p)
        PROVE  Cardinality(Receivers(p)') <= Cardinality(Receivers(p)) - 1
    <3>1. w \in Receivers(p)
      BY <2>2 DEF Books, Commit, Receivers, Receiving
    <3>2. w \notin Receivers(p)'
      <4>1. req'[w] = Idle
        BY <1>a, <2>2 DEF Books, Commit, Answered
      <4>2. QED
        BY <4>1 DEF Receivers, Receiving, Idle
    <3>3. Receivers(p)' \subseteq Receivers(p) \ {w}
      BY <1>4, <3>2
    <3>4. IsFiniteSet(Receivers(p) \ {w})
          /\ Cardinality(Receivers(p) \ {w}) = Cardinality(Receivers(p)) - 1
      BY <1>1, <3>1, FS_RemoveElement
    <3>5. QED
      BY <3>3, <3>4, FS_Subset
  <2>3. QED
    BY <1>1, <1>2, <2>1, <2>2
<1>5. CASE ~(Receivers(p)' \subseteq Receivers(p))
  <2>1. PICK w \in Receivers(p)' : w \notin Receivers(p)
    BY <1>5
  <2>2. ReceiveBegin(w) /\ purchase'[p] = "DRAFT"
    BY <1>3, <2>1
  <2>3. purchase[p] = "DRAFT" /\ purchase' = purchase
    BY <2>2 DEF ReceiveBegin, rows
  <2>4. ~ \E v \in Workers : Books(v, p)
    BY <2>3, <1>a DEF Books, Commit, Types, TypeOK
  <2>5. QED
    BY <1>1, <1>2, <2>2, <2>4
<1>6. QED
  BY <1>4, <1>5

\* A step books the lines of a purchase once more, or not at all.
LEMMA NextLinesBooked ==
  Types /\ ItemsExist /\ LinesRead /\ PurchaseAlone /\ LinesBooked /\ [Next]_vars => LinesBooked'
<1> SUFFICES ASSUME Types, ItemsExist, LinesRead, PurchaseAlone, LinesBooked, [Next]_vars,
                    NEW p \in Purchases
             PROVE  \E times \in 0 .. Cardinality(Workers) : BookedTimes(p, times)'
  BY DEF LinesBooked
<1> DEFINE W == Cardinality(Workers)
           now == Cardinality(Receivers(p))
           then == Cardinality(Receivers(p)')
<1>a. W \in Nat
  BY WorkersAssumption, FS_CardinalityType
<1>b. /\ now \in Nat /\ then \in Nat /\ then <= W
      /\ (\E w \in Workers : Books(w, p)) => then <= now - 1
      /\ then <= now \/ purchase'[p] = "DRAFT"
  BY ReceiverSteps
<1>1. PICK times \in 0 .. W : BookedTimes(p, times)
  BY DEF LinesBooked
<1>2. /\ \A b \in Balances : BookedIn(kardex[b], p) = times * LinesOn(p, b)
      /\ purchase[p] \in {"none", "DRAFT"} => times = 0
      /\ p \notin raced => times = IF purchase[p] = "RECEIVED" THEN 1 ELSE 0
      /\ times + now <= W
  BY <1>1 DEF BookedTimes, Booked, BookedIn
<1>3. ASSUME NEW n \in 0 .. W,
             \A b \in Balances : BookedIn(kardex'[b], p) = n * LinesOn(p, b),
             purchase'[p] \in {"none", "DRAFT"} => n = 0,
             p \notin raced' => n = IF purchase'[p] = "RECEIVED" THEN 1 ELSE 0,
             n + then <= W
      PROVE  BookedTimes(p, n)'
  BY <1>3 DEF BookedTimes, Booked, BookedIn, LinesOn
<1> HIDE DEF now, then, W
<1>4. CASE \E w \in Workers : Books(w, p)
  <2>1. purchase'[p] = "RECEIVED" /\ (p \notin raced => purchase[p] = "DRAFT")
        /\ raced \subseteq raced'
    BY <1>4, StatusSteps
  <2>2. ASSUME NEW b \in Balances
        PROVE  BookedIn(kardex'[b], p) = (times + 1) * LinesOn(p, b)
    <3>1. /\ BookedIn(kardex'[b], p) = BookedIn(kardex[b], p) + LinesOn(p, b)
          /\ LinesOn(p, b) \in Nat
      BY <1>4, BookedNext
    <3>2. (times + 1) * LinesOn(p, b) = times * LinesOn(p, b) + LinesOn(p, b)
      BY <1>1, <3>1
    <3>3. QED
      BY <1>2, <3>1, <3>2
  <2>3. times + 1 \in 0 .. W /\ times + 1 + then <= W
    BY <1>a, <1>b, <1>1, <1>2, <1>4
  <2>4. p \notin raced' => times = 0
    BY <1>2, <2>1
  <2>5. BookedTimes(p, times + 1)'
    BY <1>3, <2>1, <2>2, <2>3, <2>4
  <2>6. QED
    BY <2>3, <2>5 DEF W
<1>5. CASE \A w \in Workers : ~Books(w, p)
  <2>1. /\ \/ purchase'[p] = purchase[p]
           \/ purchase[p] = "none" /\ purchase'[p] = "DRAFT"
           \/ purchase'[p] = "CANCELLED" /\ (p \notin raced => purchase[p] = "DRAFT")
        /\ raced \subseteq raced'
    BY <1>5, StatusSteps
  <2>2. \A b \in Balances : BookedIn(kardex'[b], p) = times * LinesOn(p, b)
    BY <1>2, <1>5, BookedNext
  <2>3. /\ purchase'[p] \in {"none", "DRAFT"} => times = 0
        /\ p \notin raced' => times = IF purchase'[p] = "RECEIVED" THEN 1 ELSE 0
    BY <1>2, <2>1
  <2>4. times + then <= W
    BY <1>a, <1>b, <1>1, <1>2, <2>3
  <2>5. BookedTimes(p, times)'
    BY <1>1, <1>3, <2>2, <2>3, <2>4
  <2>6. QED
    BY <1>1, <2>5 DEF W
<1>6. QED
  BY <1>4, <1>5

\* No purchase is created, read or booked before the first request.
LEMMA InitBooked == Init => BookedInv
<1> SUFFICES ASSUME Init
             PROVE  BookedInv
  OBVIOUS
<1>1. \A w \in Workers : req[w] = Idle
  BY DEF Init
<1>2. ItemsExist
  BY InitUnbroken DEF UnbrokenInv
<1>3. LinesRead
  BY <1>1 DEF LinesRead, Receiving, Idle
<1>4. PurchaseAlone
  BY <1>1, NoPurchaseAssumption DEF PurchaseAlone, Idle
<1>5. ASSUME NEW p \in Purchases
      PROVE  0 \in 0 .. Cardinality(Workers) /\ BookedTimes(p, 0)
  <2>1. Cardinality(Workers) \in Nat
    BY WorkersAssumption, FS_CardinalityType
  <2>2. Receivers(p) = {}
    BY <1>1 DEF Receivers, Receiving, Idle
  <2>3. ASSUME NEW b \in Balances
        PROVE  Booked(p, b) = 0 * LinesOn(p, b)
    <3>1. {i \in DOMAIN kardex[b] : kardex[b][i].purchase = p} = {}
      BY DEF Init
    <3>2. Booked(p, b) = 0
      BY <3>1, FS_EmptySet DEF Booked
    <3>3. LinesOn(p, b) \in Nat
      BY LinesAreNat
    <3>4. QED
      BY <3>2, <3>3
  <2>4. purchase[p] = "none" /\ Cardinality(Receivers(p)) = 0
    BY <2>2, FS_EmptySet DEF Init
  <2>5. QED
    BY <2>1, <2>3, <2>4 DEF BookedTimes
<1>6. QED
  BY <1>2, <1>3, <1>4, <1>5, InitTypes DEF BookedInv, LinesBooked

\* Every step keeps the inductive invariant about purchases.
LEMMA NextBooked == BookedInv /\ [Next]_vars => BookedInv'
  BY NextTypes, NextItems, NextLines, NextPurchaseAlone, NextLinesBooked DEF BookedInv

\* Receiving is all or nothing, however often two requests receive the same
\* purchase and wherever a transaction fails: the lines of a purchase are all
\* booked equally often.
THEOREM LinesBookedTogether == Spec => []ReceivingAtomic
<1>1. BookedInv => ReceivingAtomic
  BY DEF BookedInv, LinesBooked, BookedTimes, ReceivingAtomic
<1>2. QED
  BY <1>1, InitBooked, NextBooked, PTL DEF Spec

\* A purchase that no two requests worked on at once has its lines in the stock
\* exactly once when it is RECEIVED, and not at all in every other status.
THEOREM BookedWhenReceived == Spec => []ReceivedOnce
<1>1. ASSUME BookedInv, NEW p \in Purchases \ raced, NEW b \in Balances
      PROVE  Booked(p, b) = IF purchase[p] = "RECEIVED" THEN LinesOn(p, b) ELSE 0
  <2>1. PICK times \in 0 .. Cardinality(Workers) : BookedTimes(p, times)
    BY <1>1 DEF BookedInv, LinesBooked
  <2>2. /\ Booked(p, b) = times * LinesOn(p, b)
        /\ times = IF purchase[p] = "RECEIVED" THEN 1 ELSE 0
    BY <2>1 DEF BookedTimes
  <2>3. LinesOn(p, b) \in Nat
    BY LinesAreNat
  <2>4. QED
    BY <2>2, <2>3
<1>2. BookedInv => ReceivedOnce
  BY <1>1 DEF ReceivedOnce
<1>3. QED
  BY <1>2, InitBooked, NextBooked, PTL DEF Spec

\* A received or cancelled purchase never becomes a draft again, and unless two
\* requests worked on it at once it keeps its status for good.
THEOREM FinalStatus == Spec => PurchaseFinal
<1>1. ASSUME BookedInv, [Next]_vars
      PROVE  [FinalStep]_vars
  <2>1. ASSUME NEW p \in Purchases, purchase[p] \in {"RECEIVED", "CANCELLED"}
        PROVE  /\ purchase'[p] \in {"RECEIVED", "CANCELLED"}
               /\ p \notin raced' => purchase'[p] = purchase[p]
    BY <1>1, <2>1, StatusSteps DEF BookedInv
  <2>2. QED
    BY <2>1 DEF FinalStep
<1>2. QED
  BY <1>1, InitBooked, NextBooked, PTL DEF Spec, PurchaseFinal

=============================================================================
