------------------------ MODULE CashRegister_proofs ------------------------
(***************************************************************************)
(* Theorems about CashRegister, for any number of workers, sessions and    *)
(* sales.                                                                  *)
(***************************************************************************)
EXTENDS CashRegister, SumTheorems

-----------------------------------------------------------------------------
(* The inductive invariant *)

\* What the fields of a request hold, by the operation it serves.
RequestShape ==
  \A w \in Workers :
    LET r == req[w] IN
    /\ r.op = "idle" => r.session = NoSession /\ r.sale = NoSale
    /\ r.op = "open" => r.session = NoSession /\ r.sale = NoSale /\ r.amount \in Nat
    /\ r.op = "register" => r.session \in Sessions /\ r.sale = NoSale
    /\ r.op = "close" => r.session \in Sessions /\ r.sale = NoSale
    /\ r.op = "charge" => r.sale \in Sales /\ r.amount = Due[r.sale]
    /\ r.op = "charge" /\ r.step = "find" => r.session = NoSession
    /\ r.op = "charge" /\ r.step = "commit" => r.session \in Sessions

\* A request only works on a session that exists, nothing is written to a
\* closing before the session is closed, and no overlap precedes the session.
SessionsExist ==
  /\ \A w \in Workers : req[w].session \in Sessions => status[req[w].session] # "none"
  /\ \A s \in Sessions : status[s] # "CLOSED" => closing[s] = NoClosing
  /\ \A s \in Sessions : status[s] = "none" => s \notin raced

\* A close in flight is the only request on its session, unless marked raced.
CloseAlone ==
  \A w, v \in Workers :
    w # v /\ req[w].op = "close" /\ req[v].session = req[w].session
      => req[w].session \in raced

\* The sum an unraced close has read is still the sum of the movements.
CloseCurrent ==
  \A w \in Workers :
    req[w].op = "close" /\ req[w].step = "commit" /\ req[w].session \notin raced
      => req[w].amount = booked[req[w].session]

\* No request is left on a session that was closed without an overlap.
ClosedQuiet ==
  \A s \in Sessions :
    status[s] = "CLOSED" /\ s \notin raced => \A w \in Workers : req[w].session # s

IInv ==
  /\ TypeOK
  /\ RequestShape
  /\ SessionsExist
  /\ CloseAlone
  /\ CloseCurrent
  /\ ClosedQuiet
  /\ CloseBalances

-----------------------------------------------------------------------------
(* Types *)

USE DEF Idle, Serving, Request, NoClosing, Others, OnSession, ClosesOn, OnSale

\* Before the first request every row is absent or empty and every worker idle.
LEMMA InitTypes == Init => TypeOK /\ RequestShape
<1> SUFFICES ASSUME Init
             PROVE  TypeOK /\ RequestShape
  OBVIOUS
<1> USE DEF Init
<1>1. \A w \in Workers : req[w] = Idle
  OBVIOUS
<1>2. Idle \in Request
  BY MethodsAssumption
<1>3. req \in [Workers -> Request]
  BY <1>2
<1>4. closing \in [Sessions -> [expected : Int, counted : Int, difference : Int]]
  OBVIOUS
<1>5. saleCash \in [Sessions -> [Sales -> Nat]] /\ paid \in [Sales -> [Methods -> Nat]]
  OBVIOUS
<1>6. sale \in [Sales -> [status : {"DRAFT", "CLOSED"}, session : Sessions \cup {NoSession}]]
  OBVIOUS
<1>7. TypeOK
  BY <1>3, <1>4, <1>5, <1>6 DEF TypeOK
<1>8. RequestShape
  BY <1>1 DEF RequestShape
<1>9. QED
  BY <1>7, <1>8

\* Every statement of a cash handler, and the cash part of a charge, keeps the
\* rows typed and leaves each request with the fields its next step needs.
LEMMA NextTypes ==
  TypeOK /\ RequestShape /\ [Next]_vars => TypeOK' /\ RequestShape'
<1> SUFFICES ASSUME TypeOK, RequestShape, [Next]_vars
             PROVE  TypeOK' /\ RequestShape'
  OBVIOUS
<1> USE NoSessionAssumption, NoSaleAssumption, AmountsAssumption, MethodsAssumption,
        DueAssumption DEF TypeOK, RequestShape, Answered
<1>1. CASE UNCHANGED vars
  BY <1>1 DEF vars
<1>2. ASSUME NEW w \in Workers, NEW opening \in Amounts, OpenCheck(w, opening)
      PROVE  TypeOK' /\ RequestShape'
  <2>1. openRaced' \in BOOLEAN
    BY <1>2, Zenon DEF OpenCheck
  <2>. req' = [req EXCEPT ![w] = Serving("open", "commit", NoSession, NoSale, opening, "CASH")]
    BY <1>2, Zenon DEF OpenCheck
  <2>2. req' \in [Workers -> Request] /\ RequestShape'
    OBVIOUS
  <2>3. UNCHANGED <<status, booked, closing, saleCash, sale, paid, raced, saleRaced>>
    BY <1>2 DEF OpenCheck
  <2>4. QED
    BY <2>1, <2>2, <2>3
<1>3. ASSUME NEW w \in Workers, OpenCommit(w)
      PROVE  TypeOK' /\ RequestShape'
  BY <1>3 DEF OpenCommit
<1>4. ASSUME NEW w \in Workers, OpenRejected(w)
      PROVE  TypeOK' /\ RequestShape'
  BY <1>4 DEF OpenRejected, vars
<1>5. ASSUME NEW w \in Workers, NEW s \in Sessions, NEW type \in InputTypes,
             NEW amount \in Amounts, RegisterCheck(w, s, type, amount)
      PROVE  TypeOK' /\ RequestShape'
  BY <1>5 DEF RegisterCheck, MovementSign, InputTypes
<1>6. ASSUME NEW w \in Workers, RegisterCommit(w)
      PROVE  TypeOK' /\ RequestShape'
  BY <1>6 DEF RegisterCommit
<1>7. ASSUME NEW w \in Workers, NEW s \in Sessions, CloseCheck(w, s)
      PROVE  TypeOK' /\ RequestShape'
  BY <1>7 DEF CloseCheck
<1>8. ASSUME NEW w \in Workers, CloseList(w)
      PROVE  TypeOK' /\ RequestShape'
  BY <1>8 DEF CloseList
<1>9. ASSUME NEW w \in Workers, NEW counted \in Counted, CloseCommit(w, counted)
      PROVE  TypeOK' /\ RequestShape'
  BY <1>9 DEF CloseCommit
<1>10. ASSUME NEW w \in Workers, SessionRejected(w)
      PROVE  TypeOK' /\ RequestShape'
  BY <1>10 DEF SessionRejected, vars
<1>11. ASSUME NEW w \in Workers, NEW x \in Sales, NEW method \in Methods,
             ChargeCheck(w, x, method)
      PROVE  TypeOK' /\ RequestShape'
  BY <1>11 DEF ChargeCheck
<1>12. ASSUME NEW w \in Workers, NEW s \in Sessions, ChargeFind(w, s)
      PROVE  TypeOK' /\ RequestShape'
  BY <1>12, SMTT(30) DEF ChargeFind, OpenSessions
<1>13. ASSUME NEW w \in Workers, ChargeWithoutSession(w)
      PROVE  TypeOK' /\ RequestShape'
  BY <1>13 DEF ChargeWithoutSession
<1>14. ASSUME NEW w \in Workers, ChargeRefused(w)
      PROVE  TypeOK' /\ RequestShape'
  BY <1>14 DEF ChargeRefused
<1>15. ASSUME NEW w \in Workers, ChargeCommit(w)
      PROVE  TypeOK' /\ RequestShape'
  BY <1>15 DEF ChargeCommit, CashPart
<1>16. QED
  BY <1>1, <1>2, <1>3, <1>4, <1>5, <1>6, <1>7, <1>8,
     <1>9, <1>10, <1>11, <1>12, <1>13, <1>14, <1>15 DEF Next

\* Type correctness: the rows the cash service and chargeAccount write have
\* their types in every state, and a request always carries the session, sale
\* and amount that its next statement uses.
THEOREM TypeCorrect == Spec => [](TypeOK /\ RequestShape)
<1>1. QED
  BY InitTypes, NextTypes, PTL DEF Spec

-----------------------------------------------------------------------------
(* Closing a session *)

\* The inductive invariant holds before the first request.
LEMMA InitInv == Init => IInv
<1> SUFFICES ASSUME Init
             PROVE  IInv
  OBVIOUS
<1>1. TypeOK /\ RequestShape
  BY InitTypes
<1>2. \A w \in Workers : req[w] = Idle
  BY DEF Init
<1>3. SessionsExist /\ ClosedQuiet /\ CloseBalances
  BY <1>2, NoSessionAssumption DEF Init, SessionsExist, ClosedQuiet, CloseBalances
<1>4. CloseAlone /\ CloseCurrent
  BY <1>2 DEF CloseAlone, CloseCurrent
<1>5. QED
  BY <1>1, <1>3, <1>4 DEF IInv

\* Every statement of every handler preserves the inductive invariant.
LEMMA NextInv == IInv /\ [Next]_vars => IInv'
<1> SUFFICES ASSUME IInv, [Next]_vars
             PROVE  IInv'
  OBVIOUS
<1> DEFINE Rest == SessionsExist /\ CloseAlone /\ CloseCurrent /\ ClosedQuiet /\ CloseBalances
<1>0. TypeOK' /\ RequestShape'
  BY NextTypes DEF IInv
<1> USE NoSessionAssumption DEF IInv, TypeOK, RequestShape, Answered, SessionsExist,
        CloseAlone, CloseCurrent, ClosedQuiet, CloseBalances, CashExpected
<1>1. CASE UNCHANGED vars
  BY <1>1 DEF vars
<1>2. ASSUME NEW w \in Workers, NEW opening \in Amounts, OpenCheck(w, opening)
      PROVE  Rest'
  BY <1>0, <1>2 DEF OpenCheck
<1>3. ASSUME NEW w \in Workers, OpenCommit(w)
      PROVE  Rest'
  BY <1>0, <1>3 DEF OpenCommit
<1>4. ASSUME NEW w \in Workers, OpenRejected(w)
      PROVE  Rest'
  BY <1>0, <1>4 DEF OpenRejected, vars
<1>5. ASSUME NEW w \in Workers, NEW s \in Sessions, NEW type \in InputTypes,
             NEW amount \in Amounts, RegisterCheck(w, s, type, amount)
      PROVE  Rest'
  BY <1>0, <1>5 DEF RegisterCheck
<1>6. ASSUME NEW w \in Workers, RegisterCommit(w)
      PROVE  Rest'
  BY <1>0, <1>6 DEF RegisterCommit
<1>7. ASSUME NEW w \in Workers, NEW s \in Sessions, CloseCheck(w, s)
      PROVE  Rest'
  BY <1>0, <1>7 DEF CloseCheck
<1>8. ASSUME NEW w \in Workers, CloseList(w)
      PROVE  Rest'
  BY <1>0, <1>8 DEF CloseList
<1>9. ASSUME NEW w \in Workers, NEW counted \in Counted, CloseCommit(w, counted)
      PROVE  Rest'
  BY <1>0, <1>9 DEF CloseCommit
<1>10. ASSUME NEW w \in Workers, SessionRejected(w)
      PROVE  Rest'
  BY <1>0, <1>10 DEF SessionRejected, vars
<1>11. ASSUME NEW w \in Workers, NEW x \in Sales, NEW method \in Methods,
             ChargeCheck(w, x, method)
      PROVE  Rest'
  BY <1>0, <1>11 DEF ChargeCheck
<1>12. ASSUME NEW w \in Workers, NEW s \in Sessions, ChargeFind(w, s)
      PROVE  Rest'
  BY <1>0, <1>12 DEF ChargeFind, OpenSessions
<1>13. ASSUME NEW w \in Workers, ChargeWithoutSession(w)
      PROVE  Rest'
  BY <1>0, <1>13 DEF ChargeWithoutSession
<1>14. ASSUME NEW w \in Workers, ChargeRefused(w)
      PROVE  Rest'
  BY <1>0, <1>14 DEF ChargeRefused
<1>15. ASSUME NEW w \in Workers, ChargeCommit(w)
      PROVE  Rest'
  BY <1>0, <1>15 DEF ChargeCommit, CashPart
<1>16. QED
  BY <1>0, <1>1, <1>2, <1>3, <1>4, <1>5, <1>6, <1>7, <1>8,
     <1>9, <1>10, <1>11, <1>12, <1>13, <1>14, <1>15 DEF Next

\* The inductive invariant holds in every state.
LEMMA InvCorrect == Spec => []IInv
<1>1. QED
  BY InitInv, NextInv, PTL DEF Spec

\* Whatever the number of workers, the expectedAmount closeSession stores is the
\* sum of the session's movements, unless another request on the session
\* overlapped the close.
THEOREM CloseBalancesHolds == Spec => []CloseBalances
<1>1. IInv => CloseBalances
  BY DEF IInv
<1>2. QED
  BY InvCorrect, <1>1, PTL

-----------------------------------------------------------------------------
(* A closed session is final, and the register implements the drawer *)

\* A request at work on a session without an overlap works on an open one.
LEMMA OnOpenSession ==
  ASSUME IInv, NEW w \in Workers, req[w].session \in Sessions \ raced
  PROVE  status[req[w].session] = "OPEN"
<1>1. status[req[w].session] \in {"none", "OPEN", "CLOSED"}
  BY DEF IInv, TypeOK
<1>2. status[req[w].session] # "none" /\ status[req[w].session] # "CLOSED"
  BY DEF IInv, SessionsExist, ClosedQuiet
<1>3. QED
  BY <1>1, <1>2

\* No statement touches the row or the movements of a closed, unraced session.
LEMMA NextFrozen ==
  ASSUME IInv, [Next]_vars, NEW s \in Sessions, status[s] = "CLOSED"
  PROVE  /\ status'[s] = "CLOSED"
         /\ s \notin raced' => closing'[s] = closing[s] /\ booked'[s] = booked[s]
<1> USE DEF TypeOK, Answered
<1>0. TypeOK /\ RequestShape
  BY DEF IInv
<1>1. \A w \in Workers : req[w].session = s => s \in raced
  BY DEF IInv, ClosedQuiet
<1>2. CASE UNCHANGED <<status, booked, closing>>
  BY <1>2
<1>3. ASSUME NEW w \in Workers, OpenCommit(w)
      PROVE  status'[s] = "CLOSED" /\ closing' = closing /\ booked'[s] = booked[s]
  BY <1>0, <1>3 DEF OpenCommit
<1>4. ASSUME NEW w \in Workers, RegisterCommit(w)
      PROVE  /\ status' = status /\ closing' = closing /\ raced' = raced
             /\ s \notin raced => booked'[s] = booked[s]
  BY <1>0, <1>1, <1>4 DEF RegisterCommit
<1>5. ASSUME NEW w \in Workers, NEW counted \in Counted, CloseCommit(w, counted)
      PROVE  /\ status'[s] = "CLOSED" /\ booked' = booked /\ raced' = raced
             /\ s \notin raced => closing'[s] = closing[s]
  BY <1>0, <1>1, <1>5 DEF CloseCommit
<1>6. ASSUME NEW w \in Workers, ChargeCommit(w)
      PROVE  /\ status' = status /\ closing' = closing /\ raced' = raced
             /\ s \notin raced => booked'[s] = booked[s]
  BY <1>0, <1>1, <1>6 DEF ChargeCommit
<1>7. CASE UNCHANGED vars
  BY <1>2, <1>7 DEF vars
<1>8. ASSUME NEW w \in Workers,
             \/ \E opening \in Amounts : OpenCheck(w, opening)
             \/ OpenRejected(w)
             \/ \E t \in Sessions, type \in InputTypes, amount \in Amounts :
                  RegisterCheck(w, t, type, amount)
             \/ \E t \in Sessions : CloseCheck(w, t) \/ ChargeFind(w, t)
             \/ CloseList(w)
             \/ SessionRejected(w)
             \/ \E x \in Sales, method \in Methods : ChargeCheck(w, x, method)
             \/ ChargeWithoutSession(w)
             \/ ChargeRefused(w)
      PROVE  UNCHANGED <<status, booked, closing>>
  BY <1>8, Zenon DEF vars, OpenCheck, OpenRejected, RegisterCheck, CloseCheck, CloseList,
         SessionRejected, ChargeCheck, ChargeFind, ChargeWithoutSession, ChargeRefused
<1>9. QED
  BY <1>2, <1>3, <1>4, <1>5, <1>6, <1>7, <1>8 DEF Next

\* A closed session is never reopened, and the books of one that was closed
\* without an overlap never change: each write to a session starts from a read
\* that found it open, and such a request marks the overlap.
THEOREM ClosedSessionFrozenHolds == Spec => ClosedSessionFrozen
<1>1. IInv /\ [Next]_vars => [FrozenStep]_vars
  BY NextFrozen DEF FrozenStep
<1>2. QED
  BY InvCorrect, <1>1, PTL DEF Spec, ClosedSessionFrozen

-----------------------------------------------------------------------------
(* One open session *)

\* Unless two opens overlapped, at most one is in flight, and while it is no
\* session is open.
OpenAlone ==
  openRaced \/ /\ \A w, v \in Workers : req[w].op = "open" /\ req[v].op = "open" => w = v
               /\ \A w \in Workers : req[w].op = "open" => OpenSessions = {}
               /\ \A s, t \in OpenSessions : s = t

\* No step but an open's puts a session in OPEN or a request in the open path.
LEMMA OnlyOpens ==
  ASSUME TypeOK, [Next]_vars,
         ~ \E w \in Workers : OpenCommit(w) \/ \E opening \in Amounts : OpenCheck(w, opening)
  PROVE  /\ openRaced' = openRaced
         /\ OpenSessions' \subseteq OpenSessions
         /\ \A w \in Workers : req'[w].op = "open" => req[w].op = "open"
<1> USE NoSessionAssumption, NoSaleAssumption DEF TypeOK, Answered, OpenSessions
<1> DEFINE P == /\ OpenSessions' \subseteq OpenSessions
                /\ \A w \in Workers : req'[w].op = "open" => req[w].op = "open"
<1>1. CASE UNCHANGED vars
  BY <1>1 DEF vars
<1>2. ASSUME NEW w \in Workers, OpenRejected(w) \/ SessionRejected(w)
      PROVE  P /\ openRaced' = openRaced
  BY <1>2 DEF OpenRejected, SessionRejected, vars
<1>3. ASSUME NEW w \in Workers, NEW s \in Sessions, NEW type \in InputTypes,
             NEW amount \in Amounts, RegisterCheck(w, s, type, amount)
      PROVE  P /\ openRaced' = openRaced
  BY <1>3 DEF RegisterCheck
<1>4. ASSUME NEW w \in Workers, RegisterCommit(w)
      PROVE  P /\ openRaced' = openRaced
  BY <1>4 DEF RegisterCommit
<1>5. ASSUME NEW w \in Workers, NEW s \in Sessions, CloseCheck(w, s)
      PROVE  P /\ openRaced' = openRaced
  BY <1>5 DEF CloseCheck
<1>6. ASSUME NEW w \in Workers, CloseList(w)
      PROVE  P /\ openRaced' = openRaced
  BY <1>6 DEF CloseList
<1>7. ASSUME NEW w \in Workers, NEW counted \in Counted, CloseCommit(w, counted)
      PROVE  P /\ openRaced' = openRaced
  BY <1>7 DEF CloseCommit
<1>8. ASSUME NEW w \in Workers, NEW x \in Sales, NEW method \in Methods,
             ChargeCheck(w, x, method)
      PROVE  P /\ openRaced' = openRaced
  BY <1>8 DEF ChargeCheck
<1>9. ASSUME NEW w \in Workers, NEW s \in Sessions, ChargeFind(w, s)
      PROVE  P /\ openRaced' = openRaced
  BY <1>9 DEF ChargeFind
<1>10. ASSUME NEW w \in Workers, ChargeWithoutSession(w) \/ ChargeRefused(w)
       PROVE  P /\ openRaced' = openRaced
  BY <1>10 DEF ChargeWithoutSession, ChargeRefused
<1>11. ASSUME NEW w \in Workers, ChargeCommit(w)
       PROVE  P /\ openRaced' = openRaced
  BY <1>11 DEF ChargeCommit
<1>12. QED
  BY <1>1, <1>2, <1>3, <1>4, <1>5, <1>6, <1>7, <1>8, <1>9, <1>10, <1>11 DEF Next

\* Only openSession can break OpenAlone, and it does not.
LEMMA NextOpenAlone == TypeOK /\ OpenAlone /\ [Next]_vars => OpenAlone'
<1> SUFFICES ASSUME TypeOK, OpenAlone, ~openRaced', [Next]_vars
             PROVE  OpenAlone'
  BY DEF OpenAlone
<1>1. ASSUME NEW w \in Workers, NEW opening \in Amounts, OpenCheck(w, opening)
      PROVE  OpenAlone'
  <2>1. ~openRaced /\ \A v \in Workers \ {w} : req[v].op # "open"
    BY <1>1 DEF OpenCheck
  <2>2. OpenSessions = {} /\ status' = status
    BY <1>1 DEF OpenCheck
  <2>3. OpenSessions' = {}
    BY <2>2 DEF OpenSessions
  <2>4. \A v \in Workers \ {w} : req'[v] = req[v]
    BY <1>1, Zenon DEF OpenCheck, TypeOK
  <2>5. QED
    BY <2>1, <2>3, <2>4 DEF OpenAlone
<1>2. ASSUME NEW w \in Workers, OpenCommit(w)
      PROVE  OpenAlone'
  <2>1. ~openRaced /\ req[w].op = "open"
    BY <1>2 DEF OpenCommit
  <2>2. OpenSessions = {} /\ \A v \in Workers : req[v].op = "open" => v = w
    BY <2>1 DEF OpenAlone
  <2>3. \A s, t \in OpenSessions' : s = t
    BY <1>2, <2>2 DEF OpenCommit, OpenSessions, TypeOK
  <2>4. \A v \in Workers : req'[v].op # "open"
    BY <1>2, <2>2 DEF OpenCommit, Answered, TypeOK
  <2>5. QED
    BY <2>3, <2>4 DEF OpenAlone
<1>3. CASE ~ \E w \in Workers : OpenCommit(w) \/ \E opening \in Amounts : OpenCheck(w, opening)
  <2>1. /\ openRaced' = openRaced
        /\ OpenSessions' \subseteq OpenSessions
        /\ \A w \in Workers : req'[w].op = "open" => req[w].op = "open"
    BY <1>3, OnlyOpens
  <2>2. QED
    BY <2>1 DEF OpenAlone
<1>4. QED
  BY <1>1, <1>2, <1>3

\* Two sessions of a branch are open together only after two calls of
\* openSession overlapped: one call at a time keeps the rule its check states.
THEOREM OneOpenSessionHolds == Spec => []OneOpenSession
<1>1. Init => OpenAlone
  BY DEF Init, OpenAlone, OpenSessions
<1>2. OpenAlone => OneOpenSession
  BY DEF OpenAlone, OneOpenSession
<1>3. TypeOK /\ OpenAlone /\ [Next]_vars => OpenAlone'
  BY NextOpenAlone
<1>4. QED
  BY TypeCorrect, <1>1, <1>2, <1>3, PTL DEF Spec

-----------------------------------------------------------------------------
(* Refinement of CashDrawer *)

\* Before the first request the register is an initial drawer.
LEMMA InitDrawer == Init => Drawer!Init
  BY DEF Init, Drawer!Init, NoClosing

\* A request that marks a session as raced makes the drawer drop it, or
\* changes nothing the drawer shows.
LEMMA MarksRaced ==
  ASSUME IInv, NEW s \in Sessions, status[s] = "OPEN",
         raced' = raced \/ raced' = raced \cup {s},
         UNCHANGED <<status, booked, closing>>
  PROVE  [Drawer!Next]_(Drawer!vars)
<1>1. CASE s \in raced \/ raced' = raced
  <2>1. raced' = raced
    BY <1>1
  <2>2. QED
    BY <2>1 DEF Drawer!vars
<1>2. CASE s \notin raced /\ raced' = raced \cup {s}
  <2>1. closing[s].expected = 0
    BY DEF IInv, SessionsExist, NoClosing
  <2>2. Drawer!DropOut(s)
    <3> DEFINE state == [t \in Sessions |-> IF t \in raced THEN "out" ELSE status[t]]
               total == [t \in Sessions |-> IF t \in raced THEN 0 ELSE booked[t]]
               expected == [t \in Sessions |-> IF t \in raced THEN 0 ELSE closing[t].expected]
    <3>1. state[s] = "OPEN"
      BY <1>2
    <3>2. state' = [state EXCEPT ![s] = "out"]
      BY <1>2
    <3>3. total' = [total EXCEPT ![s] = 0]
      BY <1>2
    <3>4. expected' = expected
      BY <1>2, <2>1
    <3>5. QED
      BY <3>1, <3>2, <3>3, <3>4 DEF Drawer!DropOut
  <2>3. QED
    BY <2>2 DEF Drawer!Next
<1>3. QED
  BY <1>1, <1>2

\* Money booked on the session of a request moves in the drawer.
LEMMA BooksMoney ==
  ASSUME IInv, NEW w \in Workers, NEW s \in Sessions, s = req[w].session,
         NEW amount \in Int,
         booked' = [booked EXCEPT ![s] = @ + amount],
         UNCHANGED <<status, closing, raced>>
  PROVE  [Drawer!Next]_(Drawer!vars)
<1>0. booked \in [Sessions -> Int]
  BY DEF IInv, TypeOK
<1>1. CASE s \in raced
  <2>1. \A t \in Sessions : t \notin raced => booked'[t] = booked[t]
    BY <1>0, <1>1
  <2>2. QED
    BY <2>1 DEF Drawer!vars
<1>2. CASE s \notin raced
  <2>1. status[s] = "OPEN"
    BY <1>2, OnOpenSession
  <2>2. Drawer!Move(s)
    <3> DEFINE total == [t \in Sessions |-> IF t \in raced THEN 0 ELSE booked[t]]
    <3>1. total'[s] = booked[s] + amount
      BY <1>0, <1>2
    <3>2. \A t \in Sessions \ {s} : booked'[t] = booked[t]
      BY <1>0
    <3>3. total' = [total EXCEPT ![s] = booked[s] + amount]
      BY <3>1, <3>2
    <3> HIDE DEF total
    <3>4. total'[s] \in Int /\ total' = [total EXCEPT ![s] = total'[s]]
      BY <1>0, <3>1, <3>3
    <3> USE DEF total
    <3>5. QED
      BY <1>2, <2>1, <3>4 DEF Drawer!Move
  <2>3. QED
    BY <2>2 DEF Drawer!Next
<1>3. QED
  BY <1>1, <1>2

\* Every statement of a handler is one step of the drawer, or none.
LEMMA NextDrawer == IInv /\ [Next]_vars => [Drawer!Next]_(Drawer!vars)
<1> SUFFICES ASSUME IInv, [Next]_vars
             PROVE  [Drawer!Next]_(Drawer!vars)
  OBVIOUS
<1>0. TypeOK /\ RequestShape
  BY DEF IInv
<1>1. CASE UNCHANGED <<status, booked, closing, raced>>
  BY <1>1 DEF Drawer!vars
<1>2. ASSUME NEW w \in Workers, OpenCommit(w)
      PROVE  [Drawer!Next]_(Drawer!vars)
  <2>1. PICK s \in Sessions : /\ status[s] = "none"
                              /\ status' = [status EXCEPT ![s] = "OPEN"]
                              /\ booked' = [booked EXCEPT ![s] = req[w].amount]
    BY <1>2 DEF OpenCommit
  <2>2. req[w].amount \in Nat /\ s \notin raced /\ UNCHANGED <<closing, raced>>
    BY <1>0, <1>2, <2>1 DEF OpenCommit, RequestShape, IInv, SessionsExist
  <2>3. Drawer!Open(s)
    BY <1>0, <2>1, <2>2 DEF Drawer!Open, TypeOK
  <2>4. QED
    BY <2>3 DEF Drawer!Next
<1>3. ASSUME NEW w \in Workers, NEW s \in Sessions, NEW type \in InputTypes,
             NEW amount \in Amounts, RegisterCheck(w, s, type, amount)
      PROVE  [Drawer!Next]_(Drawer!vars)
  <2>1. status[s] = "OPEN" /\ UNCHANGED <<status, booked, closing>>
    BY <1>3 DEF RegisterCheck
  <2>2. raced' = raced \/ raced' = raced \cup {s}
    BY <1>3 DEF RegisterCheck
  <2>3. QED
    BY <2>1, <2>2, MarksRaced
<1>4. ASSUME NEW w \in Workers, RegisterCommit(w)
      PROVE  [Drawer!Next]_(Drawer!vars)
  <2>1. req[w].session \in Sessions /\ req[w].amount \in Int
    BY <1>0, <1>4 DEF RegisterCommit, RequestShape, TypeOK
  <2>2. QED
    BY <1>4, <2>1, BooksMoney DEF RegisterCommit
<1>5. ASSUME NEW w \in Workers, NEW s \in Sessions, CloseCheck(w, s)
      PROVE  [Drawer!Next]_(Drawer!vars)
  <2>1. status[s] = "OPEN" /\ UNCHANGED <<status, booked, closing>>
    BY <1>5 DEF CloseCheck
  <2>2. raced' = raced \/ raced' = raced \cup {s}
    BY <1>5 DEF CloseCheck
  <2>3. QED
    BY <2>1, <2>2, MarksRaced
<1>6. ASSUME NEW w \in Workers, NEW counted \in Counted, CloseCommit(w, counted)
      PROVE  [Drawer!Next]_(Drawer!vars)
  <2>0. PICK s \in Sessions : s = req[w].session
    BY <1>0, <1>6 DEF CloseCommit, RequestShape
  <2> USE <2>0
  <2>1. UNCHANGED <<booked, raced>>
    BY <1>6 DEF CloseCommit
  <2>2. CASE s \in raced
    <3>1. \A t \in Sessions : t \notin raced => status'[t] = status[t] /\ closing'[t] = closing[t]
      BY <1>0, <1>6, <2>2 DEF CloseCommit, TypeOK
    <3>2. QED
      BY <2>1, <3>1, Zenon DEF Drawer!vars
  <2>3. CASE s \notin raced
    <3>1. status[s] = "OPEN"
      BY <2>1, <2>3, OnOpenSession
    <3>2. closing'[s].expected = booked[s] /\ status'[s] = "CLOSED"
      BY <1>0, <1>6, <2>1, <2>3 DEF CloseCommit, IInv, CloseCurrent, TypeOK
    <3>3. \A t \in Sessions \ {s} : status'[t] = status[t] /\ closing'[t] = closing[t]
      BY <1>0, <1>6 DEF CloseCommit, TypeOK
    <3>4. Drawer!Close(s)
      <4> DEFINE state == [t \in Sessions |-> IF t \in raced THEN "out" ELSE status[t]]
                 total == [t \in Sessions |-> IF t \in raced THEN 0 ELSE booked[t]]
                 expected == [t \in Sessions |-> IF t \in raced THEN 0 ELSE closing[t].expected]
      <4>1. state[s] = "OPEN" /\ total[s] = booked[s] /\ total' = total
        BY <2>1, <2>3, <3>1
      <4>2. state' = [state EXCEPT ![s] = "CLOSED"]
        BY <2>1, <2>3, <3>2, <3>3
      <4>3. expected' = [expected EXCEPT ![s] = booked[s]]
        BY <2>1, <2>3, <3>2, <3>3
      <4>4. QED
        BY <4>1, <4>2, <4>3, Zenon DEF Drawer!Close
    <3>5. QED
      BY <2>1, <3>4 DEF Drawer!Next
  <2>4. QED
    BY <2>2, <2>3
<1>7. ASSUME NEW w \in Workers, NEW s \in Sessions, ChargeFind(w, s)
      PROVE  [Drawer!Next]_(Drawer!vars)
  <2>1. status[s] = "OPEN" /\ UNCHANGED <<status, booked, closing>>
    BY <1>7 DEF ChargeFind, OpenSessions
  <2>2. raced' = raced \/ raced' = raced \cup {s}
    BY <1>7 DEF ChargeFind
  <2>3. QED
    BY <2>1, <2>2, MarksRaced
<1>8. ASSUME NEW w \in Workers, ChargeCommit(w)
      PROVE  [Drawer!Next]_(Drawer!vars)
  <2>1. req[w].session \in Sessions /\ CashPart(w) \in Int
    BY <1>0, <1>8 DEF ChargeCommit, CashPart, RequestShape, TypeOK
  <2>2. QED
    BY <1>8, <2>1, BooksMoney DEF ChargeCommit
<1>9. CASE UNCHANGED vars
  BY <1>1, <1>9 DEF vars
<1>10. ASSUME NEW w \in Workers,
              \/ \E opening \in Amounts : OpenCheck(w, opening)
              \/ OpenRejected(w)
              \/ CloseList(w)
              \/ SessionRejected(w)
              \/ \E x \in Sales, method \in Methods : ChargeCheck(w, x, method)
              \/ ChargeWithoutSession(w)
              \/ ChargeRefused(w)
       PROVE  UNCHANGED <<status, booked, closing, raced>>
  BY <1>10, Zenon DEF vars, OpenCheck, OpenRejected, CloseList, SessionRejected,
         ChargeCheck, ChargeWithoutSession, ChargeRefused
<1>11. QED
  BY <1>1, <1>2, <1>3, <1>4, <1>5, <1>6, <1>7, <1>8, <1>9, <1>10 DEF Next

\* The cash handlers, statement by statement, implement the drawer whose
\* operations are atomic, for every session whose close overlapped nothing.
THEOREM CashDrawerImplemented == Spec => ImplementsCashDrawer
<1>1. QED
  BY InvCorrect, InitDrawer, NextDrawer, PTL DEF Spec, ImplementsCashDrawer, Drawer!Spec

-----------------------------------------------------------------------------
(* The payments of the sales *)

\* A sale that was not charged has no payment and no cash in any drawer; a
\* charged one is linked to a session.
SalesUntouched ==
  \A x \in Sales :
    IF sale[x].status = "DRAFT"
      THEN /\ \A m \in Methods : paid[x][m] = 0
           /\ \A s \in Sessions : saleCash[s][x] = 0
      ELSE sale[x].session \in Sessions

\* The cash paid for a sale is the sum of its movements in the drawers.
CashBooked ==
  \A x \in Sales : paid[x]["CASH"] = SumFunction([s \in Sessions |-> saleCash[s][x]])

\* Unless marked raced, a charge is the only one of its sale, which is open.
ChargeAlone ==
  \A w \in Workers :
    req[w].sale \in Sales \ saleRaced =>
      /\ sale[req[w].sale].status = "DRAFT"
      /\ \A v \in Workers \ {w} : req[v].sale # req[w].sale

SalesInv ==
  /\ TypeOK
  /\ RequestShape
  /\ SalesUntouched
  /\ CashBooked
  /\ ChargeAlone
  /\ SalePaidOnce

\* What a step can do to the sales and their charges.
LEMMA SaleSteps ==
  ASSUME TypeOK, RequestShape, [Next]_vars
  PROVE  /\ \/ UNCHANGED <<sale, paid, saleCash>>
            \/ \E w \in Workers : ChargeCommit(w)
         /\ \/ /\ saleRaced' = saleRaced
               /\ \A w \in Workers : req'[w].sale \in {req[w].sale, NoSale}
            \/ \E w \in Workers, x \in Sales, method \in Methods : ChargeCheck(w, x, method)
<1> DEFINE Keeps == /\ saleRaced' = saleRaced
                    /\ \A w \in Workers : req'[w].sale \in {req[w].sale, NoSale}
           Same == UNCHANGED <<sale, paid, saleCash>>
<1>a. req \in [Workers -> Request]
  BY DEF TypeOK
<1>1. ASSUME NEW w \in Workers, Answered(w), saleRaced' = saleRaced
      PROVE  Keeps
  BY <1>a, <1>1 DEF Answered
<1>2. ASSUME NEW w \in Workers, NEW opening \in Amounts, OpenCheck(w, opening)
      PROVE  Keeps /\ Same
  BY <1>a, <1>2 DEF OpenCheck
<1>3. ASSUME NEW w \in Workers, NEW s \in Sessions, NEW type \in InputTypes,
             NEW amount \in Amounts, RegisterCheck(w, s, type, amount)
      PROVE  Keeps /\ Same
  BY <1>a, <1>3 DEF RegisterCheck
<1>4. ASSUME NEW w \in Workers, NEW s \in Sessions, CloseCheck(w, s) \/ ChargeFind(w, s)
      PROVE  Keeps /\ Same
  BY <1>a, <1>4 DEF CloseCheck, ChargeFind
<1>5. ASSUME NEW w \in Workers, CloseList(w)
      PROVE  Keeps /\ Same
  BY <1>a, <1>5 DEF CloseList
<1>6. ASSUME NEW w \in Workers, \/ OpenCommit(w) \/ RegisterCommit(w)
                                \/ \E counted \in Counted : CloseCommit(w, counted)
                                \/ ChargeWithoutSession(w) \/ ChargeRefused(w)
      PROVE  Keeps /\ Same
  <2>1. Answered(w) /\ saleRaced' = saleRaced /\ Same
    BY <1>6 DEF OpenCommit, RegisterCommit, CloseCommit, ChargeWithoutSession, ChargeRefused
  <2>2. QED
    BY <1>1, <2>1
<1>7. ASSUME NEW w \in Workers, ChargeCommit(w)
      PROVE  Keeps
  BY <1>1, <1>7 DEF ChargeCommit
<1>8. ASSUME NEW w \in Workers, NEW x \in Sales, NEW method \in Methods,
             ChargeCheck(w, x, method)
      PROVE  Same
  BY <1>8 DEF ChargeCheck
<1>9. ASSUME \/ UNCHANGED vars
             \/ \E w \in Workers : OpenRejected(w) \/ SessionRejected(w)
      PROVE  Keeps /\ Same
  BY <1>9 DEF vars, OpenRejected, SessionRejected
<1>10. QED
  <2> HIDE DEF Keeps, Same
  <2>1. \/ Keeps /\ Same
        \/ \E w \in Workers : ChargeCommit(w)
        \/ \E w \in Workers, x \in Sales, method \in Methods : ChargeCheck(w, x, method)
    BY <1>2, <1>3, <1>4, <1>5, <1>6, <1>9 DEF Next
  <2>2. QED
    BY <1>7, <1>8, <2>1 DEF Keeps, Same

\* Worker w commits a charge of sale x by method m: it writes one payment of the
\* amount due and, if that is cash, the same amount in the drawer of session s.
CashOf(x, m) == IF m = "CASH" THEN Due[x] ELSE 0
Charges(w, x, s, m) ==
  /\ req[w].sale = x
  /\ \A y \in Sales \ {x} :
       /\ sale'[y] = sale[y] /\ paid'[y] = paid[y]
       /\ \A t \in Sessions : saleCash'[t][y] = saleCash[t][y]
  /\ paid'[x] = [paid[x] EXCEPT ![m] = @ + Due[x]]
  /\ saleCash'[s][x] = saleCash[s][x] + CashOf(x, m)
  /\ \A t \in Sessions \ {s} : saleCash'[t][x] = saleCash[t][x]
  /\ sale'[x] = IF sale[x].status = "DRAFT" THEN [status |-> "CLOSED", session |-> s]
                                             ELSE sale[x]
  /\ saleRaced' = saleRaced
  /\ \A v \in Workers : req'[v] = IF v = w THEN Idle ELSE req[v]

\* ChargeCommit charges the sale, session and method of its request.
LEMMA ChargeWrites ==
  ASSUME TypeOK, RequestShape, NEW w \in Workers, ChargeCommit(w)
  PROVE  \E x \in Sales, s \in Sessions, m \in Methods : Charges(w, x, s, m)
<1> DEFINE x == req[w].sale
           s == req[w].session
           m == req[w].method
<1>1. x \in Sales /\ s \in Sessions /\ req[w].amount = Due[x]
  BY DEF ChargeCommit, RequestShape
<1>2. m \in Methods
  BY DEF TypeOK
<1>4. CashPart(w) = CashOf(x, m)
  BY <1>1 DEF CashPart, CashOf
<1>5. /\ paid' = [paid EXCEPT ![x][m] = @ + Due[x]]
      /\ saleCash' = [saleCash EXCEPT ![s][x] = @ + CashOf(x, m)]
      /\ sale' = IF sale[x].status = "DRAFT"
                   THEN [sale EXCEPT ![x] = [status |-> "CLOSED", session |-> s]]
                   ELSE sale
      /\ saleRaced' = saleRaced
      /\ req' = [req EXCEPT ![w] = Idle]
  BY <1>1, <1>4 DEF ChargeCommit, Answered
<1>6. /\ paid \in [Sales -> [Methods -> Nat]] /\ saleCash \in [Sessions -> [Sales -> Nat]]
      /\ DOMAIN sale = Sales /\ req \in [Workers -> Request]
  BY DEF TypeOK
<1> HIDE DEF x, s, m
<1>7. /\ paid'[x] = [paid[x] EXCEPT ![m] = @ + Due[x]]
      /\ \A y \in Sales \ {x} : paid'[y] = paid[y]
  BY <1>1, <1>5, <1>6
<1>8. /\ saleCash'[s][x] = saleCash[s][x] + CashOf(x, m)
      /\ \A t \in Sessions \ {s} : saleCash'[t] = saleCash[t]
      /\ \A t \in Sessions : \A y \in Sales \ {x} : saleCash'[t][y] = saleCash[t][y]
  BY <1>1, <1>5, <1>6
<1>9. /\ sale'[x] = IF sale[x].status = "DRAFT" THEN [status |-> "CLOSED", session |-> s]
                                                ELSE sale[x]
      /\ \A y \in Sales \ {x} : sale'[y] = sale[y]
  BY <1>1, <1>5, <1>6
<1>10. \A v \in Workers : req'[v] = IF v = w THEN Idle ELSE req[v]
  BY <1>5, <1>6
<1>11. Charges(w, x, s, m)
  BY <1>5, <1>7, <1>8, <1>9, <1>10 DEF Charges, x
<1>12. QED
  BY <1>1, <1>2, <1>11

\* Nothing is paid for a sale before its charge commits, which closes it.
LEMMA NextUntouched ==
  TypeOK /\ RequestShape /\ SalesUntouched /\ [Next]_vars => SalesUntouched'
<1> SUFFICES ASSUME TypeOK, RequestShape, SalesUntouched, [Next]_vars, NEW x \in Sales
             PROVE  IF sale'[x].status = "DRAFT"
                      THEN /\ \A m \in Methods : paid'[x][m] = 0
                           /\ \A s \in Sessions : saleCash'[s][x] = 0
                      ELSE sale'[x].session \in Sessions
  BY DEF SalesUntouched
<1>1. CASE UNCHANGED <<sale, paid, saleCash>>
  BY <1>1 DEF SalesUntouched
<1>2. ASSUME NEW w \in Workers, ChargeCommit(w)
      PROVE  IF sale'[x].status = "DRAFT"
               THEN /\ \A m \in Methods : paid'[x][m] = 0
                    /\ \A s \in Sessions : saleCash'[s][x] = 0
               ELSE sale'[x].session \in Sessions
  <2>1. PICK y \in Sales, s \in Sessions, m \in Methods : Charges(w, y, s, m)
    BY <1>2, ChargeWrites
  <2>2. CASE x = y
    BY <2>1, <2>2 DEF Charges, SalesUntouched
  <2>3. CASE x # y
    BY <2>1, <2>3 DEF Charges, SalesUntouched
  <2>4. QED
    BY <2>2, <2>3
<1>3. QED
  BY <1>1, <1>2, SaleSteps

\* A charge in cash writes its payment and its movement together.
LEMMA NextCashBooked ==
  TypeOK /\ RequestShape /\ CashBooked /\ [Next]_vars => CashBooked'
<1> SUFFICES ASSUME TypeOK, RequestShape, CashBooked, [Next]_vars, NEW x \in Sales
             PROVE  paid'[x]["CASH"] = SumFunction([t \in Sessions |-> saleCash'[t][x]])
  BY DEF CashBooked
<1> DEFINE g == [t \in Sessions |-> saleCash[t][x]]
           h == [t \in Sessions |-> saleCash'[t][x]]
<1>a. /\ paid[x]["CASH"] = SumFunctionOnSet(g, Sessions)
      /\ SumFunction(h) = SumFunctionOnSet(h, Sessions)
  BY DEF CashBooked, SumFunction
<1>b. \A t \in Sessions : g[t] \in Int
  BY DEF TypeOK
<1>c. \A t \in Sessions : g[t] = saleCash[t][x] /\ h[t] = saleCash'[t][x]
  OBVIOUS
<1>d. IsFiniteSet(Sessions)
  BY FiniteAssumption
<1>1. CASE UNCHANGED <<sale, paid, saleCash>>
  BY <1>a, <1>1
<1>2. ASSUME NEW w \in Workers, ChargeCommit(w)
      PROVE  paid'[x]["CASH"] = SumFunctionOnSet(h, Sessions)
  <2>1. PICK y \in Sales, s \in Sessions, m \in Methods : Charges(w, y, s, m)
    BY <1>2, ChargeWrites
  <2> HIDE DEF g, h
  <2>2. CASE x = y
    <3>1. Due[x] \in Nat /\ CashOf(x, m) \in Int
      BY DueAssumption DEF CashOf
    <3>2. paid'[x]["CASH"] = paid[x]["CASH"] + CashOf(x, m)
      <4>1. paid[x] \in [Methods -> Nat] /\ "CASH" \in Methods
        BY MethodsAssumption DEF TypeOK
      <4>2. paid'[x] = [paid[x] EXCEPT ![m] = @ + Due[x]]
        BY <2>1, <2>2 DEF Charges
      <4>3. QED
        BY <3>1, <4>1, <4>2 DEF CashOf
    <3>3. h[s] = g[s] + CashOf(x, m) /\ \A t \in Sessions \ {s} : h[t] = g[t]
      BY <1>c, <2>1, <2>2 DEF Charges
    <3>4. SumFunctionOnSet(h, Sessions) = SumFunctionOnSet(g, Sessions) + CashOf(x, m)
      BY <1>b, <1>d, <3>1, <3>3, SumUpdate
    <3>5. QED
      BY <1>a, <3>2, <3>4
  <2>3. CASE x # y
    <3>1. paid'[x] = paid[x] /\ \A t \in Sessions : g[t] = h[t]
      BY <1>c, <2>1, <2>3 DEF Charges
    <3>2. QED
      BY <1>a, <1>d, <3>1, SumSame
  <2>4. QED
    BY <2>2, <2>3
<1> HIDE DEF h
<1>3. QED
  BY <1>a, <1>1, <1>2, SaleSteps DEF h

\* Two charges of one sale mark it; a charge that is alone finds it open still.
LEMMA NextChargeAlone ==
  TypeOK /\ RequestShape /\ ChargeAlone /\ [Next]_vars => ChargeAlone'
<1> SUFFICES ASSUME TypeOK, RequestShape, ChargeAlone, [Next]_vars
             PROVE  ChargeAlone'
  OBVIOUS
<1>a. req \in [Workers -> Request] /\ NoSale \notin Sales
  BY NoSaleAssumption DEF TypeOK
<1>1. CASE /\ UNCHANGED <<sale, paid, saleCash>>
           /\ saleRaced' = saleRaced
           /\ \A w \in Workers : req'[w].sale \in {req[w].sale, NoSale}
  BY <1>a, <1>1 DEF ChargeAlone
<1>2. ASSUME NEW w \in Workers, ChargeCommit(w)
      PROVE  ChargeAlone'
  <2>1. PICK y \in Sales, s \in Sessions, m \in Methods : Charges(w, y, s, m)
    BY <1>2, ChargeWrites
  <2>2. ASSUME NEW v \in Workers, req'[v].sale \in Sales \ saleRaced'
        PROVE  /\ sale'[req'[v].sale].status = "DRAFT"
               /\ \A u \in Workers \ {v} : req'[u].sale # req'[v].sale
    <3>1. v # w /\ req'[v] = req[v] /\ saleRaced' = saleRaced
      BY <1>a, <2>1, <2>2 DEF Charges
    <3>2. /\ sale[req[v].sale].status = "DRAFT"
          /\ \A u \in Workers \ {v} : req[u].sale # req[v].sale
      BY <2>2, <3>1 DEF ChargeAlone
    <3>3. req[v].sale # y
      BY <2>1, <3>1, <3>2 DEF Charges
    <3>4. sale'[req[v].sale] = sale[req[v].sale]
      BY <2>1, <2>2, <3>1, <3>3 DEF Charges
    <3>5. \A u \in Workers \ {v} : req'[u].sale # req[v].sale
      BY <1>a, <2>1, <2>2, <3>1, <3>2 DEF Charges
    <3>6. QED
      BY <3>1, <3>2, <3>4, <3>5
  <2>3. QED
    BY <2>2 DEF ChargeAlone
<1>3. ASSUME NEW w \in Workers, NEW x \in Sales, NEW method \in Methods,
             ChargeCheck(w, x, method)
      PROVE  ChargeAlone'
  <2>1. /\ sale' = sale /\ sale[x].status = "DRAFT"
        /\ req'[w].sale = x
        /\ \A v \in Workers \ {w} : req'[v] = req[v]
    BY <1>a, <1>3 DEF ChargeCheck
  <2>2. saleRaced' = saleRaced \cup {r.sale : r \in OnSale(w, x)}
    BY <1>3 DEF ChargeCheck
  <2>3. /\ saleRaced \subseteq saleRaced'
        /\ \A v \in Workers \ {w} : req[v].sale = x => x \in saleRaced'
    BY <2>2
  <2>4. ASSUME NEW v \in Workers, req'[v].sale \in Sales \ saleRaced'
        PROVE  /\ sale'[req'[v].sale].status = "DRAFT"
               /\ \A u \in Workers \ {v} : req'[u].sale # req'[v].sale
    <3>1. CASE v = w
      BY <2>1, <2>3, <2>4, <3>1
    <3>2. CASE v # w
      <4>1. req'[v] = req[v] /\ req[v].sale # x /\ req[v].sale \in Sales \ saleRaced
        BY <2>1, <2>3, <2>4, <3>2
      <4>2. QED
        BY <2>1, <4>1 DEF ChargeAlone
    <3>3. QED
      BY <3>1, <3>2
  <2>5. QED
    BY <2>4 DEF ChargeAlone
<1>4. QED
  BY <1>1, <1>2, <1>3, SaleSteps

\* A sale that is charged by one request at a time is paid by that request.
LEMMA NextPaidOnce == SalesInv /\ [Next]_vars => SalePaidOnce'
<1> DEFINE Paid(y) == /\ sale[y].session \in Sessions
                      /\ \E m \in Methods :
                           /\ paid[y] = [k \in Methods |-> IF k = m THEN Due[y] ELSE 0]
                           /\ \A s \in Sessions :
                                saleCash[s][y] = IF s = sale[y].session /\ m = "CASH"
                                                   THEN Due[y] ELSE 0
<1> SUFFICES ASSUME SalesInv, [Next]_vars,
                    NEW x \in Sales, sale'[x].status = "CLOSED", x \notin saleRaced'
             PROVE  Paid(x)'
  BY DEF SalePaidOnce
<1>a. TypeOK /\ RequestShape
  BY DEF SalesInv
<1>b. x \notin saleRaced
  BY <1>a, SaleSteps DEF ChargeCheck
<1>c. sale[x].status = "CLOSED" => Paid(x)
  BY <1>b DEF SalesInv, SalePaidOnce
<1>1. CASE UNCHANGED <<sale, paid, saleCash>>
  BY <1>c, <1>1
<1>2. ASSUME NEW w \in Workers, ChargeCommit(w)
      PROVE  Paid(x)'
  <2>1. PICK y \in Sales, s \in Sessions, m \in Methods : Charges(w, y, s, m)
    BY <1>2, <1>a, ChargeWrites
  <2>2. CASE x # y
    <3>1. /\ sale'[x] = sale[x] /\ paid'[x] = paid[x]
          /\ \A t \in Sessions : saleCash'[t][x] = saleCash[t][x]
      BY <2>1, <2>2 DEF Charges
    <3>2. PICK k \in Methods :
            /\ paid[x] = [j \in Methods |-> IF j = k THEN Due[x] ELSE 0]
            /\ \A t \in Sessions :
                 saleCash[t][x] = IF t = sale[x].session /\ k = "CASH" THEN Due[x] ELSE 0
      BY <1>c, <3>1
    <3>3. sale'[x].session \in Sessions
      BY <1>c, <3>1
    <3>4. QED
      BY <3>1, <3>2, <3>3
  <2>3. CASE x = y
    <3>1. sale[x].status = "DRAFT"
      BY <1>b, <2>1, <2>3 DEF Charges, SalesInv, ChargeAlone
    <3>2. /\ \A k \in Methods : paid[x][k] = 0
          /\ \A t \in Sessions : saleCash[t][x] = 0
      BY <3>1 DEF SalesInv, SalesUntouched
    <3>3. sale'[x].session = s
      BY <2>1, <2>3, <3>1 DEF Charges
    <3>4. paid[x] \in [Methods -> Nat] /\ Due[x] \in Nat
      BY <1>a, DueAssumption DEF TypeOK
    <3>5. paid'[x] = [paid[x] EXCEPT ![m] = @ + Due[x]]
      BY <2>1, <2>3 DEF Charges
    <3>6. paid'[x] = [k \in Methods |-> IF k = m THEN Due[x] ELSE 0]
      BY <3>2, <3>4, <3>5
    <3>7. /\ saleCash'[s][x] = CashOf(x, m)
          /\ \A t \in Sessions \ {s} : saleCash'[t][x] = 0
      BY <2>1, <2>3, <3>2, <3>4 DEF Charges, CashOf
    <3>8. \A t \in Sessions :
            saleCash'[t][x] = IF t = sale'[x].session /\ m = "CASH" THEN Due[x] ELSE 0
      BY <3>3, <3>7 DEF CashOf
    <3>9. QED
      BY <3>3, <3>6, <3>8
  <2>4. QED
    BY <2>2, <2>3
<1>3. QED
  BY <1>a, <1>1, <1>2, SaleSteps

\* No sale is charged before the first request.
LEMMA InitSales == Init => SalesInv
<1> SUFFICES ASSUME Init
             PROVE  SalesInv
  OBVIOUS
<1>1. TypeOK /\ RequestShape
  BY InitTypes
<1>2. SalesUntouched
  BY DEF Init, SalesUntouched
<1>3. CashBooked
  <2> SUFFICES ASSUME NEW x \in Sales
               PROVE  paid[x]["CASH"] = SumFunction([s \in Sessions |-> saleCash[s][x]])
    BY DEF CashBooked
  <2> DEFINE g == [s \in Sessions |-> saleCash[s][x]]
  <2>1. SumFunction(g) = SumFunctionOnSet(g, Sessions)
    BY DEF SumFunction
  <2>2. \A s \in Sessions : g[s] = 0
    BY DEF Init
  <2>3. paid[x]["CASH"] = 0
    BY MethodsAssumption DEF Init
  <2> HIDE DEF g
  <2>4. SumFunctionOnSet(g, Sessions) = 0
    BY <2>2, FiniteAssumption, SumOfZeros
  <2>5. QED
    BY <2>1, <2>3, <2>4 DEF g
<1>4. ChargeAlone
  BY NoSaleAssumption DEF Init, ChargeAlone
<1>5. SalePaidOnce
  BY DEF Init, SalePaidOnce
<1>6. QED
  BY <1>1, <1>2, <1>3, <1>4, <1>5 DEF SalesInv

\* Every statement of every handler preserves the invariant about the sales.
LEMMA NextSales == SalesInv /\ [Next]_vars => SalesInv'
  BY NextTypes, NextUntouched, NextCashBooked, NextChargeAlone, NextPaidOnce DEF SalesInv

\* A sale that one request at a time charges is paid exactly once, its amount
\* due, and a cash payment is in the drawer of the session it is linked to: the
\* payment, the movement and the link are written by one commit.
THEOREM SalePaidOnceHolds == Spec => []SalePaidOnce
<1>1. SalesInv => SalePaidOnce
  BY DEF SalesInv
<1>2. QED
  BY <1>1, InitSales, NextSales, PTL DEF Spec

\* The payments that are not cash are each listed by one session's report.
LEMMA BankedOnce ==
  ASSUME TypeOK, SalesUntouched
  PROVE  SumFunction([s \in Sessions |-> BankedExpected(s)])
           = SumFunction([x \in Sales |-> NonCash(x)])
<1> DEFINE b == [s \in Sessions |-> BankedExpected(s)]
           h == [x \in Sales |-> NonCash(x)]
           group == [x \in Sales |-> IF sale[x].status = "CLOSED" THEN sale[x].session
                                                                ELSE NoSession]
           linked == Members(Sales, group, Sessions)
           unpaid == Sales \ linked
           banked == Methods \ {"CASH"}
<1>a. IsFiniteSet(Sessions) /\ IsFiniteSet(Sales) /\ IsFiniteSet(banked)
  BY FiniteAssumption, FS_Subset
<1>b. sale \in [Sales -> [status : {"DRAFT", "CLOSED"}, session : Sessions \cup {NoSession}]]
      /\ paid \in [Sales -> [Methods -> Nat]]
  BY DEF TypeOK
<1>1. \A x \in Sales : h[x] = SumFunctionOnSet(paid[x], banked)
  BY DEF NonCash
<1>2. ASSUME NEW x \in Sales
      PROVE  h[x] \in Int
  <2>1. \A m \in banked : paid[x][m] \in Int
    BY <1>b
  <2> HIDE DEF banked, h
  <2>2. QED
    BY <1>a, <1>1, <2>1, SumIsInt
<1>3. ASSUME NEW s \in Sessions
      PROVE  b[s] = SumFunctionOnSet(h, Members(Sales, group, {s}))
  <2>1. LinkedSales(s) = Members(Sales, group, {s})
    BY NoSessionAssumption DEF LinkedSales, Members
  <2>2. b[s] = SumFunctionOnSet(h, LinkedSales(s))
    BY DEF BankedExpected
  <2> HIDE DEF b, h, group
  <2>3. QED
    BY <2>1, <2>2
<1>4. SumFunctionOnSet(b, Sessions) = SumFunctionOnSet(h, linked)
  <2> HIDE DEF b, h, group
  <2>1. IsFiniteSet(Sales) /\ IsFiniteSet(Sessions) /\ \A x \in Sales : h[x] \in Int
    BY <1>a, <1>2
  <2>2. SumsOfGroups(b, Sessions, h, Sales, group)
    BY <1>3 DEF SumsOfGroups
  <2>3. SumFunctionOnSet(b, Sessions) = SumFunctionOnSet(h, Members(Sales, group, Sessions))
    BY <2>1, <2>2, SumOfGroups
  <2>4. QED
    BY <2>3
<1>5. ASSUME NEW x \in unpaid
      PROVE  h[x] = 0
  <2>1. sale[x].status = "DRAFT"
    BY <1>b DEF SalesUntouched, Members
  <2>2. \A m \in banked : paid[x][m] = 0
    BY <2>1 DEF SalesUntouched
  <2> HIDE DEF banked, h
  <2>3. QED
    BY <1>a, <1>1, <2>2, SumOfZeros
<1>6. IsFiniteSet(linked) /\ IsFiniteSet(unpaid) /\ linked \cap unpaid = {}
      /\ linked \cup unpaid = Sales
  BY <1>a, FS_Subset DEF Members
<1>7. SumFunction(b) = SumFunctionOnSet(b, Sessions) /\ SumFunction(h) = SumFunctionOnSet(h, Sales)
  BY DEF SumFunction
<1> HIDE DEF b, h, linked, unpaid
<1>8. SumFunctionOnSet(h, unpaid) = 0
  BY <1>5, <1>6, SumOfZeros
<1>9. SumFunctionOnSet(h, Sales) = SumFunctionOnSet(h, linked) + SumFunctionOnSet(h, unpaid)
  BY <1>2, <1>6, SumUnion
<1>10. SumFunctionOnSet(h, linked) \in Int
  BY <1>2, <1>6, SumIsInt
<1>11. SumFunction(b) = SumFunction(h)
  BY <1>4, <1>7, <1>8, <1>9, <1>10
<1>12. QED
  BY <1>11 DEF b, h

\* Whatever overlaps, the Z reports of all sessions together account for every
\* payment once: cash as movements of the drawers, the rest by the session that
\* the sale was linked to when it was closed.
THEOREM ZReportsAreComplete == Spec => []ZReportsComplete
<1>1. SalesInv => ZReportsComplete
  BY BankedOnce DEF SalesInv, CashBooked, ZReportsComplete
<1>2. QED
  BY <1>1, InitSales, NextSales, PTL DEF Spec

=============================================================================
