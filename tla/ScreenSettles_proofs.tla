------------------------ MODULE ScreenSettles_proofs ------------------------
(***************************************************************************)
(* The proof of ScreenSettles, for any number of zones, tables, sales,     *)
(* products, requests and calls.                                           *)
(*                                                                         *)
(* That the screens settle is known only once everything has come; until   *)
(* then it is what is still to come that makes up the difference.  The     *)
(* calls that the API has still to serve make of what is stored what the   *)
(* waiter wants and sees (AccountInv); and where the list and the room     *)
(* differ, or the room and an answer, another answer that comes later      *)
(* tells of it (FloorInv).                                                 *)
(***************************************************************************)
EXTENDS PosScreen_proofs

-----------------------------------------------------------------------------
(* The inductive invariant about the account *)

\* An item call that the API has still to serve.
Coming(k) == call[k].op \in ItemOps /\ call[k].step = "sent"
ComingFor(p) == {k \in Calls : Coming(k) /\ call[k].product = p}
AddsBehind(p, c) == {k \in ComingFor(p) : call[k].op = "add" /\ c \in call[k].behind}
LastChange(p, c) ==
  /\ c \in ComingFor(p) /\ call[c].op = "change"
  /\ \A d \in ComingFor(p) \ {c} : call[d].op = "change" => d \in call[c].behind

\* With n of product p stored, the calls to come make it m.
Makes(n, p, m) ==
  /\ (\A k \in ComingFor(p) : call[k].op = "add") => m = n + Cardinality(ComingFor(p))
  /\ \A c \in Calls : LastChange(p, c) => m = call[c].quantity + Cardinality(AddsBehind(p, c))

\* One of them is about an account that is closed: it will be refused.
Lost == \E k \in Calls : Coming(k) /\ call[k].sale \notin Drafts

\* What is stored becomes what is wanted.
WantedComes ==
  ~upset /\ ~Lost =>
    \A x \in Drafts, p \in Products : Makes(sale[x].lines[p].quantity, p, wanted[p])

\* What is shown is what is wanted.
ShowsWanted(a) == a.sale \in Drafts => Quantities(a.lines) = wanted
Displayed ==
  /\ ~upset /\ ~pull.mixed => ShowsWanted(account)
  /\ ~upset /\ ~pull.early /\ pull.step = "arriving" => ShowsWanted(pull.data)

\* What was read is stored, and so is what is shown when no item call is under way.
ItemBack(k) == call[k].op \in ItemOps /\ ~Coming(k)
AccountBack(k) == call[k].op \in {"open", "charge"} /\ call[k].step = "done"
IsStored(a) ==
  /\ a.sale \in Drafts => a = Current
  /\ (\A k \in Calls : ~AccountBack(k)) => a = Current
Read ==
  /\ pull.step = "arriving" /\ ~elsewhere /\ (\A k \in Calls : ~ItemBack(k)) => IsStored(pull.data)
  /\ page = "pos" /\ pull.step = "idle" /\ ~pull.failed /\ ~elsewhere
       /\ (\A k \in Calls : call[k].op \notin ItemOps) => IsStored(account)

\* The accounts that are spoken of have been opened, and a refusal is remembered.
Opened(x) == x = NoId \/ (x \in Sales /\ sale[x].status # "none")
Said(k) ==
  /\ Opened(call[k].sale) /\ Opened(call[k].previous.sale)
  /\ call[k].op \in ItemOps => call[k].step \in {"sent", "done", "refused"}
  /\ call[k].op \in ItemOps /\ call[k].step = "refused" => upset
AllSaid ==
  /\ Opened(account.sale) /\ Opened(pull.data.sale)
  /\ wanted \in [Products -> Nat]
  /\ \A k \in Calls : Said(k)

\* Of two item calls that are to come one is behind the other.
Queue ==
  \A k \in Calls :
    /\ call[k].behind \subseteq {j \in Calls : Coming(j)}
    /\ \A j \in Calls \ {k} : Coming(j) /\ Coming(k) => j \in call[k].behind \/ k \in call[j].behind

AccountInv == AllSaid /\ Queue /\ WantedComes /\ Displayed /\ Read

-----------------------------------------------------------------------------
(* Calls that nobody waits behind *)

\* A call that stays, but for what it was behind and is over.
Stays(j) ==
  /\ call'[j].op = call[j].op /\ call'[j].step = call[j].step /\ call'[j].sale = call[j].sale
  /\ call'[j].product = call[j].product /\ call'[j].quantity = call[j].quantity
  /\ call'[j].previous = call[j].previous
  /\ call'[j].behind \subseteq call[j].behind
  /\ \A i \in Calls : Coming(i) => (i \in call'[j].behind <=> i \in call[j].behind)

\* A call that is not to come, before and after.
Aside(j) ==
  /\ ~Coming(j) /\ ~Coming(j)'
  /\ call'[j].behind \subseteq {i \in Calls : Coming(i)}

AllAside == \A j \in Calls : Stays(j) \/ Aside(j)

\* The same calls are to come.
LEMMA ComingSame ==
  ASSUME AllAside, NEW j \in Calls
  PROVE  /\ Coming(j)' <=> Coming(j)
         /\ Coming(j) => Stays(j)
  BY DEF AllAside, Stays, Aside, Coming

\* They wait for each other as before.
LEMMA QueueSame ==
  ASSUME AllAside, Queue
  PROVE  Queue'
<1>1. \A j \in Calls : (Coming(j)' <=> Coming(j)) /\ (Coming(j) => Stays(j))
  BY ComingSame
<1>2. ASSUME NEW k \in Calls
      PROVE  call'[k].behind \subseteq {j \in Calls : Coming(j)'}
  BY <1>1 DEF AllAside, Stays, Aside, Queue
<1>3. ASSUME NEW k \in Calls, NEW j \in Calls \ {k}, Coming(j)', Coming(k)'
      PROVE  j \in call'[k].behind \/ k \in call'[j].behind
  BY <1>1, <1>3 DEF Stays, Queue
<1>4. QED BY <1>2, <1>3 DEF Queue

\* They make the same of what is stored.
LEMMA MakesSame ==
  ASSUME AllAside, NEW n, NEW p, NEW m, Makes(n, p, m)
  PROVE  Makes(n, p, m)'
<1>1. \A j \in Calls : (Coming(j)' <=> Coming(j)) /\ (Coming(j) => Stays(j))
  BY ComingSame
<1>2. ComingFor(p)' = ComingFor(p)
  BY <1>1 DEF ComingFor, Stays
<1>3. \A k \in ComingFor(p) : k \in Calls /\ Coming(k) /\ call'[k].op = call[k].op
  BY <1>1 DEF ComingFor, Stays
<1>4. ASSUME NEW c \in Calls, LastChange(p, c)'
      PROVE  m = call'[c].quantity + Cardinality(AddsBehind(p, c)')
  <2>1. c \in ComingFor(p) /\ Coming(c) /\ Stays(c)
    BY <1>1, <1>2, <1>3, <1>4 DEF LastChange
  <2>2. LastChange(p, c)
    BY <1>2, <1>3, <1>4, <2>1 DEF LastChange, Stays
  <2>3. AddsBehind(p, c)' = AddsBehind(p, c)
    BY <1>1, <1>2, <1>3, <2>1 DEF AddsBehind, Stays
  <2>4. QED BY <2>1, <2>2, <2>3 DEF Makes, Stays
<1>5. QED BY <1>2, <1>3, <1>4 DEF Makes

\* So what is stored and what is wanted are as far apart as before.
LEMMA WantedSame ==
  ASSUME AllAside, WantedComes, sale' = sale, wanted' = wanted, upset => upset'
  PROVE  WantedComes'
<1> SUFFICES ASSUME ~upset', ~Lost', NEW x \in Drafts', NEW p \in Products
             PROVE  Makes(sale[x].lines[p].quantity, p, wanted[p])'
  BY DEF WantedComes
<1>1. Drafts' = Drafts
  BY DEF Drafts
<1>2. ~Lost
  BY <1>1, ComingSame DEF Lost, Stays
<1>3. Makes(sale[x].lines[p].quantity, p, wanted[p])
  BY <1>1, <1>2 DEF WantedComes
<1> DEFINE n == sale[x].lines[p].quantity
           m == wanted[p]
<1>4. ASSUME NEW i, NEW j, Makes(i, p, j)
      PROVE  Makes(i, p, j)'
  BY <1>4, MakesSame
<1>5. PICK i, j : i = n /\ j = m
  OBVIOUS
<1>6. Makes(i, p, j)'
  BY <1>3, <1>4, <1>5
<1>7. n' = i /\ m' = j
  BY <1>5
<1>8. QED BY <1>6, <1>7 DEF Makes, LastChange, AddsBehind, ComingFor, Coming

-----------------------------------------------------------------------------
(* Steps after which the same calls are to come *)

\* A call that is not touched.
LEMMA SameStays ==
  ASSUME NEW j \in Calls, call'[j] = call[j]
  PROVE  Stays(j)
  BY DEF Stays

\* A call that is behind one less, which was not to come.
LEMMA TrimmedStays ==
  ASSUME NEW j \in Calls, CallTyped(j), NEW k, ~Coming(k),
         call'[j] = [call[j] EXCEPT !.behind = call[j].behind \ {k}]
  PROVE  Stays(j)
<1>1. /\ call'[j].op = call[j].op /\ call'[j].step = call[j].step /\ call'[j].sale = call[j].sale
      /\ call'[j].product = call[j].product /\ call'[j].quantity = call[j].quantity
      /\ call'[j].previous = call[j].previous /\ call'[j].behind = call[j].behind \ {k}
  BY DEF CallTyped, NoCall
<1>2. QED BY <1>1 DEF Stays

\* The sales that were opened once stay so.
OpenedStay == \A x \in Sales : sale[x].status # "none" => sale'[x].status # "none"

\* What was said still is.
LEMMA SaidSame ==
  ASSUME AllSaid, OpenedStay, upset => upset' \/ \A j \in Calls : ~ItemBack(j),
         \/ account'.sale = account.sale \/ account' = pull.data
         \/ \E j \in Calls : account' = call[j].previous,
         pull'.data.sale = pull.data.sale,
         wanted' \in [Products -> Nat],
         \A j \in Calls : Stays(j) \/ Said(j)'
  PROVE  AllSaid'
<1>1. \A x : Opened(x) => (x = NoId \/ (x \in Sales /\ sale'[x].status # "none"))
  BY DEF Opened, OpenedStay
<1>2. Opened(account.sale)' /\ Opened(pull.data.sale)'
  BY <1>1 DEF Opened, AllSaid, Said
<1>3. ASSUME NEW j \in Calls, Stays(j)
      PROVE  Said(j)'
  BY <1>1, <1>3 DEF Opened, AllSaid, Said, Stays, ItemBack, Coming
<1>4. QED BY <1>2, <1>3 DEF AllSaid

\* The fetch stays as it is, or brings nothing yet.
PullGoesOn ==
  /\ pull'.mixed = pull.mixed /\ pull'.data = pull.data
  /\ pull' = pull \/ pull'.step \in {"idle", "asked"}

\* What is shown is wanted as before.
LEMMA DisplayedSame ==
  ASSUME Displayed, Drafts' = Drafts, wanted' = wanted, account' = account \/ upset', PullGoesOn,
         upset => upset'
  PROVE  Displayed'
  BY DEF Displayed, ShowsWanted, PullGoesOn, Quantities

\* A call that was answered still is.
Backs(j) ==
  /\ call[j].op \in ItemOps => call'[j].op \in ItemOps
  /\ ItemBack(j) => ItemBack(j)'
  /\ AccountBack(j) => AccountBack(j)' \/ elsewhere'

\* And is if nothing else happens to it.
LEMMA StaysBacks ==
  ASSUME NEW j \in Calls, Stays(j)
  PROVE  Backs(j)
  BY DEF Stays, Backs, ItemBack, Coming, AccountBack

\* What was read is stored as before.
LEMMA ReadSame ==
  ASSUME Read, sale' = sale, account' = account, elsewhere => elsewhere',
         \A j \in Calls : Backs(j),
         \/ pull' = pull /\ (page' = page \/ page' # "pos")
         \/ pull'.step = "asked"
         \/ pull'.step = "idle" /\ pull'.failed
  PROVE  Read'
<1>1. Current' = Current /\ Drafts' = Drafts
  BY DEF Current, Drafts
<1>2. ASSUME NEW a, IsStored(a), ~elsewhere'
      PROVE  IsStored(a)'
  BY <1>1, <1>2 DEF IsStored, Backs
<1>3. ~elsewhere' /\ (\A k \in Calls : ~ItemBack(k)') => \A k \in Calls : ~ItemBack(k)
  BY DEF Backs
<1>4. (\A k \in Calls : call'[k].op \notin ItemOps) => \A k \in Calls : call[k].op \notin ItemOps
  BY DEF Backs
<1>5. ASSUME pull' = pull, pull.step = "arriving", ~elsewhere', \A k \in Calls : ~ItemBack(k)'
      PROVE  IsStored(pull.data)'
  <2>1. IsStored(pull.data)
    BY <1>3, <1>5 DEF Read
  <2>2. QED BY <1>1, <1>5, <2>1 DEF IsStored, Backs
<1>6. ASSUME pull' = pull, page' = page, page = "pos", pull.step = "idle", ~pull.failed, ~elsewhere',
             \A k \in Calls : call'[k].op \notin ItemOps
      PROVE  IsStored(account)'
  <2>1. IsStored(account)
    BY <1>4, <1>6 DEF Read
  <2>2. QED BY <1>1, <1>6, <2>1 DEF IsStored, Backs
<1>7. QED BY <1>5, <1>6 DEF Read

\* The calls to come are the same, and so is what they are to change.
LEMMA AsideKeeps ==
  ASSUME AccountInv, sale' = sale, wanted' = wanted, upset => upset', PullGoesOn, Read',
         \A j \in Calls : Stays(j) \/ (Aside(j) /\ Said(j)'),
         \/ account' = account
         \/ upset' /\ \E j \in Calls : account' = call[j].previous
  PROVE  AccountInv'
<1>1. AllAside
  BY DEF AllAside
<1>2. Queue' /\ WantedComes'
  BY <1>1, QueueSame, WantedSame DEF AccountInv
<1>3. Drafts' = Drafts /\ OpenedStay
  BY DEF Drafts, OpenedStay
<1>4. Displayed'
  BY <1>3, DisplayedSame DEF AccountInv
<1>5. AllSaid'
  BY <1>3, SaidSame DEF AccountInv, AllSaid, PullGoesOn
<1>6. QED BY <1>2, <1>4, <1>5 DEF AccountInv

-----------------------------------------------------------------------------
(* The screen, and the answers *)

\* Nothing happens to the calls or the account.
LEMMA NothingKeeps ==
  ASSUME AccountInv, UNCHANGED <<sale, account, call, wanted, upset, elsewhere>>, PullGoesOn,
         \/ pull' = pull /\ (page' = page \/ page' # "pos")
         \/ pull'.step = "asked"
         \/ pull'.step = "idle" /\ pull'.failed
  PROVE  AccountInv'
<1>1. \A j \in Calls : Stays(j) /\ Backs(j)
  BY SameStays, StaysBacks
<1>2. Read'
  BY <1>1, ReadSame DEF AccountInv
<1>3. QED BY <1>1, <1>2, AsideKeeps

\* Dialogs, and a fetch that fails.
LEMMA DialogsKeep ==
  ASSUME PosTypes, AccountInv, OpenCharge \/ TypeAmount \/ CloseDialog \/ PullFails
  PROVE  AccountInv'
<1>1. UNCHANGED <<page, sale, account, call, wanted, upset, elsewhere>>
  BY DEF OpenCharge, TypeAmount, CloseDialog, PullFails, floorVars
<1>2. pull' = pull \/ pull' = [pull EXCEPT !.step = "idle", !.early = FALSE, !.failed = TRUE]
  BY DEF OpenCharge, TypeAmount, CloseDialog, PullFails
<1>3. PullGoesOn /\ (pull' = pull \/ (pull'.step = "idle" /\ pull'.failed))
  BY <1>2, CountedTyped DEF PullGoesOn, PullTyped, Fetched
<1>4. QED BY <1>1, <1>3, NothingKeeps

\* Another page.
LEMMA TurnsKeeps ==
  ASSUME PosTypes, AccountInv, NEW p, Turns(p)
  PROVE  AccountInv'
<1>1. /\ UNCHANGED <<sale, account, wanted, upset, elsewhere>> /\ page' = p
      /\ pull' = IF p = "pos" /\ pull.step = "idle" THEN [pull EXCEPT !.step = "asked"] ELSE pull
      /\ call' = [k \in Calls |-> [call[k] EXCEPT !.here = FALSE]] /\ page # p
  BY DEF Turns, GoTo
<1>2. ASSUME NEW j \in Calls
      PROVE  Stays(j) /\ Backs(j)
  <2>1. CallTyped(j) /\ call'[j] = [call[j] EXCEPT !.here = FALSE]
    BY <1>1, CountedTyped DEF CallsTyped
  <2>2. Stays(j)
    BY <2>1 DEF Stays, CallTyped, NoCall
  <2>3. QED BY <2>2, StaysBacks
<1>3. \/ pull'.step = "asked"
      \/ pull' = pull /\ page' # "pos"
      \/ pull' = pull /\ pull.step \in {"asked", "arriving"}
  BY <1>1, CountedTyped DEF PullTyped, Fetched
<1>4. PullGoesOn
  BY <1>1, CountedTyped DEF PullGoesOn, PullTyped, Fetched
<1>5. Read'
  <2>1. CASE pull'.step = "asked" \/ (pull' = pull /\ page' # "pos")
    BY <1>1, <1>2, <2>1, ReadSame DEF AccountInv
  <2>2. CASE pull' = pull /\ pull.step \in {"asked", "arriving"}
    <3>1. Current' = Current /\ Drafts' = Drafts
      BY <1>1 DEF Current, Drafts
    <3>2. (\A k \in Calls : ~ItemBack(k)') => \A k \in Calls : ~ItemBack(k)
      BY <1>2 DEF Backs
    <3>3. (\A k \in Calls : ~AccountBack(k)') /\ ~elsewhere => \A k \in Calls : ~AccountBack(k)
      BY <1>1, <1>2 DEF Backs
    <3>4. QED BY <1>1, <2>2, <3>1, <3>2, <3>3 DEF AccountInv, Read, IsStored
  <2>3. QED BY <1>3, <2>1, <2>2
<1>6. QED BY <1>1, <1>2, <1>4, <1>5, AsideKeeps

\* The waiter comes to the screen or leaves it.
LEMMA VisitsKeep ==
  ASSUME PosTypes, AccountInv, CloseReceipt \/ \E p \in {"floor", "tables", "pos"} : Visit(p)
  PROVE  AccountInv'
  BY TurnsKeeps DEF CloseReceipt, Visit

\* A call of the screen that changes no line.
LEMMA BeginsKeeps ==
  ASSUME PosTypes, AccountInv, NEW k \in Calls, NEW c, Begins(k, c),
         UNCHANGED <<page, sale, account, pull, wanted, upset, elsewhere>>,
         DOMAIN c = DOMAIN NoCall, c.op \in {"open", "charge", "command"},
         Opened(c.sale), c.previous = Unknown
  PROVE  AccountInv'
<1> DEFINE late == {j \in Waiting : call[j].step = "sent"}
           d == [c EXCEPT !.step = "sent", !.here = page = "pos", !.behind = late]
<1>1. /\ call[k] = NoCall /\ call' = [call EXCEPT ![k] = d]
      /\ late \subseteq {j \in Calls : Coming(j)}
  BY DEF Begins, Waiting, Coming
<1>2. /\ d.op = c.op /\ d.step = "sent" /\ d.behind = late /\ d.sale = c.sale
      /\ d.previous = c.previous
  BY DEF NoCall
<1> HIDE DEF late, d
<1>3. call'[k] = d /\ \A j \in Calls \ {k} : call'[j] = call[j]
  BY <1>1, CountedTyped DEF CallsTyped
<1>4. c.op \notin ItemOps
  BY DEF ItemOps
<1>5. Aside(k) /\ ~ItemBack(k) /\ ~AccountBack(k) /\ call[k].op \notin ItemOps
  BY <1>1, <1>2, <1>3, <1>4 DEF Aside, Coming, ItemBack, AccountBack, NoCall, ItemOps
<1>6. Said(k)'
  BY <1>2, <1>3, <1>4 DEF Said, Opened, Unknown
<1>7. \A j \in Calls \ {k} : Stays(j) /\ Backs(j)
  BY <1>3, SameStays, StaysBacks
<1>8. Backs(k)
  BY <1>5 DEF Backs
<1>9. Read'
  BY <1>7, <1>8, ReadSame DEF AccountInv
<1>10. QED BY <1>5, <1>6, <1>7, <1>9, AsideKeeps DEF PullGoesOn

\* An account is opened or charged, or a comanda printed.
LEMMA SubmitsKeep ==
  ASSUME PosTypes, AccountInv, NEW k \in Calls, SubmitOpen(k) \/ Command(k) \/ SubmitCharge(k)
  PROVE  AccountInv'
<1>1. UNCHANGED <<page, sale, account, pull, wanted, upset, elsewhere>> /\ Opened(account.sale)
  BY DEF SubmitOpen, Command, SubmitCharge, floorVars, AccountInv, AllSaid
<1>2. ASSUME NEW c, Begins(k, c), DOMAIN c = DOMAIN NoCall, c.op \in {"open", "charge", "command"},
             c.sale \in {NoId, account.sale}, c.previous = Unknown
      PROVE  AccountInv'
  BY <1>1, <1>2, BeginsKeeps DEF Opened
<1>3. CASE SubmitOpen(k)
  <2> DEFINE c == [NoCall EXCEPT !.op = "open", !.product = pending]
  <2>1. Begins(k, c)
    BY <1>3 DEF SubmitOpen
  <2>2. DOMAIN c = DOMAIN NoCall /\ c.op = "open" /\ c.sale = NoId /\ c.previous = Unknown
    BY DEF NoCall
  <2> HIDE DEF c
  <2>3. QED BY <1>2, <2>1, <2>2
<1>4. CASE Command(k)
  <2> DEFINE c == [NoCall EXCEPT !.op = "command", !.sale = account.sale]
  <2>1. Begins(k, c)
    BY <1>4 DEF Command
  <2>2. DOMAIN c = DOMAIN NoCall /\ c.op = "command" /\ c.sale = account.sale /\ c.previous = Unknown
    BY DEF NoCall
  <2> HIDE DEF c
  <2>3. QED BY <1>2, <2>1, <2>2
<1>5. CASE SubmitCharge(k)
  <2> DEFINE c == [NoCall EXCEPT !.op = "charge", !.sale = account.sale, !.amount = amount]
  <2>1. Begins(k, c)
    BY <1>5 DEF SubmitCharge
  <2>2. DOMAIN c = DOMAIN NoCall /\ c.op = "charge" /\ c.sale = account.sale /\ c.previous = Unknown
    BY DEF NoCall
  <2> HIDE DEF c
  <2>3. QED BY <1>2, <2>1, <2>2
<1>6. QED BY <1>3, <1>4, <1>5

\* A call that is over was not to come any more.
LEMMA EndsAside ==
  ASSUME CallsTyped, NEW k \in Calls, Ends(k), ~Coming(k)
  PROVE  /\ Aside(k) /\ Said(k)' /\ call'[k] = NoCall
         /\ \A j \in Calls \ {k} : Stays(j)
<1>1. /\ call'[k] = NoCall
      /\ \A j \in Calls \ {k} : call'[j] = [call[j] EXCEPT !.behind = call[j].behind \ {k}]
  BY DEF Ends
<1>2. Aside(k) /\ Said(k)'
  BY <1>1 DEF Aside, Coming, NoCall, ItemOps, Said, Opened, Unknown
<1>3. QED BY <1>1, <1>2, TrimmedStays DEF CallsTyped

\* The screen is told of the end of a call that changes no line.
LEMMA EndsKeeps ==
  ASSUME PosTypes, AccountInv, NEW k \in Calls, Ends(k),
         call[k].op \in {"open", "charge", "command"},
         ~AccountBack(k), UNCHANGED <<page, sale, account, pull, wanted, upset, elsewhere>>
  PROVE  AccountInv'
<1>1. CallsTyped /\ ~Coming(k) /\ call[k].op \notin ItemOps
  BY CountedTyped DEF Coming, ItemOps
<1>2. /\ Aside(k) /\ Said(k)'
      /\ \A j \in Calls \ {k} : Stays(j) /\ Backs(j)
  BY <1>1, EndsAside, StaysBacks
<1>3. Backs(k)
  BY <1>1 DEF Backs, ItemBack
<1>4. Read'
  BY <1>2, <1>3, ReadSame DEF AccountInv
<1>5. QED BY <1>2, <1>4, AsideKeeps DEF PullGoesOn

\* The receipt, the comanda, an error.
LEMMA AnswersEnd ==
  ASSUME PosTypes, AccountInv, NEW k \in Calls,
         \/ ChargeSettled(k) \/ AnswerCommand(k) \/ AnswerRefusal(k)
         \/ OpenSettled(k) /\ call[k].product = Nothing
  PROVE  AccountInv'
<1>1. /\ Ends(k) /\ UNCHANGED <<page, sale, account, pull, wanted, upset, elsewhere>>
      /\ call[k].op \in {"open", "charge", "command"}
      /\ call[k].step # "done" \/ call[k].op = "command"
  BY DEF ChargeSettled, AnswerCommand, AnswerRefusal, OpenSettled, Settled, floorVars
<1>2. QED BY <1>1, EndsKeeps DEF AccountBack

\* After an answer the account is fetched again, or counts as unknown.
LEMMA InvalidatesReads ==
  ASSUME PosTypes, Invalidates
  PROVE  /\ PullGoesOn /\ page' = page /\ (elsewhere => elsewhere')
         /\ Read'
<1>1. /\ page' = page /\ PullTyped
      /\ IF page = "pos"
           THEN /\ pull' = [pull EXCEPT !.step = "asked", !.early = FALSE]
                /\ elsewhere' = elsewhere
           ELSE /\ pull' = pull
                /\ elsewhere' = (elsewhere \/ pull.step = "arriving")
  BY CountedTyped DEF Invalidates
<1>2. CASE page = "pos"
  <2>1. /\ pull'.step = "asked" /\ pull'.mixed = pull.mixed /\ pull'.data = pull.data
        /\ elsewhere' = elsewhere
    BY <1>1, <1>2 DEF PullTyped, Fetched
  <2>2. QED BY <1>1, <2>1 DEF PullGoesOn, Read
<1>3. CASE page # "pos"
  BY <1>1, <1>3 DEF PullGoesOn, Read
<1>4. QED BY <1>2, <1>3

\* The answer to a change of a line.
LEMMA AnswerItemKeeps ==
  ASSUME PosTypes, AccountInv, NEW k \in Calls, AnswerItem(k)
  PROVE  AccountInv'
<1>1. /\ call[k].op \in ItemOps /\ call[k].step \in {"done", "refused"} /\ Ends(k) /\ Invalidates
      /\ account' = account \/ (call[k].step = "refused" /\ account' = call[k].previous)
      /\ UNCHANGED <<sale, wanted, upset>>
  BY DEF AnswerItem
<1>2. /\ PullGoesOn /\ Read'
  BY <1>1, InvalidatesReads
<1>3. CallsTyped /\ ~Coming(k)
  BY <1>1, CountedTyped DEF Coming
<1>4. /\ Aside(k) /\ Said(k)'
      /\ \A j \in Calls \ {k} : Stays(j)
  BY <1>1, <1>3, EndsAside
<1>5. account' = account \/ (upset' /\ account' = call[k].previous)
  BY <1>1 DEF AccountInv, AllSaid, Said
<1>6. QED BY <1>1, <1>2, <1>4, <1>5, AsideKeeps

\* The answer that an account is open or charged.
LEMMA AnswerAccountKeeps ==
  ASSUME PosTypes, AccountInv, NEW k \in Calls, AnswerAccount(k)
  PROVE  AccountInv'
<1>1. /\ call[k].op \in {"open", "charge"} /\ call' = [call EXCEPT ![k].step = "settling"]
      /\ Invalidates /\ UNCHANGED <<sale, account, wanted, upset>>
  BY DEF AnswerAccount
<1>2. /\ PullGoesOn /\ Read'
  BY <1>1, InvalidatesReads
<1>3. CallsTyped /\ DOMAIN call = Calls /\ CallTyped(k)
  BY CountedTyped DEF CallsTyped
<1>4. /\ call'[k].op = call[k].op /\ call'[k].step = "settling" /\ call'[k].behind = call[k].behind
      /\ call'[k].sale = call[k].sale /\ call'[k].previous = call[k].previous
      /\ \A j \in Calls \ {k} : call'[j] = call[j]
  BY <1>1, <1>3 DEF CallTyped, NoCall
<1>5. Aside(k) /\ Said(k)'
  BY <1>1, <1>4 DEF Aside, Coming, ItemOps, AccountInv, Queue, AllSaid, Said, Opened
<1>6. \A j \in Calls \ {k} : Stays(j)
  BY <1>4, SameStays
<1>7. QED BY <1>1, <1>2, <1>5, <1>6, AsideKeeps

-----------------------------------------------------------------------------
(* The account is fetched *)

\* The open account is the one that is read.
LEMMA CurrentIs ==
  ASSUME SalesTypeOK, NEW x \in Drafts
  PROVE  Current = [sale |-> x, known |-> TRUE, lines |-> sale[x].lines]
<1> DEFINE y == CHOOSE y \in Drafts : TRUE
<1>1. Drafts # {} /\ y \in Drafts /\ x \in Sales
  BY DEF Drafts
<1>2. y = x
  BY <1>1 DEF SalesTypeOK
<1>3. Current = [sale |-> y, known |-> TRUE, lines |-> sale[y].lines]
  BY <1>1 DEF Current
<1> HIDE DEF y
<1>4. QED BY <1>2, <1>3

\* When no call is to come, what is stored is wanted.
LEMMA StoredIsWanted ==
  ASSUME SalesTypeOK, AllSaid, WantedComes, ~upset, \A k \in Calls : ~Coming(k)
  PROVE  ShowsWanted(Current)
<1>1. ASSUME NEW x \in Drafts
      PROVE  Quantities(Current.lines) = wanted
  <2>1. x \in Sales /\ Current.lines = sale[x].lines /\ sale[x].lines \in [Products -> Line]
    BY CurrentIs DEF Drafts, SalesTypeOK
  <2>2. ~Lost
    BY DEF Lost
  <2>3. ASSUME NEW p \in Products
        PROVE  wanted[p] = sale[x].lines[p].quantity
    <3>1. Makes(sale[x].lines[p].quantity, p, wanted[p])
      BY <2>2 DEF WantedComes
    <3>2. ComingFor(p) = {}
      BY DEF ComingFor
    <3>3. Cardinality(ComingFor(p)) = 0 /\ sale[x].lines[p].quantity \in Nat
      BY <2>1, <3>2, FS_EmptySet DEF Line
    <3>4. wanted[p] = sale[x].lines[p].quantity + Cardinality(ComingFor(p))
      BY <3>1, <3>2 DEF Makes
    <3>5. QED BY <3>3, <3>4
  <2>4. QED BY <2>1, <2>3 DEF Quantities, AllSaid
<1>2. QED BY <1>1 DEF ShowsWanted

\* The account is read in the database.
LEMMA PullReadsKeeps ==
  ASSUME PosTypes, AccountInv, PullReads
  PROVE  AccountInv'
<1> DEFINE sent == \E k \in Waiting : call[k].step = "sent"
<1>1. /\ UNCHANGED <<page, sale, account, call, wanted, upset>>
      /\ pull' = [pull EXCEPT !.step = "arriving", !.data = Current, !.early = sent]
  BY DEF PullReads, floorVars
<1>2. /\ pull'.step = "arriving" /\ pull'.data = Current /\ pull'.early = sent
      /\ pull'.mixed = pull.mixed
  BY <1>1, CountedTyped DEF PullTyped, Fetched
<1>3. Drafts' = Drafts /\ Current' = Current
  BY <1>1 DEF Drafts, Current
<1>4. \A j \in Calls : Stays(j)
  BY <1>1, SameStays
<1>5. Queue' /\ WantedComes'
  BY <1>1, <1>4, QueueSame, WantedSame DEF AccountInv, AllAside
<1>6. ~sent => \A k \in Calls : ~Coming(k)
  BY DEF Waiting, Unanswered, Coming, ItemOps
<1>7. ~upset /\ ~sent => ShowsWanted(Current)
  BY <1>6, StoredIsWanted, CountedTyped DEF AccountInv
<1> HIDE DEF sent
<1>8. Displayed'
  BY <1>1, <1>2, <1>3, <1>7 DEF AccountInv, Displayed, ShowsWanted, Quantities
<1>9. Read'
  BY <1>2, <1>3 DEF Read, IsStored
<1>10. AllSaid'
  <2>1. Opened(Current.sale)
    <3>1. CASE Drafts = {}
      BY <3>1 DEF Current, NoAccount, Unknown, Opened
    <3>2. ASSUME NEW x \in Drafts
          PROVE  Opened(Current.sale)
      BY CurrentIs, CountedTyped DEF Opened, Drafts
    <3>3. QED BY <3>1, <3>2
  <2>2. QED BY <1>1, <1>2, <2>1 DEF AccountInv, AllSaid, Said, Opened
<1>11. QED BY <1>5, <1>8, <1>9, <1>10 DEF AccountInv

\* The account that was read comes on the screen.
LEMMA PullArrivesKeeps ==
  ASSUME PosTypes, AccountInv, PullArrives
  PROVE  AccountInv'
<1>1. /\ UNCHANGED <<page, sale, call, wanted, upset, elsewhere>> /\ pull.step = "arriving"
      /\ account' = pull.data /\ pull' = [Fetched EXCEPT !.mixed = pull.early]
  BY DEF PullArrives, floorVars
<1>2. pull'.step = "idle" /\ pull'.data = Unknown /\ pull'.mixed = pull.early
  BY <1>1 DEF Fetched
<1>3. Drafts' = Drafts /\ Current' = Current
  BY <1>1 DEF Drafts, Current
<1>4. \A j \in Calls : Stays(j)
  BY <1>1, SameStays
<1>5. Queue' /\ WantedComes'
  BY <1>1, <1>4, QueueSame, WantedSame DEF AccountInv, AllAside
<1>6. Displayed'
  BY <1>1, <1>2, <1>3 DEF AccountInv, Displayed, ShowsWanted, Quantities
<1>7. Read'
  <2>1. (\A k \in Calls : call[k].op \notin ItemOps) => \A k \in Calls : ~ItemBack(k)
    BY DEF ItemBack
  <2>2. QED BY <1>1, <1>2, <1>3, <2>1 DEF AccountInv, Read, IsStored, AccountBack
<1>8. AllSaid'
  BY <1>1, <1>2 DEF AccountInv, AllSaid, Said, Opened, Unknown
<1>9. QED BY <1>5, <1>6, <1>7, <1>8 DEF AccountInv

-----------------------------------------------------------------------------
(* The API *)

\* What another waiter does is unknown to the screen.
LEMMA WaiterKeeps ==
  ASSUME PosTypes, AccountInv, OtherWaiter
  PROVE  AccountInv'
<1>1. UNCHANGED <<page, account, pull, call, wanted>> /\ upset' = TRUE /\ elsewhere' = TRUE
  BY DEF OtherWaiter, Untouched
<1>2. OpenedStay
  <2>1. \/ \E x \in Drafts, p \in Products : sale' = [sale EXCEPT ![x].lines[p].quantity = @ + 1]
        \/ \E x \in Sales, s \in {"DRAFT", "CLOSED"} : sale' = [sale EXCEPT ![x].status = s]
    BY DEF OtherWaiter, Drafts
  <2>2. QED BY <2>1, CountedTyped DEF OpenedStay, SalesTypeOK
<1>3. \A j \in Calls : Stays(j)
  BY <1>1, SameStays
<1>4. Queue'
  BY <1>3, QueueSame DEF AccountInv, AllAside
<1>5. AllSaid'
  BY <1>1, <1>2, <1>3, SaidSame DEF AccountInv, AllSaid
<1>6. WantedComes' /\ Displayed' /\ Read'
  BY <1>1 DEF WantedComes, Displayed, Read
<1>7. QED BY <1>4, <1>5, <1>6 DEF AccountInv

\* A call that was answered without a change of a line.
LEMMA ServesKeeps ==
  ASSUME PosTypes, AccountInv, NEW k \in Calls, ~Coming(k), ~Coming(k)', Backs(k),
         call'[k].behind = call[k].behind, Said(k)',
         \A j \in Calls \ {k} : Stays(j),
         UNCHANGED <<page, sale, account, pull, wanted>>, upset => upset', elsewhere => elsewhere'
  PROVE  AccountInv'
<1>1. Aside(k)
  BY DEF Aside, AccountInv, Queue
<1>2. \A j \in Calls : Backs(j)
  BY StaysBacks
<1>3. Read'
  BY <1>2, ReadSame DEF AccountInv
<1>4. QED BY <1>1, <1>3, AsideKeeps DEF PullGoesOn

\* A call comes back.
LEMMA ReturnsMoves ==
  ASSUME CallsTyped, NEW k \in Calls, NEW result, Returns(k, result)
  PROVE  /\ call'[k].op = call[k].op /\ call'[k].step = result /\ call'[k].sale = call[k].sale
         /\ call'[k].previous = call[k].previous /\ call'[k].behind = call[k].behind
         /\ \A j \in Calls \ {k} :
              /\ call'[j].op = call[j].op /\ call'[j].step = call[j].step
              /\ call'[j].sale = call[j].sale /\ call'[j].product = call[j].product
              /\ call'[j].quantity = call[j].quantity /\ call'[j].previous = call[j].previous
              /\ call'[j].behind = call[j].behind \ {k}
<1>1. call' = [j \in Calls |-> IF j = k THEN [call[k] EXCEPT !.step = result]
                               ELSE [call[j] EXCEPT !.behind = call[j].behind \ {k}]]
  BY DEF Returns
<1>2. QED BY <1>1 DEF CallsTyped, CallTyped, NoCall

\* The comanda is printed.
LEMMA CommandKeeps ==
  ASSUME PosTypes, AccountInv, NEW k \in Calls, ServeCommand(k)
  PROVE  AccountInv'
<1>1. /\ call[k].op = "command" /\ Returns(k, "done")
      /\ UNCHANGED <<page, sale, account, pull, wanted, upset, elsewhere>>
  BY DEF ServeCommand, Sent, Untouched, RoomUntouched, floorVars
<1>2. CallsTyped
  BY CountedTyped
<1>3. ~Coming(k) /\ ~Coming(k)' /\ Backs(k)
  BY <1>1, <1>2, ReturnsMoves DEF Coming, ItemOps, Backs, ItemBack, AccountBack
<1>4. Said(k)'
  BY <1>1, <1>2, ReturnsMoves DEF AccountInv, AllSaid, Said, Opened, ItemOps
<1>5. \A j \in Calls \ {k} : Stays(j)
  BY <1>1, <1>2, <1>3, ReturnsMoves DEF Stays
<1>6. QED BY <1>1, <1>2, <1>3, <1>4, <1>5, ReturnsMoves, ServesKeeps

\* One call less is to come: the others are behind each other as before.
LEMMA QueueServed ==
  ASSUME PosTypes, Queue, NEW k \in Calls, NEW result \in {"done", "refused"}, Returns(k, result)
  PROVE  Queue'
<1>1. CallsTyped
  BY CountedTyped
<1>2. ~Coming(k)' /\ \A j \in Calls \ {k} : Coming(j)' <=> Coming(j)
  BY <1>1, ReturnsMoves DEF Coming
<1>3. k \notin call[k].behind
  BY <1>1 DEF CallsTyped, CallTyped
<1>4. ASSUME NEW i \in Calls
      PROVE  call'[i].behind \subseteq {j \in Calls : Coming(j)'}
  BY <1>1, <1>2, <1>3, ReturnsMoves DEF Queue
<1>5. ASSUME NEW i \in Calls, NEW j \in Calls \ {i}, Coming(j)', Coming(i)'
      PROVE  j \in call'[i].behind \/ i \in call'[j].behind
  BY <1>1, <1>2, <1>5, ReturnsMoves DEF Queue
<1>6. QED BY <1>4, <1>5 DEF Queue

\* A call is refused or fails, or its answer is lost.
LEMMA FailsKeep ==
  ASSUME PosTypes, AccountInv, NEW k \in Calls, ServeRefused(k) \/ CallFails(k)
  PROVE  AccountInv'
<1>1. /\ Returns(k, "refused") /\ upset' = TRUE /\ (elsewhere => elsewhere')
      /\ AccountBack(k) => elsewhere'
      /\ UNCHANGED <<page, sale, account, pull, wanted>>
  <2>1. CASE ServeRefused(k)
    BY <2>1 DEF ServeRefused, AccountBack, Untouched, RoomUntouched, floorVars
  <2>2. CASE CallFails(k)
    <3>1. /\ Returns(k, "refused") /\ upset' = TRUE
          /\ UNCHANGED <<page, sale, account, pull, wanted>>
      BY <2>2 DEF CallFails, Untouched
    <3>2. elsewhere' = (elsewhere \/ AccountBack(k))
      BY <2>2 DEF CallFails, AccountBack
    <3>3. QED BY <3>1, <3>2
  <2>3. QED BY <2>1, <2>2
<1>2. CallsTyped
  BY CountedTyped
<1>3. \A j \in Calls : Backs(j)
  BY <1>1, <1>2, ReturnsMoves DEF Backs, ItemBack, Coming, AccountBack
<1>4. Read'
  BY <1>1, <1>3, ReadSame DEF AccountInv
<1>5. Queue'
  BY <1>1, QueueServed DEF AccountInv
<1>6. AllSaid'
  BY <1>1, <1>2, ReturnsMoves DEF AccountInv, AllSaid, Said, Opened
<1>7. WantedComes' /\ Displayed'
  BY <1>1 DEF WantedComes, Displayed
<1>8. QED BY <1>4, <1>5, <1>6, <1>7 DEF AccountInv

\* Statuses change, and calls stay behind the same.
LEMMA StatusMoved ==
  ASSUME PosTypes, NEW x \in Sales, NEW s, sale' = [sale EXCEPT ![x].status = s]
  PROVE  /\ sale'[x].status = s /\ sale'[x].lines = sale[x].lines
         /\ \A y \in Sales \ {x} : sale'[y] = sale[y]
  BY CountedTyped DEF SalesTypeOK

\* An account is opened: nobody has ordered anything on it.
LEMMA OpenKeeps ==
  ASSUME PosTypes, AccountInv, NEW k \in Calls, ServeOpen(k), NEW x, x \in Sales, Drafts = {},
         sale[x].status = "none", sale' = [sale EXCEPT ![x].status = "DRAFT"],
         call' = [call EXCEPT ![k] = [@ EXCEPT !.step = "done", !.sale = x]],
         wanted' = Quantities(NoLines)
  PROVE  AccountInv'
<1>1. /\ call[k].op = "open" /\ call[k].step = "sent"
      /\ UNCHANGED <<page, account, pull, upset, elsewhere>>
  BY DEF ServeOpen, Sent, Untouched
<1>2. CallsTyped /\ SalesTypeOK
  BY CountedTyped
<1>3. /\ call'[k].op = "open" /\ call'[k].step = "done" /\ call'[k].sale = x
      /\ call'[k].previous = call[k].previous /\ call'[k].behind = call[k].behind
      /\ \A j \in Calls \ {k} : call'[j] = call[j]
  BY <1>1, <1>2 DEF CallsTyped, CallTyped, NoCall
<1>4. /\ Drafts' = {x} /\ OpenedStay /\ sale'[x].lines = NoLines /\ sale'[x].status = "DRAFT"
  <2>1. /\ sale'[x].status = "DRAFT" /\ sale'[x].lines = sale[x].lines
        /\ \A y \in Sales \ {x} : sale'[y] = sale[y]
    BY StatusMoved
  <2>2. sale[x] = NoSale
    BY <1>2 DEF SalesTypeOK
  <2>3. QED BY <2>1, <2>2 DEF Drafts, OpenedStay, NoSale
<1>5. \A j \in Calls \ {k} : Stays(j)
  BY <1>3, SameStays
<1>6. Aside(k)
  BY <1>1, <1>3 DEF Aside, Coming, ItemOps, AccountInv, Queue
<1>7. wanted' = [p \in Products |-> 0]
  BY DEF Quantities, NoLines, NoLine
<1>8. Queue' /\ \A j \in Calls : Coming(j)' => Coming(j) /\ Stays(j)
  BY <1>5, <1>6, QueueSame, ComingSame DEF AccountInv, AllAside
<1>9. AllSaid'
  <2>1. Said(k)'
    BY <1>3, <1>4 DEF Said, Opened, ItemOps, AccountInv, AllSaid, OpenedStay
  <2>2. QED BY <1>1, <1>4, <1>5, <1>7, <2>1, SaidSame DEF AccountInv
<1>10. ~Opened(x) /\ x # NoId
  BY SalesAssumption DEF Opened
<1>11. WantedComes'
  <2>1. ASSUME NEW j \in Calls, Coming(j)'
        PROVE  Lost'
    <3>1. Coming(j) /\ call'[j].sale = call[j].sale /\ Opened(call[j].sale)
      BY <1>8, <2>1 DEF Stays, AccountInv, AllSaid, Said
    <3>2. call'[j].sale # x
      BY <1>10, <3>1
    <3>3. QED BY <1>4, <2>1, <3>2 DEF Lost
  <2>2. ASSUME \A j \in Calls : ~Coming(j)', NEW p \in Products
        PROVE  Makes(sale[x].lines[p].quantity, p, wanted[p])'
    <3>1. sale'[x].lines[p].quantity = 0 /\ wanted'[p] = 0
      BY <1>4, <1>7 DEF NoLines, NoLine
    <3>2. ComingFor(p)' = {}
      BY <2>2 DEF ComingFor
    <3>3. Cardinality(ComingFor(p)') = 0
      BY <3>2, FS_EmptySet
    <3>4. QED BY <3>1, <3>2, <3>3 DEF Makes, LastChange
  <2>3. QED BY <1>4, <2>1, <2>2 DEF WantedComes
<1>12. account.sale \notin Drafts' /\ pull.data.sale \notin Drafts'
  BY <1>4, <1>10 DEF AccountInv, AllSaid
<1>13. Displayed'
  BY <1>1, <1>12 DEF Displayed, ShowsWanted
<1>14. Read'
  <2>1. AccountBack(k)'
    BY <1>3 DEF AccountBack
  <2>2. QED BY <1>1, <1>12, <2>1 DEF Read, IsStored
<1>15. QED BY <1>8, <1>9, <1>11, <1>13, <1>14 DEF AccountInv

\* An account is opened, or is open already.
LEMMA OpensKeep ==
  ASSUME PosTypes, AccountInv, NEW k \in Calls, ServeOpen(k)
  PROVE  AccountInv'
<1>1. CASE Drafts = {}
  <2>1. PICK x \in Sales : /\ sale[x].status = "none" /\ sale' = [sale EXCEPT ![x].status = "DRAFT"]
                           /\ call' = [call EXCEPT ![k] = [@ EXCEPT !.step = "done", !.sale = x]]
                           /\ wanted' = Quantities(NoLines)
    BY <1>1 DEF ServeOpen
  <2>2. QED BY <1>1, <2>1, OpenKeeps
<1>2. ASSUME NEW x \in Drafts
      PROVE  AccountInv'
  <2>1. /\ call[k].op = "open" /\ call[k].step = "sent"
        /\ UNCHANGED <<page, sale, account, pull, wanted, upset, elsewhere>>
        /\ call' = [call EXCEPT ![k] = [@ EXCEPT !.step = "done", !.sale = Current.sale]]
    BY <1>2 DEF ServeOpen, Sent, Untouched
  <2>2. CallsTyped /\ SalesTypeOK
    BY CountedTyped
  <2>3. Current.sale = x /\ Opened(x)
    BY <2>2, CurrentIs DEF Opened, Drafts
  <2>4. /\ call'[k].op = "open" /\ call'[k].step = "done" /\ call'[k].sale = x
        /\ call'[k].previous = call[k].previous /\ call'[k].behind = call[k].behind
        /\ \A j \in Calls \ {k} : call'[j] = call[j]
    BY <2>1, <2>2, <2>3 DEF CallsTyped, CallTyped, NoCall
  <2>5. ~Coming(k) /\ ~Coming(k)' /\ Backs(k)
    BY <2>1, <2>4 DEF Coming, ItemOps, Backs, ItemBack, AccountBack
  <2>6. Said(k)'
    BY <2>1, <2>3, <2>4 DEF Said, Opened, ItemOps, AccountInv, AllSaid
  <2>7. \A j \in Calls \ {k} : Stays(j)
    BY <2>4, SameStays
  <2>8. QED BY <2>1, <2>4, <2>5, <2>6, <2>7, ServesKeeps
<1>3. QED BY <1>1, <1>2

\* The account is charged: nothing is wanted any more.
LEMMA ChargeKeeps ==
  ASSUME PosTypes, AccountInv, NEW k \in Calls, ServeCharge(k)
  PROVE  AccountInv'
<1> DEFINE x == call[k].sale
<1>1. /\ call[k].op = "charge" /\ x \in Drafts /\ Returns(k, "done")
      /\ sale' = [sale EXCEPT ![x].status = "CLOSED"] /\ wanted' = Quantities(NoLines)
      /\ UNCHANGED <<page, account, pull, upset, elsewhere>>
  BY DEF ServeCharge, Sent, Untouched
<1>2. CallsTyped /\ SalesTypeOK /\ x \in Sales
  BY <1>1, CountedTyped DEF Drafts
<1> HIDE DEF x
<1>3. Drafts' = {} /\ OpenedStay
  <2>1. sale'[x].status = "CLOSED" /\ \A y \in Sales \ {x} : sale'[y] = sale[y]
    BY <1>1, <1>2, StatusMoved
  <2>2. \A y \in Drafts : y = x
    BY <1>1, <1>2 DEF SalesTypeOK
  <2>3. QED BY <2>1, <2>2 DEF Drafts, OpenedStay
<1>4. Queue'
  BY <1>1, QueueServed DEF AccountInv
<1>5. \A j \in Calls : Said(j)'
  BY <1>1, <1>2, <1>3, ReturnsMoves DEF AccountInv, AllSaid, Said, Opened, OpenedStay, ItemOps
<1>6. wanted' \in [Products -> Nat]
  BY <1>1 DEF Quantities, NoLines, NoLine
<1>7. AllSaid'
  BY <1>1, <1>3, <1>5, <1>6, SaidSame DEF AccountInv
<1>8. WantedComes' /\ Displayed'
  BY <1>3 DEF WantedComes, Displayed, ShowsWanted
<1>9. Read'
  <2>1. AccountBack(k)'
    BY <1>1, <1>2, ReturnsMoves DEF AccountBack
  <2>2. QED BY <1>3, <2>1 DEF Read, IsStored
<1>10. QED BY <1>4, <1>7, <1>8, <1>9 DEF AccountInv

-----------------------------------------------------------------------------
(* A line is written *)

\* The calls that are left to come when k is served.
LEMMA ComingServed ==
  ASSUME CallsTyped, NEW k \in Calls, Coming(k), Returns(k, "done")
  PROVE  \A q : /\ ComingFor(q)' = ComingFor(q) \ {k}
                /\ \A c \in Calls \ {k} : AddsBehind(q, c)' = AddsBehind(q, c) \ {k}
                /\ \A c \in Calls \ {k} : LastChange(q, c)' /\ ~(k \in ComingFor(q) /\ call[k].op = "change")
                     => LastChange(q, c)
                /\ \A c \in Calls : LastChange(q, c)' => c # k /\ c \in ComingFor(q) /\ call[c].op = "change"
<1>1. /\ call'[k].op = call[k].op /\ call'[k].step = "done"
      /\ \A j \in Calls \ {k} :
           /\ call'[j].op = call[j].op /\ call'[j].step = call[j].step
           /\ call'[j].product = call[j].product /\ call'[j].behind = call[j].behind \ {k}
  BY ReturnsMoves
<1>2. ~Coming(k)' /\ \A j \in Calls \ {k} : Coming(j)' <=> Coming(j)
  BY <1>1 DEF Coming
<1> SUFFICES ASSUME NEW q
             PROVE  /\ ComingFor(q)' = ComingFor(q) \ {k}
                    /\ \A c \in Calls \ {k} : AddsBehind(q, c)' = AddsBehind(q, c) \ {k}
                    /\ \A c \in Calls \ {k} :
                         LastChange(q, c)' /\ ~(k \in ComingFor(q) /\ call[k].op = "change") => LastChange(q, c)
                    /\ \A c \in Calls :
                         LastChange(q, c)' => c # k /\ c \in ComingFor(q) /\ call[c].op = "change"
  OBVIOUS
<1>3. ComingFor(q)' = ComingFor(q) \ {k}
  BY <1>1, <1>2 DEF ComingFor
<1>4. \A d \in ComingFor(q) : d \in Calls
  BY DEF ComingFor
<1>5. \A c \in Calls \ {k} : AddsBehind(q, c)' = AddsBehind(q, c) \ {k}
  BY <1>1, <1>3, <1>4 DEF AddsBehind
<1>6. \A c \in Calls : LastChange(q, c)' => c # k /\ c \in ComingFor(q) /\ call[c].op = "change"
  BY <1>1, <1>3, <1>4 DEF LastChange
<1>7. ASSUME NEW c \in Calls \ {k}, LastChange(q, c)', ~(k \in ComingFor(q) /\ call[k].op = "change")
      PROVE  LastChange(q, c)
  BY <1>1, <1>3, <1>4, <1>6, <1>7 DEF LastChange
<1>8. QED BY <1>3, <1>5, <1>6, <1>7

\* The calls are finite in number.
LEMMA ComingFinite ==
  ASSUME NEW q
  PROVE  /\ IsFiniteSet(ComingFor(q)) /\ Cardinality(ComingFor(q)) \in Nat
         /\ \A c : IsFiniteSet(AddsBehind(q, c)) /\ Cardinality(AddsBehind(q, c)) \in Nat
<1>1. ComingFor(q) \subseteq Calls
  BY DEF ComingFor
<1>2. \A c : AddsBehind(q, c) \subseteq ComingFor(q)
  BY DEF AddsBehind
<1>3. IsFiniteSet(Calls)
  BY ProductsAssumption
<1>4. IsFiniteSet(ComingFor(q))
  BY <1>1, <1>3, FS_Subset
<1>5. ASSUME NEW c
      PROVE  IsFiniteSet(AddsBehind(q, c))
  BY <1>2, <1>4, FS_Subset
<1>6. QED BY <1>4, <1>5, FS_CardinalityType

\* What is to come for another product comes as before.
LEMMA OtherMakes ==
  ASSUME CallsTyped, NEW k \in Calls, Coming(k), Returns(k, "done"),
         NEW q, q # call[k].product, NEW n, NEW m, Makes(n, q, m)
  PROVE  Makes(n, q, m)'
<1>1. k \notin ComingFor(q)
  BY DEF ComingFor
<1>2. ComingFor(q)' = ComingFor(q) /\ \A c \in Calls \ {k} : AddsBehind(q, c)' = AddsBehind(q, c)
  BY <1>1, ComingServed DEF AddsBehind
<1>3. \A j \in ComingFor(q) : call'[j].op = call[j].op
  BY <1>1, ReturnsMoves DEF ComingFor
<1>4. ASSUME NEW c \in Calls, LastChange(q, c)'
      PROVE  m = call'[c].quantity + Cardinality(AddsBehind(q, c)')
  <2>1. c # k /\ LastChange(q, c)
    BY <1>1, <1>4, ComingServed
  <2>2. call'[c].quantity = call[c].quantity
    BY <2>1, ReturnsMoves
  <2>3. QED BY <1>2, <2>1, <2>2 DEF Makes
<1>5. QED BY <1>2, <1>3, <1>4 DEF Makes

\* A product more is ordered: the calls that are left still come to what is wanted.
LEMMA AddMakes ==
  ASSUME CallsTyped, NEW k \in Calls, Coming(k), Returns(k, "done"), call[k].op = "add", ~Overtakes(k),
         NEW p, p = call[k].product, NEW n \in Nat, NEW m, Makes(n, p, m)
  PROVE  Makes(n + 1, p, m)'
<1>1. k \in ComingFor(p) /\ ComingFor(p)' = ComingFor(p) \ {k}
  BY ComingServed DEF ComingFor
<1>2. /\ \A j \in ComingFor(p) : j \in Calls
      /\ \A j \in Calls : call'[j].op = call[j].op
  BY ReturnsMoves DEF ComingFor
<1>3. ASSUME \A j \in ComingFor(p)' : call'[j].op = "add"
      PROVE  m = (n + 1) + Cardinality(ComingFor(p)')
  <2>1. \A j \in ComingFor(p) : call[j].op = "add"
    BY <1>1, <1>2, <1>3
  <2>2. m = n + Cardinality(ComingFor(p))
    BY <2>1 DEF Makes
  <2>3. Cardinality(ComingFor(p)') = Cardinality(ComingFor(p)) - 1 /\ Cardinality(ComingFor(p)) \in Nat
    BY <1>1, ComingFinite, FS_RemoveElement
  <2> HIDE DEF Makes
  <2>4. QED BY <2>2, <2>3
<1>4. ASSUME NEW c \in Calls, LastChange(p, c)'
      PROVE  m = call'[c].quantity + Cardinality(AddsBehind(p, c)')
  <2>1. c # k /\ c \in ComingFor(p) /\ call[c].op = "change" /\ LastChange(p, c)
    BY <1>4, ComingServed
  <2>2. AddsBehind(p, c)' = AddsBehind(p, c) \ {k}
    BY <2>1, ComingServed
  <2>3. c \notin call[k].behind
    <3>1. call[c].product = p
      BY <2>1 DEF ComingFor
    <3>2. {call[c].op, call[k].op} # {"add"}
      BY <2>1
    <3>3. QED BY <3>1, <3>2 DEF Overtakes
  <2>4. AddsBehind(p, c)' = AddsBehind(p, c)
    BY <2>2, <2>3 DEF AddsBehind
  <2>5. call'[c].quantity = call[c].quantity
    BY <2>1, ReturnsMoves
  <2>6. QED BY <2>1, <2>4, <2>5 DEF Makes
<1>5. QED BY <1>3, <1>4 DEF Makes

\* A quantity is set: the calls that are left come after it.
LEMMA ChangeMakes ==
  ASSUME CallsTyped, Queue, NEW k \in Calls, Coming(k), Returns(k, "done"), call[k].op = "change",
         ~Overtakes(k), NEW p, p = call[k].product, NEW n, NEW m, Makes(n, p, m),
         NEW i, i = call[k].quantity
  PROVE  Makes(i, p, m)'
<1>1. k \in ComingFor(p) /\ ComingFor(p)' = ComingFor(p) \ {k}
  BY ComingServed DEF ComingFor
<1>2. /\ \A j \in ComingFor(p) : j \in Calls
      /\ \A j \in Calls : call'[j].op = call[j].op
  BY ReturnsMoves DEF ComingFor
<1>3. \A j \in ComingFor(p) \ {k} : k \in call[j].behind
  <2>1. ASSUME NEW j \in ComingFor(p) \ {k}
        PROVE  k \in call[j].behind
    <3>1. j \in Calls /\ Coming(j) /\ call[j].product = p
      BY DEF ComingFor
    <3>2. {call[j].op, call[k].op} # {"add"}
      OBVIOUS
    <3>3. j \notin call[k].behind
      BY <3>1, <3>2 DEF Overtakes
    <3>4. QED BY <3>1, <3>3 DEF Queue
  <2>2. QED BY <2>1
<1>4. ASSUME \A j \in ComingFor(p)' : call'[j].op = "add"
      PROVE  m = i + Cardinality(ComingFor(p)')
  <2>1. \A j \in ComingFor(p) \ {k} : call[j].op = "add"
    BY <1>1, <1>2, <1>4
  <2>2. LastChange(p, k)
    BY <1>1, <2>1 DEF LastChange
  <2>3. AddsBehind(p, k) = ComingFor(p)'
    BY <1>1, <1>3, <2>1 DEF AddsBehind
  <2>4. QED BY <2>2, <2>3 DEF Makes
<1>5. ASSUME NEW c \in Calls, LastChange(p, c)'
      PROVE  m = call'[c].quantity + Cardinality(AddsBehind(p, c)')
  <2>1. c # k /\ c \in ComingFor(p) /\ call[c].op = "change"
    BY <1>5, ComingServed
  <2>2. LastChange(p, c)
    <3>1. ASSUME NEW d \in ComingFor(p) \ {c}, call[d].op = "change"
          PROVE  d \in call[c].behind
      <4>1. CASE d = k
        BY <1>3, <2>1, <4>1
      <4>2. CASE d # k
        <5>1. d \in ComingFor(p)' \ {c} /\ call'[d].op = "change"
          BY <1>1, <1>2, <3>1, <4>2
        <5>2. d \in call'[c].behind
          BY <1>5, <5>1 DEF LastChange
        <5>3. QED BY <2>1, <5>2, ReturnsMoves
      <4>3. QED BY <4>1, <4>2
    <3>2. QED BY <2>1, <3>1 DEF LastChange
  <2>3. AddsBehind(p, c)' = AddsBehind(p, c)
    BY <2>1, ComingServed DEF AddsBehind
  <2>4. call'[c].quantity = call[c].quantity
    BY <2>1, ReturnsMoves
  <2>5. QED BY <2>2, <2>3, <2>4 DEF Makes
<1>6. QED BY <1>4, <1>5 DEF Makes

\* A line is written, and what is stored still comes to what is wanted.
LEMMA ItemsKeep ==
  ASSUME PosTypes, AccountInv, NEW k \in Calls, ServeAdd(k) \/ ServeChange(k)
  PROVE  AccountInv'
<1>0. PICK x, p : x = call[k].sale /\ p = call[k].product
  OBVIOUS
<1>1. /\ Returns(k, "done") /\ x \in Drafts /\ Coming(k) /\ call[k].op \in ItemOps
      /\ UNCHANGED <<page, account, pull, wanted, elsewhere>>
      /\ upset' = (upset \/ Overtakes(k))
  BY <1>0 DEF ServeAdd, ServeChange, Sent, ItemOps, Coming, Untouched, RoomUntouched, floorVars
<1>2. /\ x \in Sales /\ p \in Products /\ call[k].quantity \in Nat
      /\ sale[x].lines \in [Products -> Line] /\ CallsTyped /\ SalesTypeOK
      /\ \A y \in Drafts : y = x
  BY <1>0, <1>1, CountedTyped DEF Drafts, CallsTyped, CallTyped, SalesTypeOK
<1>3. PICK n \in Nat :
        /\ sale'[x].lines[p].quantity = n
        /\ \A q \in Products \ {p} : sale'[x].lines[q] = sale[x].lines[q]
        /\ \A y \in Sales : sale'[y].status = sale[y].status
        /\ \/ call[k].op = "add" /\ n = sale[x].lines[p].quantity + 1
           \/ call[k].op = "change" /\ n = call[k].quantity
  <2>1. CASE ServeAdd(k)
    <3>1. PICK i : sale' = [sale EXCEPT ![x].lines[p] = [id |-> i, quantity |-> sale[x].lines[p].quantity + 1]]
      BY <1>0, <2>1 DEF ServeAdd
    <3>2. sale[x].lines[p].quantity + 1 \in Nat
      BY <1>2 DEF Line
    <3>3. call[k].op = "add"
      BY <2>1 DEF ServeAdd, Sent
    <3>4. /\ sale'[x].lines[p].quantity = sale[x].lines[p].quantity + 1
          /\ \A q \in Products \ {p} : sale'[x].lines[q] = sale[x].lines[q]
          /\ \A y \in Sales : sale'[y].status = sale[y].status
      BY <1>2, <3>1 DEF SalesTypeOK
    <3>5. QED BY <3>2, <3>3, <3>4
  <2>2. CASE ServeChange(k)
    <3>1. /\ sale' = [sale EXCEPT ![x].lines = WithQuantity(sale[x].lines, p, call[k].quantity)]
          /\ call[k].op = "change"
      BY <1>0, <2>2 DEF ServeChange, Sent
    <3>2. /\ sale'[x].lines = WithQuantity(sale[x].lines, p, call[k].quantity)
          /\ \A y \in Sales : sale'[y].status = sale[y].status
      BY <1>2, <3>1 DEF SalesTypeOK
    <3>3. /\ sale'[x].lines[p].quantity = call[k].quantity
          /\ \A q \in Products \ {p} : sale'[x].lines[q] = sale[x].lines[q]
      BY <1>2, <3>2 DEF WithQuantity, NoLine, Line
    <3>4. QED BY <1>2, <3>1, <3>2, <3>3
  <2>3. QED BY <2>1, <2>2
<1>4. /\ Drafts' = Drafts /\ OpenedStay
      /\ upset => upset'
  BY <1>1, <1>3 DEF Drafts, OpenedStay
<1>5. WantedComes'
  <2> SUFFICES ASSUME ~upset', ~Lost', NEW q \in Products
               PROVE  Makes(sale[x].lines[q].quantity, q, wanted[q])'
    BY <1>2, <1>4 DEF WantedComes
  <2>1. ~upset /\ ~Overtakes(k)
    BY <1>1
  <2>2. ~Lost
    <3>1. ASSUME NEW j \in Calls, Coming(j), call[j].sale \notin Drafts
          PROVE  Lost'
      <4>1. j # k
        BY <1>0, <1>1, <3>1
      <4>2. Coming(j)' /\ call'[j].sale = call[j].sale
        BY <1>1, <1>2, <3>1, <4>1, ReturnsMoves DEF Coming
      <4>3. QED BY <1>4, <3>1, <4>2 DEF Lost
    <3>2. QED BY <3>1 DEF Lost
  <2>3. PICK m : m = wanted[q]
    OBVIOUS
  <2>4. Makes(sale[x].lines[q].quantity, q, m) /\ wanted'[q] = m
    BY <1>1, <2>1, <2>2, <2>3 DEF AccountInv, WantedComes
  <2>5. PICK i : i = sale[x].lines[q].quantity
    OBVIOUS
  <2>6. i \in Nat /\ Makes(i, q, m)
    BY <1>2, <2>4, <2>5 DEF Line
  <2>7. CASE q # p
    <3>1. Makes(i, q, m)'
      BY <1>1, <1>2, <2>6, <2>7, <1>0, OtherMakes
    <3>2. sale'[x].lines[q].quantity = i
      BY <1>3, <2>5, <2>7
    <3>3. QED BY <2>4, <3>1, <3>2
  <2>8. CASE q = p
    <3>1. sale'[x].lines[q].quantity = n
      BY <1>3, <2>8
    <3>2. Makes(n, q, m)'
      <4>1. CASE call[k].op = "add"
        <5>1. n = i + 1
          BY <1>3, <2>5, <2>8, <4>1
        <5>2. Makes(i + 1, q, m)'
          BY <1>1, <1>2, <2>1, <2>6, <2>8, <4>1, <1>0, AddMakes
        <5>3. QED BY <5>1, <5>2
      <4>2. CASE call[k].op = "change"
        <5>1. n = call[k].quantity
          BY <1>3, <4>2
        <5>2. QED BY <1>1, <1>2, <2>1, <2>6, <2>8, <4>2, <5>1, <1>0, ChangeMakes DEF AccountInv
      <4>3. QED BY <1>3, <4>1, <4>2
    <3>3. QED BY <2>4, <3>1, <3>2
  <2>9. QED BY <2>7, <2>8
<1>6. Queue'
  BY <1>1, QueueServed DEF AccountInv
<1>7. AllSaid'
  <2>1. \A j \in Calls : Said(j)'
    BY <1>1, <1>2, <1>4, ReturnsMoves DEF AccountInv, AllSaid, Said, Opened, OpenedStay
  <2>2. QED BY <1>1, <1>4, <2>1, SaidSame DEF AccountInv, AllSaid
<1>8. Displayed'
  BY <1>1, <1>4, DisplayedSame DEF AccountInv, PullGoesOn
<1>9. Read'
  <2>1. ItemBack(k)' /\ call'[k].op \in ItemOps
    BY <1>1, <1>2, ReturnsMoves DEF ItemBack, Coming
  <2>2. QED BY <2>1 DEF Read
<1>10. QED BY <1>5, <1>6, <1>7, <1>8, <1>9 DEF AccountInv

-----------------------------------------------------------------------------
(* A line is asked for *)

\* A call that joins those that are to come, behind them all.
Joins1(k) ==
  /\ ~Coming(k) /\ Coming(k)'
  /\ call'[k].behind = {j \in Calls : Coming(j)}
  /\ \A j \in Calls \ {k} : call'[j] = call[j]

\* Who is to come then.
LEMMA ComingJoined ==
  ASSUME Queue, NEW k \in Calls, Joins1(k), NEW q
  PROVE  /\ ComingFor(q)' = ComingFor(q) \cup (IF call'[k].product = q THEN {k} ELSE {})
         /\ \A c \in ComingFor(q) :
              AddsBehind(q, c)' = AddsBehind(q, c)
                \cup (IF call'[k].product = q /\ call'[k].op = "add" THEN {k} ELSE {})
         /\ k \notin ComingFor(q) /\ \A c \in Calls : k \notin call[c].behind /\ k \notin AddsBehind(q, c)
         /\ \A c \in ComingFor(q) : c \in Calls \ {k} /\ call'[c] = call[c]
<1>1. \A j \in Calls \ {k} : Coming(j)' <=> Coming(j)
  BY DEF Joins1, Coming
<1>2. ComingFor(q)' = ComingFor(q) \cup (IF call'[k].product = q THEN {k} ELSE {})
  BY <1>1 DEF Joins1, ComingFor
<1>3. k \notin ComingFor(q) /\ \A c \in Calls : k \notin call[c].behind /\ k \notin AddsBehind(q, c)
  BY DEF Joins1, ComingFor, AddsBehind, Queue
<1>4. \A c \in ComingFor(q) : c \in Calls \ {k} /\ call'[c] = call[c]
  BY <1>3 DEF ComingFor, Joins1
<1>5. ASSUME NEW c \in ComingFor(q)
      PROVE  AddsBehind(q, c)' = AddsBehind(q, c)
               \cup (IF call'[k].product = q /\ call'[k].op = "add" THEN {k} ELSE {})
  <2>1. c \in call'[k].behind
    BY DEF Joins1, ComingFor
  <2>2. QED BY <1>2, <1>4, <2>1 DEF AddsBehind
<1>6. QED BY <1>2, <1>3, <1>4, <1>5

\* For another product, the same is to come.
LEMMA JoinedOther ==
  ASSUME Queue, NEW k \in Calls, Joins1(k), NEW q, q # call'[k].product, NEW n, NEW m, Makes(n, q, m)
  PROVE  Makes(n, q, m)'
<1>1. /\ ComingFor(q)' = ComingFor(q)
      /\ \A c \in ComingFor(q) : AddsBehind(q, c)' = AddsBehind(q, c)
      /\ \A c \in ComingFor(q) : c \in Calls \ {k} /\ call'[c] = call[c]
  <2>1. /\ ComingFor(q)' = ComingFor(q) \cup {}
        /\ \A c \in ComingFor(q) : c \in Calls \ {k} /\ call'[c] = call[c]
    BY ComingJoined
  <2>2. \A c \in ComingFor(q) : AddsBehind(q, c)' = AddsBehind(q, c) \cup {}
    BY ComingJoined
  <2>3. QED BY <2>1, <2>2
<1>2. ASSUME NEW c \in Calls, LastChange(q, c)'
      PROVE  LastChange(q, c) /\ c \in ComingFor(q)
  BY <1>1, <1>2 DEF LastChange
<1>3. QED BY <1>1, <1>2 DEF Makes

\* One more of the product comes to one more.
LEMMA JoinedAdd ==
  ASSUME Queue, NEW k \in Calls, Joins1(k), NEW p, p = call'[k].product, call'[k].op = "add",
         NEW n \in Nat, NEW m \in Nat, Makes(n, p, m), \A j \in Calls : CallTyped(j)
  PROVE  Makes(n, p, m + 1)'
<1>1. /\ ComingFor(p)' = ComingFor(p) \cup {k} /\ k \notin ComingFor(p)
      /\ \A c \in ComingFor(p) : AddsBehind(p, c)' = AddsBehind(p, c) \cup {k}
      /\ \A c \in ComingFor(p) : c \in Calls \ {k} /\ call'[c] = call[c] /\ k \notin AddsBehind(p, c)
  BY ComingJoined
<1>2. ASSUME \A j \in ComingFor(p)' : call'[j].op = "add"
      PROVE  m + 1 = n + Cardinality(ComingFor(p)')
  <2>1. m = n + Cardinality(ComingFor(p))
    BY <1>1, <1>2 DEF Makes
  <2>2. Cardinality(ComingFor(p)') = Cardinality(ComingFor(p)) + 1 /\ Cardinality(ComingFor(p)) \in Nat
    BY <1>1, ComingFinite, FS_AddElement
  <2>3. QED BY <2>1, <2>2
<1>3. ASSUME NEW c \in Calls, LastChange(p, c)'
      PROVE  m + 1 = call'[c].quantity + Cardinality(AddsBehind(p, c)')
  <2>1. c \in ComingFor(p)
    BY <1>1, <1>3 DEF LastChange
  <2>2. LastChange(p, c)
    BY <1>1, <1>3, <2>1 DEF LastChange
  <2>3. m = call[c].quantity + Cardinality(AddsBehind(p, c)) /\ call[c].quantity \in Nat
    BY <2>2 DEF Makes, CallTyped
  <2>4. /\ Cardinality(AddsBehind(p, c)') = Cardinality(AddsBehind(p, c)) + 1
        /\ Cardinality(AddsBehind(p, c)) \in Nat
    BY <1>1, <2>1, ComingFinite, FS_AddElement
  <2>5. QED BY <1>1, <2>1, <2>3, <2>4
<1>4. QED BY <1>2, <1>3 DEF Makes

\* A quantity that is asked for is what it comes to.
LEMMA JoinedChange ==
  ASSUME Queue, NEW k \in Calls, Joins1(k), NEW p, p = call'[k].product, call'[k].op = "change",
         NEW n, NEW i \in Nat, i = call'[k].quantity
  PROVE  Makes(n, p, i)'
<1>1. /\ ComingFor(p)' = ComingFor(p) \cup {k} /\ k \notin ComingFor(p)
      /\ \A c \in ComingFor(p) : c \in Calls \ {k} /\ call'[c] = call[c] /\ k \notin call[c].behind
  BY ComingJoined
<1>2. ASSUME NEW c \in Calls, LastChange(p, c)'
      PROVE  i = call'[c].quantity + Cardinality(AddsBehind(p, c)')
  <2>1. c = k
    BY <1>1, <1>2 DEF LastChange
  <2>2. AddsBehind(p, c)' = {}
    BY <1>1, <2>1 DEF AddsBehind
  <2>3. Cardinality(AddsBehind(p, c)') = 0
    BY <2>2, FS_EmptySet
  <2>4. QED BY <2>1, <2>3
<1>3. QED BY <1>1, <1>2 DEF Makes

\* A quantity on the screen.
LEMMA WithQuantityIs ==
  ASSUME NEW lines \in [Products -> Line], NEW p \in Products, NEW n \in Nat
  PROVE  Quantities(WithQuantity(lines, p, n)) = [Quantities(lines) EXCEPT ![p] = n]
<1>1. \A q \in Products : WithQuantity(lines, p, n)[q].quantity = IF q = p THEN n ELSE lines[q].quantity
  BY DEF WithQuantity, NoLine, Line
<1>2. QED BY <1>1 DEF Quantities

\* A line that the screen asks for, whatever is under way.
LEMMA OrderKeeps ==
  ASSUME PosTypes, AccountInv, NEW k \in Calls, Joins1(k), NEW x, NEW p \in Products, NEW n \in Nat,
         call'[k].op \in ItemOps, call'[k].sale = x, call'[k].product = p, call'[k].previous = account,
         \/ call'[k].op = "add" /\ n = account.lines[p].quantity + 1
         \/ call'[k].op = "change" /\ n = call'[k].quantity,
         Opened(x), UNCHANGED <<page, sale, elsewhere>>, pull' = Cancelled,
         account' = IF account.sale = x THEN [account EXCEPT !.lines = WithQuantity(account.lines, p, n)]
                                        ELSE account,
         NEW settled \in BOOLEAN,
         settled => page = "pos" /\ pull.step = "idle" /\ Waiting = {},
         wanted' = [(IF settled THEN Quantities(account.lines) ELSE wanted) EXCEPT ![p] = n],
         ~upset' => account.sale = x,
         ~upset' /\ settled => ~elsewhere /\ ~pull.failed,
         ~upset' /\ ~settled => ~upset /\ ~pull.mixed
  PROVE  AccountInv'
<1>1. /\ SalesTypeOK /\ CallsTyped /\ PullTyped /\ account.lines \in [Products -> Line]
      /\ account \in Account /\ AllSaid /\ Queue /\ WantedComes /\ Displayed /\ Read
  BY CountedTyped DEF AccountInv
<1>2. pull'.step = "idle" /\ pull'.mixed = pull.mixed /\ pull'.data = pull.data
  BY <1>1 DEF Cancelled, PullTyped, Fetched
<1>3. Drafts' = Drafts /\ OpenedStay
  BY DEF Drafts, OpenedStay
<1>4. \A j \in Calls \ {k} : call'[j] = call[j] /\ Stays(j)
  BY SameStays DEF Joins1
<1>5. settled => \A j \in Calls : call[j].op \notin ItemOps
  BY <1>1 DEF Waiting, Unanswered, AllSaid, Said, ItemOps
<1>6. Queue'
  <2>1. \A j \in Calls \ {k} : Coming(j)' <=> Coming(j)
    BY <1>4 DEF Coming
  <2>2. ASSUME NEW i \in Calls
        PROVE  call'[i].behind \subseteq {j \in Calls : Coming(j)'}
    BY <1>1, <1>4, <2>1 DEF Joins1, Queue
  <2>3. ASSUME NEW i \in Calls, NEW j \in Calls \ {i}, Coming(j)', Coming(i)'
        PROVE  j \in call'[i].behind \/ i \in call'[j].behind
    BY <1>1, <1>4, <2>1, <2>3 DEF Joins1, Queue
  <2>4. QED BY <2>2, <2>3 DEF Queue
<1>7. AllSaid'
  <2>1. Said(k)'
    BY <1>1, <1>3 DEF Said, Opened, OpenedStay, AllSaid, Joins1, Coming
  <2>2. upset => upset' \/ \A j \in Calls : ~ItemBack(j)
    BY <1>5 DEF ItemBack
  <2>3. account'.sale = account.sale
    BY <1>1 DEF Account
  <2>4. wanted' \in [Products -> Nat]
    BY <1>1 DEF AllSaid, Quantities, Line
  <2>5. QED BY <1>1, <1>2, <1>3, <1>4, <2>1, <2>2, <2>3, <2>4, SaidSame
<1>8. Read'
  BY <1>2 DEF Read
<1> DEFINE base == IF settled THEN Quantities(account.lines) ELSE wanted
<1>9. ~upset' /\ ~pull.mixed /\ x \in Drafts => Quantities(account.lines) = base
  BY <1>1 DEF Displayed, ShowsWanted
<1>10. Displayed'
  <2> SUFFICES ASSUME ~upset', ~pull.mixed, account.sale \in Drafts
               PROVE  Quantities(account'.lines) = wanted'
    <3>1. account'.sale = account.sale
      BY <1>1 DEF Account
    <3>2. QED BY <1>2, <1>3, <3>1 DEF Displayed, ShowsWanted, Quantities
  <2>1. account.sale = x /\ account'.lines = WithQuantity(account.lines, p, n)
    BY <1>1 DEF Account
  <2>2. Quantities(account'.lines) = [Quantities(account.lines) EXCEPT ![p] = n]
    BY <1>1, <2>1, WithQuantityIs
  <2>3. QED BY <1>9, <2>1, <2>2
<1>11. WantedComes'
  <2> SUFFICES ASSUME ~upset', ~Lost', NEW q \in Products, NEW y \in Drafts
               PROVE  Makes(sale[y].lines[q].quantity, q, wanted[q])'
    BY <1>3 DEF WantedComes
  <2>1. /\ \A j \in Calls : Coming(j)' => call'[j].sale \in Drafts
        /\ x \in Drafts /\ y = x /\ account.sale = x
    BY <1>1, <1>3 DEF Lost, Joins1, SalesTypeOK, Drafts
  <2>2. PICK i : i = sale[y].lines[q].quantity
    OBVIOUS
  <2>3. PICK m : m = base[q]
    OBVIOUS
  <2>4. i \in Nat /\ m \in Nat
    BY <1>1, <2>2, <2>3 DEF SalesTypeOK, Drafts, Line, AllSaid, Quantities
  <2>5. Quantities(account.lines) = base
    BY <1>1, <2>1 DEF Displayed, ShowsWanted
  <2>6. Makes(i, q, m)
    <3>1. CASE settled
      <4>1. account = Current /\ m = i
        BY <1>1, <1>5, <2>1, <2>2, <2>3, <3>1, CurrentIs DEF Read, IsStored, Quantities
      <4>2. ComingFor(q) = {}
        BY <1>5, <3>1 DEF ComingFor, Coming
      <4>3. Cardinality(ComingFor(q)) = 0
        BY <4>2, FS_EmptySet
      <4>4. QED BY <2>4, <4>1, <4>2, <4>3 DEF Makes, LastChange
    <3>2. CASE ~settled
      <4>1. ~Lost
        BY <1>4, <2>1 DEF Lost, Stays, Coming, Joins1
      <4>2. Makes(sale[y].lines[q].quantity, q, wanted[q]) /\ m = wanted[q]
        BY <1>1, <2>3, <3>2, <4>1 DEF WantedComes
      <4>3. QED BY <2>2, <4>2
    <3>3. QED BY <3>1, <3>2
  <2>7. base \in [Products -> Nat] /\ wanted' = [base EXCEPT ![p] = n]
    BY <1>1 DEF AllSaid, Quantities, Line
  <2> HIDE DEF base
  <2>8. CASE q # p
    <3>1. Makes(i, q, m)'
      BY <1>1, <2>6, <2>8, JoinedOther
    <3>2. wanted'[q] = m
      BY <2>3, <2>7, <2>8
    <3>3. QED BY <2>2, <3>1, <3>2
  <2>9. CASE q = p
    <3>1. wanted'[q] = n
      BY <2>7, <2>9
    <3>2. Makes(i, q, n)'
      <4>1. CASE call'[k].op = "add"
        <5>1. n = m + 1
          BY <2>3, <2>5, <2>9, <4>1 DEF Quantities
        <5>2. Makes(i, q, m + 1)'
          BY <1>1, <2>4, <2>6, <2>9, <4>1, JoinedAdd DEF CallsTyped
        <5>3. QED BY <5>1, <5>2
      <4>2. CASE call'[k].op = "change"
        BY <1>1, <2>9, <4>2, JoinedChange
      <4>3. QED BY <4>1, <4>2
    <3>3. QED BY <2>2, <3>1, <3>2
  <2>10. QED BY <2>8, <2>9
<1>12. QED BY <1>6, <1>7, <1>8, <1>10, <1>11 DEF AccountInv

\* What a call is that the screen begins.
LEMMA BeginsJoins ==
  ASSUME PosTypes, NEW k \in Calls, NEW c, Begins(k, [c EXCEPT !.previous = account]),
         DOMAIN c = DOMAIN NoCall, c.op \in ItemOps
  PROVE  /\ Joins1(k) /\ call'[k].op = c.op /\ call'[k].sale = c.sale /\ call'[k].product = c.product
         /\ call'[k].quantity = c.quantity /\ call'[k].previous = account
<1> DEFINE late == {j \in Waiting : call[j].step = "sent"}
           d == [[c EXCEPT !.previous = account] EXCEPT
                   !.step = "sent", !.here = page = "pos", !.behind = late]
<1>1. call[k] = NoCall /\ call' = [call EXCEPT ![k] = d]
  BY DEF Begins
<1>2. late = {j \in Calls : Coming(j)}
  BY DEF Waiting, Unanswered, Coming, ItemOps
<1>3. /\ d.op = c.op /\ d.step = "sent" /\ d.behind = late /\ d.sale = c.sale
      /\ d.product = c.product /\ d.quantity = c.quantity /\ d.previous = account
  BY DEF NoCall
<1> HIDE DEF late, d
<1>4. call'[k] = d /\ \A j \in Calls \ {k} : call'[j] = call[j]
  BY <1>1, CountedTyped DEF CallsTyped
<1>5. ~Coming(k)
  BY <1>1 DEF Coming, NoCall, ItemOps
<1>6. QED BY <1>2, <1>3, <1>4, <1>5 DEF Joins1, Coming

\* The waiter taps a product, or changes a line.
LEMMA TapsKeep ==
  ASSUME PosTypes, AccountInv, NEW k \in Calls, NEW p \in Products,
         Tap(k, p) \/ \E n \in 0..MaxQuantity : ChangeQuantity(k, p, n)
  PROVE  AccountInv'
<1> DEFINE settled == Waiting = {} /\ pull.step = "idle"
<1>1. Tapping /\ page = "pos" /\ UNCHANGED <<page, sale, elsewhere>> /\ Opened(account.sale)
  BY DEF Tap, ChangeQuantity, Tapping, AtPos, floorVars, AccountInv, AllSaid
<1>2. ASSUME NEW c, NEW n \in Nat, DOMAIN c = DOMAIN NoCall, c.sale = account.sale, c.product = p,
             Optimistically(k, c, WithQuantity(account.lines, p, n), p, n),
             \/ c.op = "add" /\ n = account.lines[p].quantity + 1
             \/ c.op = "change" /\ n = c.quantity
      PROVE  AccountInv'
  <2>1. /\ Begins(k, [c EXCEPT !.previous = account]) /\ pull' = Cancelled
        /\ account' = IF account.sale = c.sale
                        THEN [account EXCEPT !.lines = WithQuantity(account.lines, p, n)] ELSE account
        /\ wanted' = [(IF settled THEN Quantities(account.lines) ELSE wanted) EXCEPT ![p] = n]
        /\ upset' = IF settled THEN elsewhere \/ pull.failed ELSE upset \/ pull.mixed
    BY <1>2 DEF Optimistically
  <2>2. c.op \in ItemOps
    BY <1>2 DEF ItemOps
  <2>3. /\ Joins1(k) /\ call'[k].op = c.op /\ call'[k].sale = c.sale /\ call'[k].product = c.product
        /\ call'[k].quantity = c.quantity /\ call'[k].previous = account
    BY <1>2, <2>1, <2>2, BeginsJoins
  <2>4. settled \in BOOLEAN
    OBVIOUS
  <2>5. /\ ~upset' /\ settled => ~elsewhere /\ ~pull.failed
        /\ ~upset' /\ ~settled => ~upset /\ ~pull.mixed
    BY <2>1
  <2>6. PICK s \in BOOLEAN : s = settled
    BY <2>4
  <2>7. wanted' = [(IF s THEN Quantities(account.lines) ELSE wanted) EXCEPT ![p] = n]
    BY <2>1, <2>6
  <2>8. s => page = "pos" /\ pull.step = "idle" /\ Waiting = {}
    BY <1>1, <2>6
  <2>9. /\ ~upset' /\ s => ~elsewhere /\ ~pull.failed
        /\ ~upset' /\ ~s => ~upset /\ ~pull.mixed
    BY <2>5, <2>6
  <2> HIDE DEF settled
  <2>10. QED BY <1>1, <1>2, <2>1, <2>2, <2>3, <2>7, <2>8, <2>9, OrderKeeps
<1>3. CASE Tap(k, p) /\ account.sale # NoId
  <2> DEFINE n == account.lines[p].quantity + 1
             c == [NoCall EXCEPT !.op = "add", !.sale = account.sale, !.product = p]
  <2>1. Optimistically(k, c, WithQuantity(account.lines, p, n), p, n)
    BY <1>3 DEF Tap, Adds
  <2>2. n \in Nat
    BY CountedTyped DEF Line
  <2>3. DOMAIN c = DOMAIN NoCall /\ c.op = "add" /\ c.sale = account.sale /\ c.product = p
    BY DEF NoCall
  <2> HIDE DEF n, c
  <2>4. n = account.lines[p].quantity + 1
    BY DEF n
  <2>5. QED BY <1>2, <2>1, <2>2, <2>3, <2>4
<1>4. CASE Tap(k, p) /\ account.sale = NoId
  <2>1. UNCHANGED <<call, pull, account, wanted, upset>>
    BY <1>4 DEF Tap
  <2>2. QED BY <1>1, <2>1, NothingKeeps DEF PullGoesOn
<1>5. ASSUME NEW n \in 0..MaxQuantity, ChangeQuantity(k, p, n)
      PROVE  AccountInv'
  <2> DEFINE c == [NoCall EXCEPT !.op = "change", !.sale = account.sale, !.product = p,
                                 !.line = account.lines[p].id, !.quantity = n]
  <2>1. Optimistically(k, c, WithQuantity(account.lines, p, n), p, n)
    BY <1>5 DEF ChangeQuantity
  <2>2. n \in Nat
    BY TapsAssumption
  <2>3. /\ DOMAIN c = DOMAIN NoCall /\ c.op = "change" /\ c.sale = account.sale /\ c.product = p
        /\ c.quantity = n
    BY DEF NoCall
  <2> HIDE DEF c
  <2>4. QED BY <1>2, <2>1, <2>2, <2>3
<1>6. QED BY <1>3, <1>4, <1>5

\* The product that waited is ordered on the account that was opened.
LEMMA OpenSettledKeeps ==
  ASSUME PosTypes, AccountInv, NEW k \in Calls, OpenSettled(k), call[k].product # Nothing
  PROVE  AccountInv'
<1>0. PICK x, p : x = call[k].sale /\ p = call[k].product
  OBVIOUS
<1> DEFINE n == account.lines[p].quantity + 1
           late == {j \in Waiting : call[j].step = "sent"}
           settled == Waiting = {} /\ page = "pos"
           d == [NoCall EXCEPT !.op = "add", !.step = "sent", !.sale = x, !.product = p,
                               !.previous = account, !.here = call[k].here, !.behind = late]
<1>1. /\ call[k].op = "open" /\ (page = "pos" => pull.step = "idle")
      /\ UNCHANGED <<page, sale, elsewhere>>
      /\ call' = [call EXCEPT ![k] = d] /\ pull' = Cancelled
      /\ account' = IF account.sale = x
                      THEN [account EXCEPT !.lines = WithQuantity(account.lines, p, n)] ELSE account
      /\ wanted' = [(IF settled THEN Quantities(account.lines) ELSE wanted) EXCEPT ![p] = n]
      /\ upset' = ((IF settled THEN elsewhere \/ pull.failed ELSE upset \/ pull.mixed)
                     \/ account.sale # x)
  BY <1>0 DEF OpenSettled, Settled, floorVars
<1>2. p \in Products /\ Opened(x)
  BY <1>0, <1>1, CountedTyped DEF CallsTyped, CallTyped, AccountInv, AllSaid, Said
<1>3. n \in Nat
  BY <1>2, CountedTyped DEF Line
<1>4. late = {j \in Calls : Coming(j)}
  BY DEF Waiting, Unanswered, Coming, ItemOps
<1>5. /\ d.op = "add" /\ d.step = "sent" /\ d.behind = late /\ d.sale = x
      /\ d.product = p /\ d.previous = account
  BY DEF NoCall
<1> HIDE DEF late, d
<1>6. call'[k] = d /\ \A j \in Calls \ {k} : call'[j] = call[j]
  BY <1>1, CountedTyped DEF CallsTyped
<1>7. Joins1(k)
  BY <1>1, <1>4, <1>5, <1>6 DEF Joins1, Coming, ItemOps
<1>8. PICK s \in BOOLEAN : s = settled
  OBVIOUS
<1>9. wanted' = [(IF s THEN Quantities(account.lines) ELSE wanted) EXCEPT ![p] = n]
  BY <1>1, <1>8
<1>10. s => page = "pos" /\ pull.step = "idle" /\ Waiting = {}
  BY <1>1, <1>8
<1>11. /\ ~upset' => account.sale = x
       /\ ~upset' /\ s => ~elsewhere /\ ~pull.failed
       /\ ~upset' /\ ~s => ~upset /\ ~pull.mixed
  BY <1>1, <1>8
<1>12. PICK i \in Nat : i = n
  BY <1>3
<1>13. call'[k].op \in ItemOps /\ call'[k].op = "add" /\ i = account.lines[p].quantity + 1
  BY <1>5, <1>6, <1>12 DEF ItemOps
<1>14. /\ account' = IF account.sale = x
                      THEN [account EXCEPT !.lines = WithQuantity(account.lines, p, i)] ELSE account
       /\ wanted' = [(IF s THEN Quantities(account.lines) ELSE wanted) EXCEPT ![p] = i]
  BY <1>1, <1>9, <1>12
<1> HIDE DEF n, settled
<1>15. call'[k].sale = x /\ call'[k].product = p /\ call'[k].previous = account
  BY <1>5, <1>6
<1>16. UNCHANGED <<page, sale, elsewhere>> /\ pull' = Cancelled
  BY <1>1
<1>17. QED
  BY <1>2, <1>7, <1>10, <1>11, <1>13, <1>14, <1>15, <1>16, OrderKeeps

-----------------------------------------------------------------------------
(* Every step, and what follows *)

\* The screen as it starts.
LEMMA InitAccount == Init => AccountInv
<1> SUFFICES ASSUME Init PROVE AccountInv
  OBVIOUS
<1>1. /\ SalesTypeOK /\ account = Current /\ pull = Fetched /\ call = [k \in Calls |-> NoCall]
      /\ wanted = Quantities(account.lines) /\ upset = FALSE /\ elsewhere = FALSE
  BY DEF Init
<1>2. \A k \in Calls : call[k] = NoCall /\ ~Coming(k)
  BY <1>1 DEF Coming, NoCall, ItemOps
<1>3. Current \in Account /\ Opened(Current.sale)
  <2>1. CASE Drafts = {}
    BY <1>1, <2>1, CurrentTyped DEF Current, NoAccount, Unknown, Opened
  <2>2. ASSUME NEW x \in Drafts
        PROVE  Opened(Current.sale)
    BY <1>1, CurrentIs DEF Opened, Drafts
  <2>3. QED BY <1>1, <2>1, <2>2, CurrentTyped
<1>4. AllSaid
  <2>1. wanted \in [Products -> Nat]
    BY <1>1, <1>3 DEF Account, Quantities, Line
  <2>2. QED BY <1>1, <1>2, <1>3, <2>1
          DEF AllSaid, Said, NoCall, Unknown, Fetched, Opened, ItemOps
<1>5. Queue
  BY <1>2 DEF Queue, NoCall
<1>6. WantedComes
  <2> SUFFICES ASSUME NEW x \in Drafts, NEW p \in Products
               PROVE  Makes(sale[x].lines[p].quantity, p, wanted[p])
    BY DEF WantedComes
  <2>1. Current.lines = sale[x].lines /\ sale[x].lines[p].quantity \in Nat
    BY <1>1, CurrentIs DEF SalesTypeOK, Drafts, Line
  <2>2. wanted[p] = sale[x].lines[p].quantity
    BY <1>1, <2>1 DEF Quantities
  <2>3. ComingFor(p) = {}
    BY <1>2 DEF ComingFor
  <2>4. Cardinality(ComingFor(p)) = 0
    BY <2>3, FS_EmptySet
  <2>5. QED BY <2>1, <2>2, <2>3, <2>4 DEF Makes, LastChange
<1>7. Displayed /\ Read
  BY <1>1 DEF Displayed, Read, ShowsWanted, IsStored, Fetched
<1>8. QED BY <1>4, <1>5, <1>6, <1>7 DEF AccountInv

\* What happens at the point of sale.
LEMMA AccountKept ==
  ASSUME PosTypes, AccountInv, PosStep
  PROVE  AccountInv'
  BY DialogsKeep, VisitsKeep, PullReadsKeeps, PullArrivesKeeps, WaiterKeeps, TapsKeep, SubmitsKeep,
     OpensKeep, ItemsKeep, ChargeKeeps, CommandKeeps, FailsKeep, AnswerItemKeeps, AnswerAccountKeeps,
     OpenSettledKeeps, AnswersEnd
     DEF PosStep

\* It means that the account settles.
LEMMA AccountMeans ==
  ASSUME PosTypes, AccountInv
  PROVE  AccountSettles
<1> SUFFICES ASSUME PosQuiet, ~pull.failed, ~elsewhere
             PROVE  /\ account = Current
                    /\ account.sale # NoId /\ ~upset => Quantities(account.lines) = wanted
  BY DEF AccountSettles
<1>1. /\ page = "pos" /\ pull.step = "idle"
      /\ \A k \in Calls : call[k].op \notin ItemOps /\ ~Coming(k) /\ ~AccountBack(k)
  BY DEF PosQuiet, NoCall, ItemOps, Coming, AccountBack
<1>2. account = Current
  BY <1>1 DEF AccountInv, Read, IsStored
<1>3. ASSUME account.sale # NoId, ~upset
      PROVE  Quantities(account.lines) = wanted
  <2>1. ShowsWanted(Current)
    BY <1>1, <1>3, StoredIsWanted, CountedTyped DEF AccountInv
  <2>2. PICK x \in Drafts : TRUE
    BY <1>2, <1>3 DEF Current, NoAccount, Unknown
  <2>3. Current.sale = x
    BY CurrentIs, CountedTyped
  <2>4. QED BY <1>2, <2>1, <2>3 DEF ShowsWanted
<1>4. QED BY <1>2, <1>3

-----------------------------------------------------------------------------
(* The inductive invariant about the list of zones and tables *)

\* A request of this application has changed the room, or its result is on its way.
Taken(w) == Mine(w) /\ Took(w)
Done(w) == Mine(w) /\ req[w].result = "done"
Pending(ops, i) == \E w \in Workers : Taken(w) /\ req[w].op \in ops /\ req[w].id = i

\* The answer of v comes after that of w, unless answers cross.
Later(v, w) == v # w /\ (req[v].result # "done" \/ w \in before[v])
Overwritten(ops, i, w) ==
  \E v \in Workers : Taken(v) /\ req[v].op \in ops /\ req[v].id = i /\ Later(v, w)

\* The list that the answers to come will be put into, if nothing is in the way.
Basis == IF fetch.step = "arriving" THEN fetch.list ELSE shown
Clean ==
  /\ ~foreign
  /\ IF fetch.step = "arriving" THEN ~fetch.muddled ELSE ~crossed

Creations == {"createZone", "createTable"}
Writes == {"updateTable", "setStatus"}
ShownIn(l) == ShownZones(l) \cup ShownTables(l)

\* Where list l and the room differ, an answer is on its way.
ZoneListed(l, z) ==
  /\ z \in ShownZones(l) => z \in ListedZones \/ Pending({"deleteZone"}, z)
  /\ z \in ListedZones => z \in ShownZones(l) \/ Pending({"createZone"}, z)
  /\ z \in ShownZones(l) /\ z \in ListedZones =>
       l.zones[z] = zone[z].name \/ Pending({"updateZone"}, z)

TableListed(l, t) ==
  /\ t \in ShownTables(l) =>
       /\ \/ t \in ListedTables
          \/ Pending({"deleteTable"}, t) \/ Pending({"deleteZone"}, l.tables[t].zone)
       /\ t \in LiveTables =>
            /\ l.tables[t].zone = table[t].zone
            /\ l.tables[t] = table[t] \/ Pending(Writes, t)
  /\ t \in ListedTables => t \in ShownTables(l) \/ Pending({"createTable"}, t)

Explains(l) ==
  /\ l.again = {}
  /\ \A z \in Zones : ZoneListed(l, z)
  /\ \A t \in Tables : TableListed(l, t)

\* An answer brings what is stored, or one that comes after it does.
ZoneAnswer(w) ==
  Done(w) /\ req[w].op = "updateZone" /\ req[w].id \in ListedZones =>
    req[w].row.name = zone[req[w].id].name \/ Overwritten({"updateZone"}, req[w].id, w)

TableAnswer(w) ==
  Done(w) /\ req[w].op \in {"createTable"} \cup Writes =>
    /\ req[w].id \in LiveTables =>
         /\ req[w].row.zone = table[req[w].id].zone
         /\ req[w].row = table[req[w].id] \/ Overwritten(Writes, req[w].id, w)
    /\ req[w].id \notin LiveTables =>
         \E v \in Workers :
           /\ Done(v) /\ w \in before[v]
           /\ \/ req[v].op = "deleteTable" /\ req[v].id = req[w].id
              \/ req[v].op = "deleteZone" /\ req[v].id = req[w].row.zone

\* Nobody asks yet for what request w has created.
Unasked(w) ==
  \A v \in Workers \ {w} : Mine(v) =>
    /\ req[v].id # req[w].id
    /\ "zone" \in DOMAIN req[v].data => req[v].data.zone # req[w].id

Unheard(w) ==
  Done(w) /\ req[w].op \in Creations =>
    /\ req[w].id \notin ShownIn(shown) /\ req[w].id \notin ShownIn(Basis)
    /\ deleting # req[w].id /\ Unasked(w)
    /\ req[w].op = "createZone" =>
         /\ req[w].id \in ListedZones /\ zone[req[w].id] = req[w].row
         /\ \A t \in LiveTables : table[t].zone # req[w].id

Answers(w) == ZoneAnswer(w) /\ TableAnswer(w) /\ Unheard(w)

Explained ==
  Clean => (\A l \in {Basis} : Explains(l)) /\ \A w \in Workers : Answers(w)

\* What a request has removed stays so.
RemovedStay ==
  \A w \in Workers : Taken(w) =>
    /\ req[w].op = "deleteZone" => zone[req[w].id] = Removed
    /\ req[w].op = "deleteTable" => table[req[w].id] = Removed

\* The application knows of rows that are or were there.
Known(i) ==
  /\ i \in Zones => zone[i] # NoRow
  /\ i \in Tables => table[i] # NoRow
IsList(l) == l = [zones |-> l.zones, tables |-> l.tables, again |-> l.again]
KnownList(l) == IsList(l) /\ \A i \in ShownIn(l) : Known(i)

PageAsks(w) ==
  Mine(w) =>
    /\ req[w].op \in {"createZone", "updateZone", "deleteZone", "createTable", "updateTable", "deleteTable"}
    /\ req[w].op = "updateZone" => DOMAIN req[w].data = {"name"}
    /\ req[w].op = "updateTable" => DOMAIN req[w].data \subseteq {"number", "seats"}
    /\ "zone" \in DOMAIN req[w].data => req[w].data.zone \in Zones /\ Known(req[w].data.zone)
    /\ Known(req[w].id)

EntersKnown(w) ==
  Under(w) /\ ZoneFound(req[w].todo) => \A z \in EnteredBy(w) : Known(z)

Heard ==
  /\ KnownList(shown) /\ KnownList(fetch.list) /\ Known(deleting)
  /\ \A w \in Workers : PageAsks(w) /\ EntersKnown(w)
  /\ \A t \in LiveTables : Known(table[t].zone)
  /\ DOMAIN before = Workers

FloorInv == Explained /\ RemovedStay /\ Heard

-----------------------------------------------------------------------------
(* What stays as it was *)

\* A change that will never be read again: its row is gone.
Void(v) ==
  /\ ~Done(v)
  /\ \/ req[v].op = "updateZone" /\ req[v].id \notin LiveZones
     \/ req[v].op \in Writes /\ req[v].id \notin LiveTables

\* What v has changed is still to be answered, after the answers that are there already.
Held(v) ==
  Taken(v) /\ ~Void(v) =>
    /\ Taken(v)' /\ req'[v].op = req[v].op /\ req'[v].id = req[v].id
    /\ Done(v) => req'[v].result = "done" /\ req'[v].row = req[v].row
    /\ req'[v].result = "done" =>
         \A u \in Workers \ {v} : Done(u) /\ (Done(v) => u \in before[v]) => u \in before'[v]

AllHeld == \A v \in Workers : Held(v)

\* A removal, or a creation, is still pending.
LEMMA PendingHeld ==
  ASSUME AllHeld, NEW ops, ops \cap ({"updateZone"} \cup Writes) = {}, NEW i, Pending(ops, i)
  PROVE  Pending(ops, i)'
<1>1. PICK v \in Workers : Taken(v) /\ req[v].op \in ops /\ req[v].id = i
  BY DEF Pending
<1>2. ~Void(v)
  BY <1>1 DEF Void
<1>3. Taken(v)' /\ req'[v].op \in ops /\ req'[v].id = i
  BY <1>1, <1>2 DEF AllHeld, Held
<1>4. QED BY <1>3 DEF Pending

\* So is a change of a row that is there.
LEMMA ChangeHeld ==
  ASSUME AllHeld, NEW i
  PROVE  /\ i \in LiveZones /\ Pending({"updateZone"}, i) => Pending({"updateZone"}, i)'
         /\ i \in LiveTables /\ Pending(Writes, i) => Pending(Writes, i)'
<1>1. ASSUME i \in LiveZones, NEW v \in Workers, Taken(v), req[v].op \in {"updateZone"}, req[v].id = i
      PROVE  Pending({"updateZone"}, i)'
  <2>1. ~Void(v)
    BY <1>1 DEF Void, Writes
  <2>2. Taken(v)' /\ req'[v].op \in {"updateZone"} /\ req'[v].id = i
    BY <1>1, <2>1 DEF AllHeld, Held
  <2>3. QED BY <2>2 DEF Pending
<1>2. ASSUME i \in LiveTables, NEW v \in Workers, Taken(v), req[v].op \in Writes, req[v].id = i
      PROVE  Pending(Writes, i)'
  <2>1. ~Void(v)
    BY <1>2 DEF Void, Writes
  <2>2. Taken(v)' /\ req'[v].op \in Writes /\ req'[v].id = i
    BY <1>2, <2>1 DEF AllHeld, Held
  <2>3. QED BY <2>2 DEF Pending, Writes
<1>3. QED BY <1>1, <1>2 DEF Pending

\* And one that comes after an answer.
LEMMA OverwrittenHeld ==
  ASSUME AllHeld, NEW i, NEW w \in Workers, Done(w)
  PROVE  /\ i \in LiveZones /\ Overwritten({"updateZone"}, i, w) => Overwritten({"updateZone"}, i, w)'
         /\ i \in LiveTables /\ Overwritten(Writes, i, w) => Overwritten(Writes, i, w)'
<1>1. ASSUME NEW v \in Workers, Taken(v), ~Void(v), Later(v, w)
      PROVE  Taken(v)' /\ req'[v].op = req[v].op /\ req'[v].id = req[v].id /\ Later(v, w)'
  <2>1. /\ Taken(v)' /\ req'[v].op = req[v].op /\ req'[v].id = req[v].id
        /\ req'[v].result = "done" =>
             \A u \in Workers \ {v} : Done(u) /\ (Done(v) => u \in before[v]) => u \in before'[v]
    BY <1>1 DEF AllHeld, Held
  <2>2. v # w /\ (Done(v) => w \in before[v])
    BY <1>1 DEF Later, Done
  <2>3. req'[v].result = "done" => w \in before'[v]
    BY <2>1, <2>2
  <2>4. QED BY <2>1, <2>2, <2>3 DEF Later
<1>2. ASSUME i \in LiveZones, NEW v \in Workers, Taken(v), req[v].op \in {"updateZone"},
             req[v].id = i, Later(v, w)
      PROVE  Overwritten({"updateZone"}, i, w)'
  <2>1. ~Void(v)
    BY <1>2 DEF Void, Writes
  <2>2. Taken(v)' /\ req'[v].op \in {"updateZone"} /\ req'[v].id = i /\ Later(v, w)'
    BY <1>1, <1>2, <2>1
  <2>3. QED BY <2>2 DEF Overwritten
<1>3. ASSUME i \in LiveTables, NEW v \in Workers, Taken(v), req[v].op \in Writes, req[v].id = i, Later(v, w)
      PROVE  Overwritten(Writes, i, w)'
  <2>1. ~Void(v)
    BY <1>3 DEF Void, Writes
  <2>2. Taken(v)' /\ req'[v].op \in Writes /\ req'[v].id = i /\ Later(v, w)'
    BY <1>1, <1>3, <2>1
  <2>3. QED BY <2>2 DEF Overwritten, Writes
<1>4. QED BY <1>2, <1>3 DEF Overwritten

\* A zone whose row is the same is listed as before.
LEMMA ZoneListedSame ==
  ASSUME AllHeld, NEW l, NEW z \in Zones, ZoneListed(l, z), zone'[z] = zone[z]
  PROVE  ZoneListed(l, z)'
<1>1. (z \in ListedZones)' <=> z \in ListedZones
  BY DEF ListedZones, LiveZones
<1>2. z \in ListedZones => z \in LiveZones
  BY DEF ListedZones
<1>3. /\ Pending({"deleteZone"}, z) => Pending({"deleteZone"}, z)'
      /\ Pending({"createZone"}, z) => Pending({"createZone"}, z)'
  BY PendingHeld DEF Writes
<1>4. z \in LiveZones /\ Pending({"updateZone"}, z) => Pending({"updateZone"}, z)'
  BY ChangeHeld
<1>5. (z \in ShownZones(l))' <=> z \in ShownZones(l)
  BY DEF ShownZones
<1>6. QED BY <1>1, <1>2, <1>3, <1>4, <1>5 DEF ZoneListed

\* So is a table.
LEMMA TableListedSame ==
  ASSUME AllHeld, NEW l, NEW t \in Tables, TableListed(l, t), table'[t] = table[t],
         (t \in ListedTables)' <=> t \in ListedTables
  PROVE  TableListed(l, t)'
<1>1. (t \in LiveTables)' <=> t \in LiveTables
  BY DEF LiveTables
<1>2. /\ Pending({"deleteTable"}, t) => Pending({"deleteTable"}, t)'
      /\ Pending({"createTable"}, t) => Pending({"createTable"}, t)'
      /\ Pending({"deleteZone"}, l.tables[t].zone) => Pending({"deleteZone"}, l.tables[t].zone)'
  BY PendingHeld DEF Writes
<1>3. t \in LiveTables /\ Pending(Writes, t) => Pending(Writes, t)'
  BY ChangeHeld
<1>4. (t \in ShownTables(l))' <=> t \in ShownTables(l)
  BY DEF ShownTables
<1>5. QED BY <1>1, <1>2, <1>3, <1>4 DEF TableListed

\* An answer about a zone that is the same is as good as before.
LEMMA ZoneAnswerSame ==
  ASSUME AllHeld, NEW w \in Workers, ZoneAnswer(w), Done(w)' => Done(w),
         req[w].id \in Zones => zone'[req[w].id] = zone[req[w].id]
  PROVE  ZoneAnswer(w)'
<1> SUFFICES ASSUME Done(w)', req'[w].op = "updateZone", (req[w].id \in ListedZones)', req'[w].id = req[w].id
             PROVE  \/ req'[w].row.name = zone'[req[w].id].name
                    \/ Overwritten({"updateZone"}, req[w].id, w)'
  <2>1. Done(w)' => req'[w].id = req[w].id
    BY DEF AllHeld, Held, Taken, Took, Done, Void
  <2>2. QED BY <2>1 DEF ZoneAnswer, Overwritten
<1>1. /\ Done(w) /\ Taken(w) /\ ~Void(w)
  BY DEF Done, Taken, Took, Void
<1>2. req[w].op = "updateZone" /\ req'[w].row = req[w].row
  BY <1>1 DEF AllHeld, Held
<1>3. req[w].id \in Zones /\ req[w].id \in ListedZones /\ req[w].id \in LiveZones
  BY DEF ListedZones, LiveZones
<1>4. req[w].row.name = zone[req[w].id].name \/ Overwritten({"updateZone"}, req[w].id, w)
  BY <1>1, <1>2, <1>3 DEF ZoneAnswer
<1>5. PICK i : i = req[w].id
  OBVIOUS
<1>6. Overwritten({"updateZone"}, i, w) => Overwritten({"updateZone"}, i, w)'
  BY <1>1, <1>3, <1>5, OverwrittenHeld
<1>7. QED BY <1>2, <1>3, <1>4, <1>5, <1>6 DEF Overwritten

\* So is one about a table.
LEMMA TableAnswerSame ==
  ASSUME AllHeld, NEW w \in Workers, TableAnswer(w), Done(w)' => Done(w),
         req[w].id \in Tables => table'[req[w].id] = table[req[w].id]
  PROVE  TableAnswer(w)'
<1> SUFFICES ASSUME Done(w)', req'[w].op \in {"createTable"} \cup Writes
             PROVE  TableAnswer(w)'
  BY DEF TableAnswer, Writes
<1>1. Done(w) /\ Taken(w) /\ ~Void(w)
  BY DEF Done, Taken, Took, Void
<1>2. req'[w].op = req[w].op /\ req'[w].id = req[w].id /\ req'[w].row = req[w].row
  BY <1>1 DEF AllHeld, Held
<1>3. PICK i : i = req[w].id
  OBVIOUS
<1>4. (i \in LiveTables)' <=> i \in LiveTables
  BY <1>3 DEF LiveTables
<1>5. CASE i \in LiveTables
  <2>1. /\ req[w].row.zone = table[i].zone
        /\ req[w].row = table[i] \/ Overwritten(Writes, i, w)
    BY <1>1, <1>2, <1>3, <1>5 DEF TableAnswer, Writes
  <2>2. i \in Tables
    BY <1>5 DEF LiveTables
  <2>3. Overwritten(Writes, i, w) => Overwritten(Writes, i, w)'
    BY <1>1, <1>5, OverwrittenHeld
  <2>4. /\ req'[w].row.zone = table'[i].zone
        /\ req'[w].row = table'[i] \/ Overwritten(Writes, i, w)'
    BY <1>2, <1>3, <2>1, <2>2, <2>3
  <2>5. QED
    BY <1>2, <1>3, <1>4, <1>5, <2>4 DEF TableAnswer, Overwritten
<1>6. CASE i \notin LiveTables
  <2>1. PICK v \in Workers : /\ Done(v) /\ w \in before[v]
                             /\ \/ req[v].op = "deleteTable" /\ req[v].id = req[w].id
                                \/ req[v].op = "deleteZone" /\ req[v].id = req[w].row.zone
    BY <1>1, <1>2, <1>3, <1>6 DEF TableAnswer, Writes
  <2>2. Taken(v) /\ ~Void(v) /\ v # w
    BY <1>2, <2>1 DEF Done, Taken, Took, Void, Writes
  <2>3. /\ Taken(v)' /\ req'[v].op = req[v].op /\ req'[v].id = req[v].id
        /\ req'[v].result = "done" /\ w \in before'[v]
    BY <1>1, <2>1, <2>2 DEF AllHeld, Held
  <2>4. Done(v)'
    BY <2>3 DEF Taken, Done
  <2>5. \E u \in Workers :
           /\ Done(u)' /\ w \in before'[u]
           /\ \/ req'[u].op = "deleteTable" /\ req'[u].id = req'[w].id
              \/ req'[u].op = "deleteZone" /\ req'[u].id = req'[w].row.zone
    BY <1>2, <2>1, <2>3, <2>4
  <2>6. QED
    BY <1>2, <1>3, <1>4, <1>6, <2>5 DEF TableAnswer
<1>7. QED BY <1>5, <1>6

\* What nobody has heard of is still unheard of.
LEMMA UnheardSame ==
  ASSUME AllHeld, NEW w \in Workers, Unheard(w), Done(w)' => Done(w),
         shown' = shown \/ shown' = Basis, Basis' = Basis,
         Done(w) /\ req[w].op \in Creations => deleting' # req[w].id /\ Unasked(w)',
         req[w].id \in Zones => zone'[req[w].id] = zone[req[w].id],
         Done(w) /\ req[w].op = "createZone" => \A t \in Tables :
           table'[t].life = "live" /\ table'[t].zone = req[w].id =>
             table[t].life = "live" /\ table[t].zone = req[w].id
  PROVE  Unheard(w)'
<1> SUFFICES ASSUME Done(w)', req'[w].op \in Creations
             PROVE  Unheard(w)'
  BY DEF Unheard, Creations
<1>1. Done(w) /\ Taken(w) /\ ~Void(w)
  BY DEF Done, Taken, Took, Void
<1>2. req'[w].op = req[w].op /\ req'[w].id = req[w].id /\ req'[w].row = req[w].row
  BY <1>1 DEF AllHeld, Held
<1>3. /\ req[w].id \notin ShownIn(shown) /\ req[w].id \notin ShownIn(Basis)
      /\ req[w].op = "createZone" =>
           /\ req[w].id \in ListedZones /\ zone[req[w].id] = req[w].row
           /\ \A t \in LiveTables : table[t].zone # req[w].id
  BY <1>1, <1>2 DEF Unheard
<1>4. /\ req[w].id \notin ShownIn(shown') /\ req[w].id \notin ShownIn(Basis')
  BY <1>3
<1>5. req[w].op = "createZone" =>
           /\ (req[w].id \in ListedZones)' /\ zone'[req[w].id] = req[w].row
           /\ (\A t \in LiveTables : table[t].zone # req[w].id)'
  BY <1>1, <1>2, <1>3 DEF ListedZones, LiveZones, LiveTables
<1>6. deleting' # req[w].id /\ Unasked(w)'
  BY <1>1, <1>2
<1>7. (req[w].id \notin ShownIn(shown) /\ req[w].id \notin ShownIn(Basis))'
  BY <1>2, <1>4 DEF ShownIn, ShownZones, ShownTables
<1>8. QED
  BY <1>2, <1>5, <1>6, <1>7 DEF Unheard

\* Nothing is written, and nobody has more to tell.
LEMMA ExplainedSame ==
  ASSUME Explained, Clean' => Clean, Basis' = Basis, AllHeld,
         UNCHANGED <<zone, table>>, shown' = shown \/ shown' = Basis,
         \A w \in Workers : \/ /\ Done(w)' => Done(w)
                               /\ Done(w) /\ req[w].op \in Creations /\ Unheard(w) =>
                                    deleting' # req[w].id /\ Unasked(w)'
                            \/ Answers(w)'
  PROVE  Explained'
<1> SUFFICES ASSUME Clean' PROVE ((\A l \in {Basis} : Explains(l)) /\ \A w \in Workers : Answers(w))'
  BY DEF Explained
<1>1. (\A l \in {Basis} : Explains(l)) /\ \A w \in Workers : Answers(w)
  BY DEF Explained
<1>2. ASSUME NEW l \in {Basis'}
      PROVE  Explains(l)'
  <2>1. l.again = {} /\ (\A z \in Zones : ZoneListed(l, z)) /\ \A t \in Tables : TableListed(l, t)
    BY <1>1, <1>2 DEF Explains
  <2>2. ASSUME NEW z \in Zones PROVE ZoneListed(l, z)'
    BY <2>1, ZoneListedSame
  <2>3. ASSUME NEW t \in Tables PROVE TableListed(l, t)'
    <3>1. (t \in ListedTables)' <=> t \in ListedTables
      BY DEF ListedTables, LiveTables, ListedZones, LiveZones
    <3>2. QED BY <2>1, <3>1, TableListedSame
  <2>4. QED BY <2>1, <2>2, <2>3 DEF Explains
<1>3. ASSUME NEW w \in Workers
      PROVE  Answers(w)'
  <2>1. Answers(w)
    BY <1>1
  <2>2. CASE /\ Done(w)' => Done(w)
             /\ Done(w) /\ req[w].op \in Creations /\ Unheard(w) =>
                  deleting' # req[w].id /\ Unasked(w)'
    <3>1. ZoneAnswer(w)'
      BY <2>1, <2>2, ZoneAnswerSame DEF Answers
    <3>2. TableAnswer(w)'
      BY <2>1, <2>2, TableAnswerSame DEF Answers
    <3>3. Unheard(w)'
      BY <2>1, <2>2, UnheardSame DEF Answers
    <3>4. QED BY <3>1, <3>2, <3>3 DEF Answers
  <2>3. QED BY <2>2
<1>4. QED BY <1>2, <1>3

\* Rows are there for good, and removed for good.
Lasting ==
  /\ \A z \in Zones : /\ zone[z] # NoRow => zone'[z] # NoRow
                      /\ zone[z] = Removed => zone'[z] = Removed
  /\ \A t \in Tables : /\ table[t] # NoRow => table'[t] # NoRow
                       /\ table[t] = Removed => table'[t] = Removed

\* What is known stays known.
LEMMA KnownStays ==
  ASSUME Lasting, NEW i, Known(i)
  PROVE  Known(i)'
  BY DEF Lasting, Known

-----------------------------------------------------------------------------
(* What the application has heard of *)

RoomHeard ==
  /\ \A w \in Workers : PageAsks(w) /\ EntersKnown(w)
  /\ \A t \in LiveTables : Known(table[t].zone)

\* A request that is the same.
LEMMA SameAsks ==
  ASSUME Lasting, NEW v \in Workers, PageAsks(v), EntersKnown(v), req'[v] = req[v], Mine(v)' => Mine(v)
  PROVE  PageAsks(v)' /\ EntersKnown(v)'
<1>1. PICK q : q = req[v]
  OBVIOUS
<1>2. ASSUME Mine(v)'
      PROVE  /\ "zone" \in DOMAIN q.data => q.data.zone \in Zones /\ Known(q.data.zone)'
             /\ Known(q.id)'
  <2>1. /\ "zone" \in DOMAIN q.data => q.data.zone \in Zones /\ Known(q.data.zone)
        /\ Known(q.id)
    BY <1>1, <1>2 DEF PageAsks
  <2>2. QED BY <2>1, KnownStays
<1>3. PageAsks(v)'
  BY <1>1, <1>2 DEF PageAsks, Known
<1>4. Under(v)' = Under(v) /\ EnteredBy(v)' = EnteredBy(v)
  BY DEF Under, EnteredBy
<1>5. ASSUME Under(v)', ZoneFound(req'[v].todo), NEW z \in EnteredBy(v)
      PROVE  Known(z)'
  <2>1. Known(z)
    BY <1>4, <1>5 DEF EntersKnown
  <2>2. QED BY <2>1, KnownStays
<1>6. EntersKnown(v)'
  BY <1>4, <1>5 DEF EntersKnown
<1>7. QED BY <1>3, <1>6

\* One that has moved on, or is over.
LEMMA ServedAsks ==
  ASSUME RequestsShape, Lasting, NEW w \in Workers, PageAsks(w), asked' = asked,
         req'[w].op = req[w].op, req'[w].data = req[w].data,
         req'[w].id = req[w].id \/ Known(req[w].id)'
  PROVE  PageAsks(w)'
<1>1. PICK q : q = req[w]
  OBVIOUS
<1>2. PICK i : i = req'[w].id
  OBVIOUS
<1>3. ASSUME Mine(w)
      PROVE  /\ "zone" \in DOMAIN q.data => q.data.zone \in Zones /\ Known(q.data.zone)'
             /\ Known(i)'
  <2>1. /\ "zone" \in DOMAIN q.data => q.data.zone \in Zones /\ Known(q.data.zone)
        /\ Known(q.id)
    BY <1>1, <1>3 DEF PageAsks
  <2>2. Known(q.id)' /\ ("zone" \in DOMAIN q.data => Known(q.data.zone)')
    BY <2>1, KnownStays
  <2>3. Known(i)'
    BY <1>1, <1>2, <2>2 DEF Known
  <2>4. QED BY <2>1, <2>2, <2>3
<1>4. Mine(w)' <=> Mine(w)
  BY DEF Mine
<1>5. QED BY <1>1, <1>2, <1>3, <1>4 DEF PageAsks, Known

\* The rest of them stay.
LEMMA RoomHeardKept ==
  ASSUME RoomHeard, Lasting, NEW w \in Workers, OthersStay(w), asked' = asked,
         PageAsks(w)', EntersKnown(w)', (\A t \in LiveTables : Known(table[t].zone))'
  PROVE  RoomHeard'
<1>1. ASSUME NEW v \in Workers \ {w}
      PROVE  PageAsks(v)' /\ EntersKnown(v)'
  <2>1. req'[v] = req[v] /\ (Mine(v)' => Mine(v)) /\ PageAsks(v) /\ EntersKnown(v)
    BY DEF OthersStay, RoomHeard, Mine
  <2>2. QED BY <2>1, SameAsks
<1>2. QED BY <1>1 DEF RoomHeard

\* Tables that nobody has put anywhere else are still in a zone that is known.
LEMMA ZonesKnown ==
  ASSUME RoomHeard, Lasting,
         \A t \in Tables : table'[t].life = "live" =>
           \/ table[t].life = "live" /\ table'[t].zone = table[t].zone
           \/ Known(table'[t].zone)
  PROVE  (\A t \in LiveTables : Known(table[t].zone))'
<1>1. ASSUME NEW t \in Tables, table'[t].life = "live"
      PROVE  Known(table[t].zone)'
  <2>1. PICK z : z = table'[t].zone
    OBVIOUS
  <2>2. Known(z)
    BY <1>1, <2>1 DEF RoomHeard, LiveTables
  <2>3. Known(z)'
    BY <2>2, KnownStays
  <2>4. QED BY <1>1, <2>1, <2>3 DEF Known
<1>2. \A t \in Tables : table'[t].life = "live" => Known(table[t].zone)'
  BY <1>1
<1>3. QED BY <1>2 DEF LiveTables, Known

\* Reading is enough to know that a zone is there.
LEMMA ReadsHeard ==
  ASSUME RoomInv, RoomTypes, RoomHeard, NEW w \in Workers, asked' = asked,
         Find(w) \/ RequireZone(w) \/ CheckClash(w)
  PROVE  Lasting /\ RoomHeard'
<1>1. /\ UNCHANGED <<zone, table>> /\ Under(w)
      /\ WellSent(req[w].op, req[w].id, req[w].data) /\ req[w].todo \in Left(req[w].op)
      /\ req[w].op \in ZoneOps \cup TableOps
  BY AtIs DEF Find, RequireZone, CheckClash, At
<1>2. Lasting
  BY <1>1 DEF Lasting
<1>3. RequestsShape /\ PageAsks(w) /\ EntersKnown(w)
  BY DEF RoomInv, RoomHeard
<1>4. OthersStay(w) /\ req'[w].op = req[w].op
  BY <1>3, ServedSame DEF ServeRoom
<1>5. /\ req'[w].id = req[w].id /\ req'[w].data = req[w].data
      /\ \/ ~Under(w)'
         \/ Find(w) /\ Row(w).life = "live" /\ req'[w].todo = StepsOn(req[w].op, req[w].data, Row(w))
         \/ (RequireZone(w) /\ req[w].data.zone \in ListedZones)
         \/ (CheckClash(w) /\ req'[w].todo = Tail(req[w].todo))
  BY <1>3 DEF RequestsShape, Find, RequireZone, CheckClash, Refuse, Next1, Under
<1>6. PageAsks(w)'
  BY <1>2, <1>3, <1>4, <1>5, ServedAsks
<1>7. (\A t \in LiveTables : Known(table[t].zone))'
  <2>1. \A t \in Tables : table'[t].life = "live" =>
           table[t].life = "live" /\ table'[t].zone = table[t].zone
    BY <1>1
  <2>2. QED BY <1>2, <2>1, ZonesKnown
<1>8. ASSUME Under(w)', ZoneFound(req'[w].todo)
      PROVE  \A z \in EnteredBy(w)' : Known(z)
  <2>1. EnteredBy(w)' = EnteredBy(w) /\ EnteredBy(w) = Entering(req[w].op, req[w].data)
    BY <1>1, <1>4, <1>5, <1>8 DEF EnteredBy
  <2>2. CASE Find(w) /\ Row(w).life = "live" /\ req'[w].todo = StepsOn(req[w].op, req[w].data, Row(w))
    <3>1. Head(req[w].todo) = "find" /\ req[w].todo = <<"find">>
      BY <1>1, <2>2, Ahead DEF Find, At
    <3>2. req[w].op \in {"updateZone", "updateTable", "setStatus", "deleteZone", "deleteTable"}
      BY <1>1, <3>1 DEF Left, ZoneOps, TableOps
    <3>3. CASE req[w].op = "updateTable"
      <4>1. ~Changes(req[w].data, Row(w), "zone")
        BY <1>8, <2>2, <3>2, <3>3, StepsAhead
      <4>2. req[w].id \in LiveTables /\ Row(w) = table[req[w].id]
        BY <1>1, <2>2, <3>3, RowIs DEF TableOps
      <4>3. Known(Row(w).zone)
        BY <4>2 DEF RoomHeard
      <4>4. QED BY <2>1, <4>1, <4>3 DEF Entering, Changes
    <3>4. CASE req[w].op # "updateTable"
      BY <1>1, <2>1, <3>2, <3>4 DEF Entering, WellSent, Carried, TableOps
    <3>5. QED BY <3>3, <3>4
  <2>3. CASE RequireZone(w) /\ req[w].data.zone \in ListedZones
    <3>1. Known(req[w].data.zone)
      BY <2>3, IdsAssumption DEF Known, ListedZones, LiveZones, NoRow
    <3>2. QED BY <2>1, <3>1 DEF Entering
  <2>4. CASE CheckClash(w) /\ req'[w].todo = Tail(req[w].todo)
    <3>1. Head(req[w].todo) = "clash"
      BY <2>4 DEF CheckClash, At
    <3>2. ZoneFound(req[w].todo)
      BY <1>1, <1>8, <2>4, <3>1, Ahead
    <3>3. QED BY <1>1, <1>3, <2>1, <3>2 DEF EntersKnown
  <2>5. QED BY <1>5, <1>8, <2>2, <2>3, <2>4
<1>9. EntersKnown(w)'
  BY <1>1, <1>8 DEF EntersKnown, Known
<1>10. QED BY <1>2, <1>4, <1>6, <1>7, <1>9, RoomHeardKept

\* A row that was not used before, in a zone that is known.
LEMMA CreateHeard ==
  ASSUME RoomInv, RoomTypes, RoomHeard, NEW w \in Workers, asked' = asked, Create(w)
  PROVE  Lasting /\ RoomHeard'
<1> DEFINE data == req[w].data
<1>1. At(w, "write") /\ Under(w) /\ Head(req[w].todo) = "write"
      /\ WellSent(req[w].op, req[w].id, data) /\ DataTyped(data) /\ req[w].todo \in Left(req[w].op)
      /\ req[w].op \in ZoneOps \cup TableOps
  BY AtIs, UnderTyped DEF Create, At
<1>2. RequestsShape /\ PageAsks(w) /\ EntersKnown(w)
  BY DEF RoomInv, RoomHeard
<1>3. OthersStay(w) /\ req'[w].op = req[w].op
  BY <1>2, ServedSame DEF ServeRoom
<1>4. CASE req[w].op = "createZone"
  <2>1. PICK z \in Unused(zone) : /\ zone' = [zone EXCEPT ![z] = ZoneRow(data.name)]
                                  /\ Finish(w, z, zone'[z]) /\ table' = table
    BY <1>4 DEF Create
  <2>2. z \in Zones /\ zone[z] = NoRow
    BY <2>1 DEF Unused, RoomTypes
  <2>3. zone'[z] # NoRow /\ \A y \in Zones \ {z} : zone'[y] = zone[y]
    BY <2>1, <2>2 DEF RoomTypes, ZoneRow, NoRow
  <2>4. Lasting
    BY <2>1, <2>2, <2>3 DEF Lasting, NoRow, Removed
  <2>5. req'[w].id = z /\ req'[w].data = data /\ ~Under(w)'
    BY <1>2, <2>1 DEF Finish, RequestsShape, Under
  <2>6. Known(req[w].id)'
    BY <2>2, <2>3, <2>5, IdsAssumption DEF Known
  <2>7. PageAsks(w)' /\ EntersKnown(w)'
    BY <1>2, <1>3, <2>4, <2>5, <2>6, ServedAsks DEF EntersKnown
  <2>8. (\A t \in LiveTables : Known(table[t].zone))'
    <3>1. \A t \in Tables : table'[t].life = "live" =>
             table[t].life = "live" /\ table'[t].zone = table[t].zone
      BY <2>1
    <3>2. QED BY <2>4, <3>1, ZonesKnown
  <2>9. QED BY <1>3, <2>4, <2>7, <2>8, RoomHeardKept
<1>5. CASE req[w].op = "createTable"
  <2>1. PICK t \in Unused(table) :
          /\ table' = [table EXCEPT ![t] = TableRow(data.zone, data.number, data.seats)]
          /\ Finish(w, t, table'[t]) /\ zone' = zone
    BY <1>5 DEF Create
  <2>2. t \in Tables /\ table[t] = NoRow
    BY <2>1 DEF Unused, RoomTypes
  <2>3. table'[t] # NoRow /\ table'[t].zone = data.zone /\ \A u \in Tables \ {t} : table'[u] = table[u]
    BY <2>1, <2>2 DEF RoomTypes, TableRow, NoRow
  <2>4. Lasting
    BY <2>1, <2>2, <2>3 DEF Lasting, NoRow, Removed
  <2>5. req'[w].id = t /\ req'[w].data = data /\ ~Under(w)'
    BY <1>2, <2>1 DEF Finish, RequestsShape, Under
  <2>6. Known(req[w].id)'
    BY <2>2, <2>3, <2>5, IdsAssumption DEF Known
  <2>7. PageAsks(w)' /\ EntersKnown(w)'
    BY <1>2, <1>3, <2>4, <2>5, <2>6, ServedAsks DEF EntersKnown
  <2>8. (\A u \in LiveTables : Known(table[u].zone))'
    <3>1. \A u \in Tables \ {t} : table'[u].life = "live" =>
             table[u].life = "live" /\ table'[u].zone = table[u].zone
      BY <2>3
    <3>2. Known(data.zone)
      <4>1. ZoneFound(req[w].todo)
        BY <1>1, <1>5, Ahead
      <4>2. data.zone \in EnteredBy(w)
        BY <1>1, <1>5 DEF EnteredBy, Entering, WellSent, TableOps
      <4>3. QED BY <1>1, <1>2, <4>1, <4>2 DEF EntersKnown
    <3>3. QED BY <2>3, <2>4, <3>1, <3>2, ZonesKnown
  <2>9. QED BY <1>3, <2>4, <2>7, <2>8, RoomHeardKept
<1>6. QED BY <1>4, <1>5 DEF Create

\* What an update and a removal leave of the request, if their row is gone.
LEMMA RefusedHeard ==
  ASSUME RoomInv, RoomHeard, NEW w \in Workers, asked' = asked, UNCHANGED <<zone, table>>, Under(w),
         Refuse(w) \/ \E i, r : Finish(w, i, r) /\ i = req[w].id
  PROVE  Lasting /\ RoomHeard'
<1>1. Lasting
  BY DEF Lasting
<1>2. RequestsShape /\ PageAsks(w)
  BY DEF RoomInv, RoomHeard
<1>3. /\ OthersStay(w) /\ req'[w].op = req[w].op /\ req'[w].id = req[w].id /\ req'[w].data = req[w].data
      /\ ~Under(w)'
  BY <1>2 DEF Refuse, Finish, RequestsShape, OthersStay, Under
<1>4. PageAsks(w)' /\ EntersKnown(w)'
  BY <1>1, <1>2, <1>3, ServedAsks DEF EntersKnown
<1>5. (\A t \in LiveTables : Known(table[t].zone))'
  <2>1. \A t \in Tables : table'[t].life = "live" =>
           table[t].life = "live" /\ table'[t].zone = table[t].zone
    OBVIOUS
  <2>2. QED BY <1>1, <2>1, ZonesKnown
<1>6. QED BY <1>1, <1>3, <1>4, <1>5, RoomHeardKept

\* A row that is changed moves to a zone that is known, if to another one.
LEMMA UpdateHeard ==
  ASSUME RoomInv, RoomTypes, RoomHeard, NEW w \in Workers, asked' = asked, Update(w)
  PROVE  Lasting /\ RoomHeard'
<1> DEFINE i == req[w].id
           data == req[w].data
<1>1. At(w, "write") /\ Under(w) /\ Head(req[w].todo) = "write"
      /\ WellSent(req[w].op, i, data) /\ DataTyped(data) /\ req[w].todo \in Left(req[w].op)
      /\ req[w].op \in ZoneOps \cup TableOps /\ req[w].op \in {"updateZone", "updateTable", "setStatus"}
  BY AtIs, UnderTyped DEF Update, At
<1>2. RequestsShape /\ PageAsks(w) /\ EntersKnown(w)
  BY DEF RoomInv, RoomHeard
<1>3. OthersStay(w) /\ req'[w].op = req[w].op
  BY <1>2, ServedSame DEF ServeRoom
<1>4. CASE Row(w).life # "live"
  <2>1. Refuse(w) /\ UNCHANGED <<zone, table>>
    BY <1>4 DEF Update
  <2>2. QED BY <1>1, <2>1, RefusedHeard
<1>5. CASE Row(w).life = "live"
  <2>1. Next1(w) /\ Tail(req[w].todo) = <<"read">>
    BY <1>1, <1>5, Ahead DEF Update
  <2>2. req'[w].id = i /\ req'[w].data = data /\ req'[w].todo = <<"read">>
    BY <1>2, <2>1 DEF Next1, RequestsShape
  <2>3. ~ZoneFound(req'[w].todo)
    BY <2>2 DEF ZoneFound
  <2>4. Lasting => PageAsks(w)' /\ EntersKnown(w)'
    BY <1>2, <1>3, <2>2, <2>3, ServedAsks DEF EntersKnown
  <2>5. CASE req[w].op = "updateZone"
    <3>1. i \in Zones /\ zone[i] \in LiveZoneRow /\ DOMAIN data \subseteq {"name", "active"}
      BY <1>1, <1>5, <2>5, RowsTyped DEF WellSent, Carried, Row, ZoneOps
    <3>2. Merged(zone[i], data) \in LiveZoneRow
      BY <1>1, <3>1, MergedTyped
    <3>3. zone' = [zone EXCEPT ![i] = Merged(zone[i], data)] /\ table' = table
      BY <1>5, <2>5 DEF Update
    <3>4. Lasting
      BY <3>1, <3>2, <3>3 DEF Lasting, LiveZoneRow, NoRow, Removed, RoomTypes
    <3>5. (\A t \in LiveTables : Known(table[t].zone))'
      <4>1. \A t \in Tables : table'[t].life = "live" =>
               table[t].life = "live" /\ table'[t].zone = table[t].zone
        BY <3>3
      <4>2. QED BY <3>4, <4>1, ZonesKnown
    <3>6. QED BY <1>3, <2>4, <3>4, <3>5, RoomHeardKept
  <2>6. CASE req[w].op # "updateZone"
    <3>1. /\ i \in Tables /\ table[i] \in LiveTableRow
          /\ DOMAIN data \subseteq {"zone", "number", "seats", "status"}
      BY <1>1, <1>5, <2>6, RowsTyped DEF WellSent, Carried, Row, ZoneOps
    <3>2. Merged(table[i], data) \in LiveTableRow
      BY <1>1, <3>1, MergedTyped
    <3>3. table' = [table EXCEPT ![i] = Merged(table[i], data)] /\ zone' = zone
      BY <1>5, <2>6 DEF Update
    <3>4. Lasting
      BY <3>1, <3>2, <3>3 DEF Lasting, LiveTableRow, NoRow, Removed, RoomTypes
    <3>5. (\A t \in LiveTables : Known(table[t].zone))'
      <4>1. \A t \in Tables \ {i} : table'[t].life = "live" =>
               table[t].life = "live" /\ table'[t].zone = table[t].zone
        BY <3>1, <3>3 DEF RoomTypes
      <4>2. Known(table'[i].zone)
        <5>1. table'[i].zone = IF "zone" \in DOMAIN data THEN data.zone ELSE table[i].zone
          BY <3>1, <3>3, MergedIs DEF RoomTypes, LiveTableRow
        <5>2. Known(table[i].zone)
          BY <3>1 DEF RoomHeard, LiveTables, LiveTableRow
        <5>3. ASSUME "zone" \in DOMAIN data
              PROVE  Known(data.zone)
          <6>1. ZoneFound(req[w].todo)
            BY <1>1, Ahead
          <6>2. data.zone \in EnteredBy(w)
            BY <1>1, <2>6, <5>3 DEF EnteredBy, Entering, TableOps
          <6>3. QED BY <1>1, <1>2, <6>1, <6>2 DEF EntersKnown
        <5>4. QED BY <5>1, <5>2, <5>3
      <4>3. QED BY <3>4, <4>1, <4>2, ZonesKnown
    <3>6. QED BY <1>3, <2>4, <3>4, <3>5, RoomHeardKept
  <2>7. QED BY <2>5, <2>6
<1>6. QED BY <1>4, <1>5

\* Rows that are removed were there.
LEMMA RemoveHeard ==
  ASSUME RoomInv, RoomTypes, RoomHeard, NEW w \in Workers, asked' = asked, Remove(w)
  PROVE  Lasting /\ RoomHeard'
<1> DEFINE i == req[w].id
<1>1. At(w, "write") /\ Under(w) /\ Head(req[w].todo) = "write"
      /\ WellSent(req[w].op, i, req[w].data) /\ req[w].todo \in Left(req[w].op)
      /\ req[w].op \in ZoneOps \cup TableOps /\ req[w].op \in {"deleteZone", "deleteTable"}
  BY AtIs DEF Remove, At
<1>2. RequestsShape /\ PageAsks(w)
  BY DEF RoomInv, RoomHeard
<1>3. OthersStay(w) /\ req'[w].op = req[w].op
  BY <1>2, ServedSame DEF ServeRoom
<1>4. CASE Row(w).life # "live"
  <2>1. Refuse(w) /\ UNCHANGED <<zone, table>>
    BY <1>4 DEF Remove
  <2>2. QED BY <1>1, <2>1, RefusedHeard
<1>5. CASE Row(w).life = "live"
  <2>1. \/ /\ zone' = [zone EXCEPT ![i] = Removed] /\ table' = table
           /\ Next1(w) /\ Tail(req[w].todo) = <<"tables">>
        \/ /\ table' = [table EXCEPT ![i] = Removed] /\ zone' = zone
           /\ Finish(w, i, Removed)
    BY <1>1, <1>5, Ahead DEF Remove
  <2>2. Lasting
    BY <2>1 DEF Lasting, RoomTypes, NoRow, Removed
  <2>3. /\ req'[w].id = i /\ req'[w].data = req[w].data
        /\ Under(w)' => req'[w].todo = <<"tables">>
    BY <1>2, <2>1 DEF Next1, Finish, RequestsShape, Under
  <2>4. PageAsks(w)' /\ EntersKnown(w)'
    BY <1>2, <1>3, <2>2, <2>3, ServedAsks DEF EntersKnown, ZoneFound
  <2>5. (\A t \in LiveTables : Known(table[t].zone))'
    <3>1. \A t \in Tables : table'[t].life = "live" =>
             table[t].life = "live" /\ table'[t].zone = table[t].zone
      BY <2>1 DEF RoomTypes, Removed
    <3>2. QED BY <2>2, <3>1, ZonesKnown
  <2>6. QED BY <1>3, <2>2, <2>4, <2>5, RoomHeardKept
<1>6. QED BY <1>4, <1>5

\* So were the tables that follow their zone.
LEMMA RemoveTablesHeard ==
  ASSUME RoomInv, RoomTypes, RoomHeard, NEW w \in Workers, asked' = asked, RemoveTables(w)
  PROVE  Lasting /\ RoomHeard'
<1>1. /\ Finish(w, req[w].id, Removed) /\ zone' = zone
      /\ table' = [t \in Tables |-> IF t \in OfZone(req[w].id) THEN Removed ELSE table[t]]
  BY DEF RemoveTables
<1>2. RequestsShape /\ PageAsks(w)
  BY DEF RoomInv, RoomHeard
<1>3. OthersStay(w) /\ req'[w].op = req[w].op
  BY <1>2, ServedSame DEF ServeRoom
<1>4. Lasting
  BY <1>1 DEF Lasting, NoRow, Removed
<1>5. req'[w].id = req[w].id /\ req'[w].data = req[w].data /\ ~Under(w)'
  BY <1>1, <1>2 DEF Finish, RequestsShape, Under
<1>6. PageAsks(w)' /\ EntersKnown(w)'
  BY <1>2, <1>3, <1>4, <1>5, ServedAsks DEF EntersKnown
<1>7. (\A t \in LiveTables : Known(table[t].zone))'
  <2>1. \A t \in Tables : table'[t].life = "live" =>
           table[t].life = "live" /\ table'[t].zone = table[t].zone
    BY <1>1 DEF Removed
  <2>2. QED BY <1>4, <2>1, ZonesKnown
<1>8. QED BY <1>3, <1>4, <1>6, <1>7, RoomHeardKept

\* Whatever is served.
LEMMA ServeHeard ==
  ASSUME RoomInv, RoomTypes, RoomHeard, NEW w \in Workers, asked' = asked,
         ServeRoom(w) \/ RemoveTablesFails(w)
  PROVE  Lasting /\ RoomHeard'
<1>1. ASSUME Reread(w)
      PROVE  Lasting /\ RoomHeard'
  <2>1. /\ UNCHANGED <<zone, table>> /\ Under(w)
        /\ Refuse(w) \/ Finish(w, req[w].id, Row(w))
    BY <1>1 DEF Reread, At
  <2>2. QED BY <2>1, RefusedHeard
<1>2. ASSUME RemoveTablesFails(w)
      PROVE  Lasting /\ RoomHeard'
  <2>1. UNCHANGED <<zone, table>> /\ Under(w) /\ Refuse(w)
    BY <1>2 DEF RemoveTablesFails, At
  <2>2. QED BY <2>1, RefusedHeard
<1>3. QED
  BY <1>1, <1>2, ReadsHeard, CreateHeard, UpdateHeard, RemoveHeard, RemoveTablesHeard DEF ServeRoom

-----------------------------------------------------------------------------
(* What a request has changed *)

\* A check is followed by another one, or by the write.
LEMMA ChecksFirst ==
  /\ \A op \in ZoneOps \cup TableOps : \A todo \in Left(op) :
       Head(todo) \in {"zone", "clash"} => Head(Tail(todo)) \notin {"read", "tables"}
  /\ \A op \in {"updateZone", "updateTable", "setStatus", "deleteZone", "deleteTable"} : \A data, r :
       Head(StepsOn(op, data, r)) \notin {"read", "tables"}
  /\ \A op \in ZoneOps \cup TableOps : Head(FirstSteps(op)) \notin {"read", "tables"}
<1>1. ASSUME NEW op \in ZoneOps \cup TableOps, NEW todo \in Left(op), Head(todo) \in {"zone", "clash"}
      PROVE  Head(Tail(todo)) \notin {"read", "tables"}
  <2>1. todo \in {<<"clash", "write">>, <<"write">>, <<"zone", "clash", "write">>, <<"find">>,
                  <<"clash", "write", "read">>, <<"write", "read">>, <<"read">>,
                  <<"clash", "zone", "write", "read">>, <<"zone", "write", "read">>,
                  <<"write", "tables">>, <<"tables">>}
    BY DEF Left, ZoneOps, TableOps
  <2>2. CASE todo = <<"clash", "write">> BY <2>2
  <2>3. CASE todo = <<"zone", "clash", "write">> BY <2>3
  <2>4. CASE todo = <<"clash", "write", "read">> BY <2>4
  <2>5. CASE todo = <<"clash", "zone", "write", "read">> BY <2>5
  <2>6. CASE todo = <<"zone", "write", "read">> BY <2>6
  <2>7. CASE todo \in {<<"write">>, <<"find">>, <<"write", "read">>, <<"read">>,
                       <<"write", "tables">>, <<"tables">>}
    BY <1>1, <2>7
  <2>8. QED BY <2>1, <2>2, <2>3, <2>4, <2>5, <2>6, <2>7
<1>2. ASSUME NEW op \in {"updateZone", "updateTable", "setStatus", "deleteZone", "deleteTable"},
             NEW data, NEW r
      PROVE  Head(StepsOn(op, data, r)) \notin {"read", "tables"}
  <2>1. CASE op = "updateZone"
    <3>1. CASE Changes(data, r, "name")
      BY <2>1, <3>1, Joins DEF StepsOn, If
    <3>2. CASE ~Changes(data, r, "name")
      BY <2>1, <3>2 DEF StepsOn, If
    <3>3. QED BY <3>1, <3>2
  <2>2. CASE op = "updateTable"
    <3>1. CASE Changes(data, r, "number") /\ Changes(data, r, "zone")
      <4>1. StepsOn(op, data, r) = (<<"clash">> \o <<"zone">>) \o <<"write", "read">>
        BY <2>2, <3>1 DEF StepsOn, If
      <4>2. StepsOn(op, data, r) = <<"clash", "zone", "write", "read">>
        BY <4>1, Joins
      <4>3. QED BY <4>2
    <3>2. CASE ~Changes(data, r, "number") /\ Changes(data, r, "zone")
      BY <2>2, <3>2, Joins DEF StepsOn, If
    <3>3. CASE Changes(data, r, "number") /\ ~Changes(data, r, "zone")
      BY <2>2, <3>3, Joins DEF StepsOn, If
    <3>4. CASE ~Changes(data, r, "number") /\ ~Changes(data, r, "zone")
      BY <2>2, <3>4 DEF StepsOn, If
    <3>5. QED BY <3>1, <3>2, <3>3, <3>4
  <2>3. CASE op \in {"setStatus", "deleteZone", "deleteTable"}
    BY <2>3 DEF StepsOn
  <2>4. QED BY <2>1, <2>2, <2>3
<1>3. ASSUME NEW op \in ZoneOps \cup TableOps
      PROVE  Head(FirstSteps(op)) \notin {"read", "tables"}
  <2>1. CASE op = "createZone" BY <2>1 DEF FirstSteps
  <2>2. CASE op = "createTable" BY <2>2 DEF FirstSteps
  <2>3. CASE op \notin {"createZone", "createTable"} BY <2>3 DEF FirstSteps
  <2>4. QED BY <2>1, <2>2, <2>3
<1>4. QED BY <1>1, <1>2, <1>3

\* What a request that has changed the room is about.
LEMMA TookIs ==
  ASSUME RoomInv, RoomTypes, NEW w \in Workers, Took(w)
  PROVE  /\ req[w].op \in ZoneOps \cup TableOps
         /\ req[w].op \in ZoneOps => req[w].id \in Zones
         /\ req[w].op \in TableOps => req[w].id \in Tables
         /\ req[w].op \in Creations \cup {"deleteTable"} => req[w].result = "done"
         /\ req[w].result = "done" => ResultTyped(req[w].op, req[w].id, req[w].row)
<1>1. CASE req[w].result = "done"
  <2>1. RequestTyped(w)
    BY DEF RoomTypes
  <2>2. QED BY <1>1, <2>1 DEF RequestTyped, ResultTyped, NoRequest
<1>2. CASE req[w].result # "done"
  <2>1. Under(w) /\ Head(req[w].todo) \in {"read", "tables"}
    BY <1>2 DEF Took
  <2>2. WellSent(req[w].op, req[w].id, req[w].data) /\ req[w].todo \in Left(req[w].op)
    BY <2>1 DEF RoomInv, RequestsShape
  <2>3. req[w].op \in ZoneOps \cup TableOps
    BY <2>2 DEF WellSent
  <2>4. req[w].op \in {"updateZone", "updateTable", "setStatus", "deleteZone"}
    BY <2>1, <2>2, <2>3, Ahead
  <2>5. QED BY <1>2, <2>2, <2>3, <2>4 DEF WellSent, ZoneOps, TableOps, Creations
<1>3. QED BY <1>1, <1>2

\* The statements that only check leave nothing to be answered.
LEMMA ChecksTakeNothing ==
  ASSUME RoomInv, RoomTypes, NEW w \in Workers, Find(w) \/ RequireZone(w) \/ CheckClash(w)
  PROVE  ~Took(w) /\ ~Took(w)'
<1>1. /\ Under(w) /\ req[w].todo \in Left(req[w].op) /\ req[w].op \in ZoneOps \cup TableOps
      /\ Head(req[w].todo) \in {"find", "zone", "clash"}
  BY AtIs DEF Find, RequireZone, CheckClash, At
<1>2. RequestsShape
  BY DEF RoomInv
<1>3. ~Took(w)
  BY <1>1 DEF Took, Under
<1>4. CASE Refuse(w)
  BY <1>2, <1>3, <1>4 DEF Refuse, RequestsShape, Took, Under
<1>5. CASE Find(w) /\ req' = [req EXCEPT ![w].todo = StepsOn(req[w].op, req[w].data, Row(w))]
  <2>1. req[w].todo = <<"find">>
    BY <1>1, <1>5, Ahead DEF Find, At
  <2>2. req[w].op \in {"updateZone", "updateTable", "setStatus", "deleteZone", "deleteTable"}
    BY <1>1, <2>1 DEF Left, ZoneOps, TableOps
  <2>3. Head(StepsOn(req[w].op, req[w].data, Row(w))) \notin {"read", "tables"}
    BY <2>2, ChecksFirst
  <2>4. req'[w].todo = StepsOn(req[w].op, req[w].data, Row(w)) /\ req'[w].result = req[w].result
    BY <1>2, <1>5 DEF RequestsShape
  <2>5. QED BY <1>1, <2>3, <2>4 DEF Took, Under
<1>6. CASE (RequireZone(w) \/ CheckClash(w)) /\ Next1(w)
  <2>1. Head(req[w].todo) \in {"zone", "clash"}
    BY <1>6 DEF RequireZone, CheckClash, At
  <2>2. Head(Tail(req[w].todo)) \notin {"read", "tables"}
    BY <1>1, <2>1, ChecksFirst
  <2>3. req'[w].todo = Tail(req[w].todo) /\ req'[w].result = req[w].result
    BY <1>2, <1>6 DEF RequestsShape, Next1
  <2>4. QED BY <1>1, <2>2, <2>3 DEF Took, Under
<1>7. QED BY <1>3, <1>4, <1>5, <1>6 DEF Find, RequireZone, CheckClash

\* A request that is refused has changed nothing that can be read.
LEMMA RefusedTakesNothing ==
  ASSUME RequestsShape, NEW w \in Workers, Refuse(w)
  PROVE  ~Took(w)'
  BY DEF Refuse, RequestsShape, Took, Under

\* What was removed is still so, and what is removed now.
LEMMA RemovedStaySame ==
  ASSUME RoomInv, RoomTypes, RemovedStay, Lasting,
         \A v \in Workers : Taken(v)' =>
           \/ Taken(v) /\ req'[v].op = req[v].op /\ req'[v].id = req[v].id
           \/ req'[v].op \notin {"deleteZone", "deleteTable"}
           \/ req'[v].op = "deleteZone" /\ zone'[req'[v].id] = Removed
           \/ req'[v].op = "deleteTable" /\ table'[req'[v].id] = Removed
  PROVE  RemovedStay'
<1>1. ASSUME NEW v \in Workers, Taken(v)', Taken(v), req'[v].op = req[v].op, req'[v].id = req[v].id
      PROVE  /\ req'[v].op = "deleteZone" => zone'[req'[v].id] = Removed
             /\ req'[v].op = "deleteTable" => table'[req'[v].id] = Removed
  <2>1. /\ req[v].op \in ZoneOps => req[v].id \in Zones
        /\ req[v].op \in TableOps => req[v].id \in Tables
    BY <1>1, TookIs DEF Taken
  <2>2. QED BY <1>1, <2>1 DEF RemovedStay, Lasting, ZoneOps, TableOps
<1>2. QED BY <1>1 DEF RemovedStay

-----------------------------------------------------------------------------
(* Requests that are served *)

\* A request of this application that is being served: whatever else is answered came before.
ServedFor(w) ==
  /\ Mine(w) /\ OthersStay(w) /\ asked' = asked
  /\ req'[w].op = req[w].op
  /\ \A v \in Workers \ {w} : before'[v] = before[v]
  /\ req'[w].result # "none" =>
       before'[w] = {v \in Workers \ {w} : Mine(v) /\ req[v].result # "none"}
  /\ UNCHANGED <<shown, fetch, crossed, deleting>> /\ (~foreign' => ~foreign)

\* What a statement does beside the room.
LEMMA ServedForIs ==
  ASSUME RequestsShape, Heard, NEW w \in Workers, Mine(w), Served(w)
  PROVE  ServedFor(w)
<1>1. OthersStay(w) /\ req'[w].op = req[w].op
  BY ServedSame DEF Served
<1>2. /\ before' = IF req'[w].result # "none"
                     THEN [before EXCEPT ![w] = {v \in Mutations \ {w} : req[v].result # "none"}]
                     ELSE before
      /\ foreign' = (foreign \/ FALSE)
      /\ UNCHANGED <<shown, fetch, asked, crossed, deleting>>
  BY DEF Served, Noted
<1>3. ~foreign' => ~foreign
  BY <1>2
<1>4. DOMAIN before = Workers
  BY DEF Heard
<1>5. QED BY <1>1, <1>2, <1>3, <1>4 DEF ServedFor, Mutations

\* All others stay as they are, and so does the list.
LEMMA OthersHeld ==
  ASSUME NEW w \in Workers, ServedFor(w)
  PROVE  /\ \A v \in Workers \ {w} :
              /\ Held(v) /\ (Taken(v)' <=> Taken(v)) /\ (Done(v)' <=> Done(v)) /\ (Mine(v)' <=> Mine(v))
              /\ req'[v] = req[v] /\ before'[v] = before[v]
         /\ Mine(w)' <=> Mine(w)
         /\ (Clean' => Clean) /\ Basis' = Basis /\ shown' = shown
<1>1. ASSUME NEW v \in Workers \ {w}
      PROVE  /\ Held(v) /\ (Taken(v)' <=> Taken(v)) /\ (Done(v)' <=> Done(v)) /\ (Mine(v)' <=> Mine(v))
             /\ req'[v] = req[v] /\ before'[v] = before[v]
  <2>1. req'[v] = req[v] /\ asked' = asked /\ before'[v] = before[v]
    BY DEF ServedFor, OthersStay
  <2>2. (Took(v)' <=> Took(v)) /\ (Mine(v)' <=> Mine(v))
    BY <2>1 DEF Took, Under, Mine
  <2>3. (Taken(v)' <=> Taken(v)) /\ (Done(v)' <=> Done(v))
    BY <2>1, <2>2 DEF Taken, Done
  <2>4. Held(v)
    BY <2>1, <2>3 DEF Held, Taken, Done
  <2>5. QED BY <2>1, <2>2, <2>3, <2>4
<1>2. Mine(w)' <=> Mine(w)
  BY DEF ServedFor, Mine
<1>3. (Clean' => Clean) /\ Basis' = Basis /\ shown' = shown
  BY DEF ServedFor, Clean, Basis
<1>4. QED BY <1>1, <1>2, <1>3

\* So does what the request itself has changed before.
LEMMA OwnHeld ==
  ASSUME NEW w \in Workers, ServedFor(w), ~Done(w),
         Taken(w) /\ ~Void(w) => Taken(w)' /\ req'[w].id = req[w].id
  PROVE  AllHeld
<1>1. ASSUME NEW u \in Workers \ {w}, Done(u), req'[w].result = "done"
      PROVE  u \in before'[w]
  BY <1>1 DEF ServedFor, Done
<1>2. Held(w)
  BY <1>1 DEF Held, ServedFor
<1>3. QED BY <1>2, OthersHeld DEF AllHeld

\* What nobody asked for, nobody asks for now.
LEMMA UnaskedSame ==
  ASSUME NEW v \in Workers, Unasked(v), req'[v].id = req[v].id,
         \A u \in Workers \ {v} : Mine(u)' =>
           Mine(u) /\ req'[u].id = req[u].id /\ req'[u].data = req[u].data
  PROVE  Unasked(v)'
  BY DEF Unasked

\* A request goes on without a word about the room.
LEMMA QuietlyServed ==
  ASSUME Explained, NEW w \in Workers, ServedFor(w), UNCHANGED <<zone, table>>,
         req'[w].id = req[w].id, req'[w].data = req[w].data, ~Took(w)', Took(w) => Void(w)
  PROVE  Explained'
<1>1. ~Done(w) /\ ~Done(w)' /\ (Taken(w) => Void(w))
  BY DEF Done, Taken, Took, Void
<1>2. AllHeld
  BY <1>1, OwnHeld
<1>3. ASSUME NEW v \in Workers
      PROVE  /\ Done(v)' => Done(v)
             /\ Done(v) /\ Unheard(v) /\ req[v].op \in Creations => deleting' # req[v].id /\ Unasked(v)'
  <2>1. Done(v)' => Done(v)
    BY <1>1, OthersHeld
  <2>2. ASSUME Done(v), Unheard(v), req[v].op \in Creations
        PROVE  deleting' # req[v].id /\ Unasked(v)'
    <3>1. v # w /\ Unasked(v) /\ deleting # req[v].id
      BY <1>1, <2>2 DEF Unheard
    <3>2. \A u \in Workers \ {v} : Mine(u)' =>
            Mine(u) /\ req'[u].id = req[u].id /\ req'[u].data = req[u].data
      BY OthersHeld
    <3>3. req'[v].id = req[v].id
      BY <3>1, OthersHeld
    <3>4. Unasked(v)'
      BY <3>1, <3>2, <3>3, UnaskedSame
    <3>5. QED BY <3>1, <3>4 DEF ServedFor
  <2>3. QED BY <2>1, <2>2
<1>4. QED
  BY <1>2, <1>3, OthersHeld, ExplainedSame

\* The row of the answer is what is stored.
LEMMA RereadExplained ==
  ASSUME RoomInv, RoomTypes, Explained, NEW w \in Workers, ServedFor(w), Reread(w)
  PROVE  Explained'
<1>1. /\ UNCHANGED <<zone, table>> /\ Under(w) /\ Head(req[w].todo) = "read"
      /\ req[w].op \in {"updateZone", "updateTable", "setStatus"} /\ RequestsShape
      /\ req[w].op \in ZoneOps \cup TableOps /\ WellSent(req[w].op, req[w].id, req[w].data)
  BY AtIs, Ahead DEF Reread, At, RoomInv
<1>2. Took(w) /\ ~Done(w)
  BY <1>1 DEF Took, Done, Under
<1>3. CASE Row(w).life # "live"
  <2>1. Refuse(w) /\ ~Took(w)'
    BY <1>1, <1>3, RefusedTakesNothing DEF Reread
  <2>2. req'[w].id = req[w].id /\ req'[w].data = req[w].data
    BY <1>1, <2>1 DEF Refuse, RequestsShape
  <2>3. Void(w)
    BY <1>1, <1>2, <1>3 DEF Void, Row, ZoneOps, TableOps, Writes, LiveZones, LiveTables
  <2>4. QED BY <1>1, <2>1, <2>2, <2>3, QuietlyServed
<1>4. CASE Row(w).life = "live"
  <2>1. Finish(w, req[w].id, Row(w))
    BY <1>4 DEF Reread
  <2>2. /\ req'[w].id = req[w].id /\ req'[w].data = req[w].data /\ req'[w].row = Row(w)
        /\ req'[w].result = "done" /\ Took(w)'
    BY <1>1, <2>1 DEF Finish, RequestsShape, Took
  <2>3. Taken(w)'
    BY <2>2, OthersHeld DEF Taken, ServedFor
  <2>4. AllHeld
    BY <1>2, <2>2, <2>3, OwnHeld
  <2>5. Answers(w)'
    <3>1. req'[w].op = req[w].op
      BY DEF ServedFor
    <3>2. req[w].op \in ZoneOps => Row(w) = zone[req[w].id]
      BY DEF Row
    <3>3. req[w].op \in TableOps => Row(w) = table[req[w].id] /\ req[w].id \in LiveTables
      BY <1>1, <1>4, RowIs
    <3>4. ZoneAnswer(w)'
      BY <1>1, <2>2, <3>1, <3>2 DEF ZoneAnswer, ZoneOps
    <3>5. (req[w].id \in LiveTables)' <=> req[w].id \in LiveTables
      BY <1>1, <2>2 DEF LiveTables
    <3>6. TableAnswer(w)'
      BY <1>1, <2>2, <3>1, <3>3, <3>5 DEF TableAnswer, TableOps, Writes
    <3>7. Unheard(w)'
      BY <1>1, <3>1 DEF Unheard, Creations
    <3>8. QED BY <3>4, <3>6, <3>7 DEF Answers
  <2>6. ASSUME NEW v \in Workers \ {w}
        PROVE  /\ Done(v)' => Done(v)
               /\ Done(v) /\ Unheard(v) /\ req[v].op \in Creations => deleting' # req[v].id /\ Unasked(v)'
    <3>1. Done(v)' => Done(v)
      BY OthersHeld
    <3>2. ASSUME Done(v), Unheard(v), req[v].op \in Creations
          PROVE  deleting' # req[v].id /\ Unasked(v)'
      <4>1. Unasked(v) /\ deleting # req[v].id
        BY <3>2 DEF Unheard
      <4>2. \A u \in Workers \ {v} : Mine(u)' =>
              Mine(u) /\ req'[u].id = req[u].id /\ req'[u].data = req[u].data
        BY <2>2, OthersHeld
      <4>3. req'[v].id = req[v].id
        BY OthersHeld
      <4>4. Unasked(v)'
        BY <4>1, <4>2, <4>3, UnaskedSame
      <4>5. QED BY <4>1, <4>4 DEF ServedFor
    <3>3. QED BY <3>1, <3>2
  <2>7. QED
    BY <1>1, <2>4, <2>5, <2>6, OthersHeld, ExplainedSame
<1>5. QED BY <1>3, <1>4

\* What there is to explain about a list, once something was written.
LEMMA ExplainedAgain ==
  ASSUME NEW l, l = Basis', l.again = {}, \A z \in Zones : ZoneListed(l, z)',
         \A t \in Tables : TableListed(l, t)', \A v \in Workers : Answers(v)'
  PROVE  Explained'
<1>1. Explains(l)'
  BY DEF Explains
<1>2. \A m \in {Basis'} : Explains(m)'
  BY <1>1
<1>3. QED BY <1>2 DEF Explained

\* What is explained so far is about rows that are known.
LEMMA SoFar ==
  ASSUME Explained, Heard, Clean
  PROVE  /\ \A l \in {Basis} : Explains(l) /\ KnownList(l)
         /\ \A v \in Workers : /\ Answers(v)
                               /\ Done(v) => Known(req[v].id)
  BY DEF Explained, Heard, Basis, PageAsks, Done

\* Requests without a result have nothing to answer.
LEMMA NoAnswer ==
  ASSUME NEW v \in Workers, ~Done(v)'
  PROVE  Answers(v)'
  BY DEF Answers, ZoneAnswer, TableAnswer, Unheard

\* An id that nobody knows is nowhere to be found.
LEMMA UnknownId ==
  ASSUME Heard, NEW i, ~Known(i)
  PROVE  /\ i \notin ShownIn(shown) /\ i \notin ShownIn(Basis) /\ deleting # i
         /\ \A v \in Workers : Mine(v) =>
              /\ req[v].id # i
              /\ "zone" \in DOMAIN req[v].data => req[v].data.zone # i
         /\ \A t \in LiveTables : table[t].zone # i
  BY DEF Heard, KnownList, Basis, PageAsks

\* A zone is created: nobody knows it yet.
LEMMA CreateZoneExplained ==
  ASSUME RoomInv, RoomTypes, Heard, Explained, NEW w \in Workers, ServedFor(w), Create(w),
         req[w].op = "createZone"
  PROVE  Explained'
<1> SUFFICES ASSUME Clean' PROVE Explained'
  BY DEF Explained
<1>1. At(w, "write") /\ Under(w) /\ Head(req[w].todo) = "write" /\ RequestsShape
  BY DEF Create, At, RoomInv
<1>2. PICK i \in Unused(zone) : /\ zone' = [zone EXCEPT ![i] = ZoneRow(req[w].data.name)]
                                /\ Finish(w, i, zone'[i]) /\ table' = table
  BY DEF Create
<1>3. i \in Zones /\ zone[i] = NoRow /\ ~Known(i) /\ i \notin LiveZones
  BY <1>2 DEF Unused, RoomTypes, Known, LiveZones, NoRow
<1>4. /\ zone'[i] = ZoneRow(req[w].data.name) /\ \A z \in Zones \ {i} : zone'[z] = zone[z]
  BY <1>2, <1>3 DEF RoomTypes
<1>5. /\ req'[w].id = i /\ req'[w].data = req[w].data /\ req'[w].row = zone'[i]
      /\ req'[w].result = "done" /\ Took(w)'
  BY <1>1, <1>2 DEF Finish, RequestsShape, Took
<1>6. Clean /\ Basis' = Basis /\ shown' = shown /\ deleting' = deleting /\ req'[w].op = "createZone"
  BY OthersHeld DEF ServedFor
<1>7. ~Took(w) /\ ~Done(w) /\ ~Taken(w)
  BY <1>1 DEF Took, Done, Taken, Under
<1>8. Taken(w)' /\ Done(w)' /\ Mine(w)
  BY <1>5, OthersHeld DEF Taken, Done, ServedFor
<1>9. AllHeld
  BY <1>7, OwnHeld
<1>10. PICK l : l = Basis'
  OBVIOUS
<1>11. Explains(l) /\ KnownList(l) /\ \A v \in Workers : Answers(v) /\ (Done(v) => Known(req[v].id))
  BY <1>6, <1>10, SoFar
<1>12. ASSUME NEW z \in Zones
       PROVE  ZoneListed(l, z)'
  <2>1. CASE z = i
    <3>1. z \notin ShownZones(l)
      BY <1>3, <1>11, <2>1 DEF KnownList, ShownIn
    <3>2. Pending({"createZone"}, z)'
      BY <1>5, <1>6, <1>8, <2>1 DEF Pending
    <3>3. (z \notin ShownZones(l))'
      BY <3>1 DEF ShownZones
    <3>4. QED BY <3>2, <3>3 DEF ZoneListed
  <2>2. CASE z # i
    BY <1>4, <1>9, <1>11, <2>2, ZoneListedSame DEF Explains
  <2>3. QED BY <2>1, <2>2
<1>13. ASSUME NEW t \in Tables
       PROVE  TableListed(l, t)'
  <2>1. t \in LiveTables => table[t].zone # i
    BY <1>3, UnknownId
  <2>2. (t \in ListedTables)' <=> t \in ListedTables
    BY <1>2, <1>3, <1>4, <2>1 DEF ListedTables, LiveTables, ListedZones, LiveZones
  <2>3. QED BY <1>2, <1>9, <1>11, <2>2, TableListedSame DEF Explains
<1>14. ASSUME NEW v \in Workers \ {w}
       PROVE  Answers(v)'
  <2>1. CASE ~Done(v)
    <3>1. ~Done(v)'
      BY <2>1, OthersHeld
    <3>2. QED BY <3>1, NoAnswer
  <2>2. CASE Done(v)
    <3>1. req[v].id # i /\ Answers(v)
      BY <1>3, <1>11, <2>2
    <3>2. /\ req[v].id \in Zones => zone'[req[v].id] = zone[req[v].id]
          /\ req[v].id \in Tables => table'[req[v].id] = table[req[v].id]
      BY <1>2, <1>4, <3>1
    <3>3. ZoneAnswer(v)'
      BY <1>9, <2>2, <3>1, <3>2, ZoneAnswerSame DEF Answers
    <3>4. TableAnswer(v)'
      BY <1>9, <2>2, <3>1, <3>2, TableAnswerSame DEF Answers
    <3>5. ASSUME req[v].op \in Creations
          PROVE  deleting' # req[v].id /\ Unasked(v)'
      <4>1. Unasked(v) /\ deleting # req[v].id
        BY <2>2, <3>1, <3>5 DEF Answers, Unheard
      <4>2. req'[v].id = req[v].id
        BY OthersHeld
      <4>3. \A u \in Workers \ {v, w} : Mine(u)' => Mine(u) /\ req'[u] = req[u]
        BY OthersHeld
      <4>4. Unasked(v)'
        BY <1>5, <1>8, <3>1, <4>1, <4>2, <4>3 DEF Unasked
      <4>5. QED BY <1>6, <4>1, <4>4
    <3>6. \A t \in Tables :
            table'[t].life = "live" /\ table'[t].zone = req[v].id =>
              table[t].life = "live" /\ table[t].zone = req[v].id
      BY <1>2
    <3>7. Unheard(v)'
      BY <1>6, <1>9, <2>2, <3>1, <3>2, <3>5, <3>6, UnheardSame DEF Answers
    <3>8. QED BY <3>3, <3>4, <3>7 DEF Answers
  <2>3. QED BY <2>1, <2>2
<1>15. Answers(w)'
  <2>1. ZoneAnswer(w)' /\ TableAnswer(w)'
    BY <1>6 DEF ZoneAnswer, TableAnswer, Writes
  <2>2. (req[w].id \notin ShownIn(shown) /\ req[w].id \notin ShownIn(Basis))'
    <3>1. i \notin ShownIn(shown) /\ i \notin ShownIn(Basis)
      BY <1>3, UnknownId
    <3>2. i \notin ShownIn(shown') /\ i \notin ShownIn(Basis')
      BY <1>6, <3>1
    <3>3. QED BY <1>5, <3>2 DEF ShownIn, ShownZones, ShownTables
  <2>3. Unasked(w)'
    <3>1. \A v \in Workers \ {w} : Mine(v)' => Mine(v) /\ req'[v] = req[v]
      BY OthersHeld
    <3>2. QED BY <1>3, <1>5, <3>1, UnknownId DEF Unasked
  <2>4. deleting' # req'[w].id
    BY <1>3, <1>5, <1>6, UnknownId
  <2>5. (req[w].id \in ListedZones)' /\ zone'[req'[w].id] = req'[w].row
    BY <1>3, <1>4, <1>5 DEF ListedZones, LiveZones, ZoneRow
  <2>6. (\A t \in LiveTables : table[t].zone # req[w].id)'
    BY <1>2, <1>3, <1>5, UnknownId DEF LiveTables
  <2>7. Unheard(w)'
    BY <2>2, <2>3, <2>4, <2>5, <2>6 DEF Unheard
  <2>8. QED BY <2>1, <2>7 DEF Answers
<1>16. QED
  BY <1>10, <1>11, <1>12, <1>13, <1>14, <1>15, ExplainedAgain DEF Explains

\* A table is created, in a zone that is no news.
LEMMA CreateTableExplained ==
  ASSUME RoomInv, RoomTypes, Heard, Explained, NEW w \in Workers, ServedFor(w), Create(w),
         req[w].op = "createTable"
  PROVE  Explained'
<1> SUFFICES ASSUME Clean' PROVE Explained'
  BY DEF Explained
<1>1. /\ At(w, "write") /\ Under(w) /\ Head(req[w].todo) = "write" /\ RequestsShape
      /\ "zone" \in DOMAIN req[w].data
  BY AtIs DEF Create, At, RoomInv, WellSent
<1>2. PICK i \in Unused(table) :
        /\ table' = [table EXCEPT ![i] = TableRow(req[w].data.zone, req[w].data.number, req[w].data.seats)]
        /\ Finish(w, i, table'[i]) /\ zone' = zone
  BY DEF Create
<1>3. i \in Tables /\ table[i] = NoRow /\ ~Known(i) /\ i \notin LiveTables
  BY <1>2 DEF Unused, RoomTypes, Known, LiveTables, NoRow
<1>4. /\ table'[i] = TableRow(req[w].data.zone, req[w].data.number, req[w].data.seats)
      /\ table'[i].zone = req[w].data.zone
      /\ \A t \in Tables \ {i} : table'[t] = table[t]
  BY <1>2, <1>3 DEF RoomTypes, TableRow
<1>5. /\ req'[w].id = i /\ req'[w].data = req[w].data /\ req'[w].row = table'[i]
      /\ req'[w].result = "done" /\ Took(w)'
  BY <1>1, <1>2 DEF Finish, RequestsShape, Took
<1>6. Clean /\ Basis' = Basis /\ shown' = shown /\ deleting' = deleting /\ req'[w].op = "createTable"
  BY OthersHeld DEF ServedFor
<1>7. ~Took(w) /\ ~Done(w) /\ ~Taken(w)
  BY <1>1 DEF Took, Done, Taken, Under
<1>8. Taken(w)' /\ Done(w)' /\ Mine(w)
  BY <1>5, OthersHeld DEF Taken, Done, ServedFor
<1>9. AllHeld
  BY <1>7, OwnHeld
<1>10. PICK l : l = Basis'
  OBVIOUS
<1>11. Explains(l) /\ KnownList(l) /\ \A v \in Workers : Answers(v) /\ (Done(v) => Known(req[v].id))
  BY <1>6, <1>10, SoFar
<1>12. ASSUME NEW z \in Zones
       PROVE  ZoneListed(l, z)'
  BY <1>2, <1>9, <1>11, ZoneListedSame DEF Explains
<1>13. ASSUME NEW t \in Tables
       PROVE  TableListed(l, t)'
  <2>1. CASE t = i
    <3>1. t \notin ShownTables(l)
      BY <1>3, <1>11, <2>1 DEF KnownList, ShownIn
    <3>2. Pending({"createTable"}, t)'
      BY <1>5, <1>6, <1>8, <2>1 DEF Pending
    <3>3. (t \notin ShownTables(l))'
      BY <3>1 DEF ShownTables
    <3>4. QED BY <3>2, <3>3 DEF TableListed
  <2>2. CASE t # i
    <3>1. table'[t] = table[t]
      BY <1>4, <2>2
    <3>2. (t \in ListedTables)' <=> t \in ListedTables
      BY <1>2, <3>1 DEF ListedTables, LiveTables, ListedZones, LiveZones
    <3>3. QED BY <1>9, <1>11, <3>1, <3>2, TableListedSame DEF Explains
  <2>3. QED BY <2>1, <2>2
<1>14. ASSUME NEW v \in Workers \ {w}
       PROVE  Answers(v)'
  <2>1. CASE ~Done(v)
    <3>1. ~Done(v)'
      BY <2>1, OthersHeld
    <3>2. QED BY <3>1, NoAnswer
  <2>2. CASE Done(v)
    <3>1. req[v].id # i /\ Answers(v)
      BY <1>3, <1>11, <2>2
    <3>2. /\ req[v].id \in Zones => zone'[req[v].id] = zone[req[v].id]
          /\ req[v].id \in Tables => table'[req[v].id] = table[req[v].id]
      BY <1>2, <1>4, <3>1
    <3>3. ZoneAnswer(v)'
      BY <1>9, <2>2, <3>1, <3>2, ZoneAnswerSame DEF Answers
    <3>4. TableAnswer(v)'
      BY <1>9, <2>2, <3>1, <3>2, TableAnswerSame DEF Answers
    <3>5. ASSUME req[v].op \in Creations
          PROVE  /\ deleting' # req[v].id /\ Unasked(v)'
                 /\ req[w].data.zone # req[v].id
      <4>1. Unasked(v) /\ deleting # req[v].id
        BY <2>2, <3>1, <3>5 DEF Answers, Unheard
      <4>2. req'[v].id = req[v].id
        BY OthersHeld
      <4>3. \A u \in Workers \ {v, w} : Mine(u)' => Mine(u) /\ req'[u] = req[u]
        BY OthersHeld
      <4>4. Unasked(v)'
        BY <1>5, <1>8, <3>1, <4>1, <4>2, <4>3 DEF Unasked
      <4>5. QED BY <1>1, <1>6, <1>8, <4>1, <4>4 DEF Unasked
    <3>6. ASSUME req[v].op \in Creations
          PROVE  \A t \in Tables :
                   table'[t].life = "live" /\ table'[t].zone = req[v].id =>
                     table[t].life = "live" /\ table[t].zone = req[v].id
      BY <1>4, <3>5, <3>6
    <3>7. Unheard(v)'
      BY <1>6, <1>9, <2>2, <3>1, <3>2, <3>5, <3>6, UnheardSame DEF Answers, Creations
    <3>8. QED BY <3>3, <3>4, <3>7 DEF Answers
  <2>3. QED BY <2>1, <2>2
<1>15. Answers(w)'
  <2>1. ZoneAnswer(w)'
    BY <1>6 DEF ZoneAnswer
  <2>2. (req[w].id \notin ShownIn(shown) /\ req[w].id \notin ShownIn(Basis))'
    <3>1. i \notin ShownIn(shown) /\ i \notin ShownIn(Basis)
      BY <1>3, UnknownId
    <3>2. i \notin ShownIn(shown') /\ i \notin ShownIn(Basis')
      BY <1>6, <3>1
    <3>3. QED BY <1>5, <3>2 DEF ShownIn, ShownZones, ShownTables
  <2>3. Unasked(w)'
    <3>1. \A v \in Workers \ {w} : Mine(v)' => Mine(v) /\ req'[v] = req[v]
      BY OthersHeld
    <3>2. QED BY <1>3, <1>5, <3>1, UnknownId DEF Unasked
  <2>4. deleting' # req'[w].id
    BY <1>3, <1>5, <1>6, UnknownId
  <2>5. Unheard(w)'
    BY <1>6, <2>2, <2>3, <2>4 DEF Unheard
  <2>6. TableAnswer(w)'
    <3>1. (req[w].id \in LiveTables)'
      BY <1>3, <1>4, <1>5 DEF LiveTables, TableRow
    <3>2. req'[w].row = table'[req'[w].id]
      BY <1>5
    <3>3. QED BY <3>1, <3>2 DEF TableAnswer
  <2>7. QED BY <2>1, <2>5, <2>6 DEF Answers
<1>16. QED
  BY <1>10, <1>11, <1>12, <1>13, <1>14, <1>15, ExplainedAgain DEF Explains

\* The others do not ask for what v has created, because w asks for the same as before.
LEMMA UnaskedServed ==
  ASSUME NEW w \in Workers, ServedFor(w), req'[w].id = req[w].id, req'[w].data = req[w].data,
         NEW v \in Workers \ {w}, Done(v), req[v].op \in Creations, Unheard(v)
  PROVE  /\ deleting' # req[v].id /\ Unasked(v)'
         /\ req[w].id # req[v].id
<1>1. Unasked(v) /\ deleting # req[v].id
  BY DEF Unheard
<1>2. req'[v].id = req[v].id
  BY OthersHeld
<1>3. \A u \in Workers \ {v} : Mine(u)' => Mine(u) /\ req'[u].id = req[u].id /\ req'[u].data = req[u].data
  BY OthersHeld
<1>4. Unasked(v)'
  BY <1>1, <1>2, <1>3, UnaskedSame
<1>5. Mine(w) /\ deleting' = deleting
  BY DEF ServedFor
<1>6. QED BY <1>1, <1>4, <1>5 DEF Unasked

\* A zone gets another name: the answer will bring it.
LEMMA RenameExplained ==
  ASSUME RoomInv, RoomTypes, Heard, Explained, NEW w \in Workers, ServedFor(w), Update(w),
         req[w].op = "updateZone", Row(w).life = "live"
  PROVE  Explained'
<1> SUFFICES ASSUME Clean' PROVE Explained'
  BY DEF Explained
<1>1. /\ At(w, "write") /\ Under(w) /\ Head(req[w].todo) = "write" /\ RequestsShape
      /\ req[w].todo \in Left(req[w].op) /\ req[w].op \in ZoneOps \cup TableOps
      /\ WellSent(req[w].op, req[w].id, req[w].data)
  BY AtIs DEF Update, At, RoomInv
<1>2. PICK i : i = req[w].id
  OBVIOUS
<1>3. i \in Zones /\ i \in LiveZones /\ zone[i] \in LiveZoneRow /\ Mine(w)
  BY <1>1, <1>2, RowIs, RowsTyped DEF LiveZones, ServedFor, ZoneOps
<1>4. /\ zone' = [zone EXCEPT ![i] = Merged(zone[i], req[w].data)] /\ table' = table
      /\ Next1(w) /\ Tail(req[w].todo) = <<"read">>
  BY <1>1, <1>2, Ahead DEF Update
<1>5. /\ \A z \in Zones \ {i} : zone'[z] = zone[z]
      /\ zone'[i].life = "live" /\ zone'[i].active = zone[i].active
  <2>1. DOMAIN req[w].data = {"name"}
    BY <1>3 DEF Heard, PageAsks
  <2>2. DOMAIN zone[i] = {"life", "name", "active"} /\ zone[i].life = "live"
    BY <1>3 DEF LiveZoneRow
  <2>3. zone'[i] = Merged(zone[i], req[w].data)
    BY <1>3, <1>4 DEF RoomTypes
  <2>4. QED BY <1>3, <1>4, <2>1, <2>2, <2>3, MergedIs DEF RoomTypes
<1>6. /\ req'[w].id = i /\ req'[w].data = req[w].data /\ req'[w].result = "none"
      /\ req'[w].todo = <<"read">>
  BY <1>1, <1>2, <1>4 DEF Next1, RequestsShape, Under
<1>7. Clean /\ Basis' = Basis /\ shown' = shown /\ deleting' = deleting /\ req'[w].op = "updateZone"
  BY OthersHeld DEF ServedFor
<1>8. ~Took(w) /\ ~Done(w) /\ ~Taken(w)
  BY <1>1 DEF Took, Done, Taken, Under
<1>9. Took(w)' /\ ~Done(w)'
  BY <1>6, <1>7 DEF Took, Under, NoRequest, Done
<1>10. Taken(w)'
  BY <1>3, <1>9, OthersHeld DEF Taken
<1>11. AllHeld
  BY <1>8, OwnHeld
<1>12. PICK l : l = Basis'
  OBVIOUS
<1>13. Explains(l) /\ \A v \in Workers : Answers(v)
  BY <1>7, <1>12, SoFar
<1>14. \A z \in Zones : (z \in ListedZones)' <=> z \in ListedZones
  BY <1>3, <1>5 DEF ListedZones, LiveZones
<1>15. ASSUME NEW z \in Zones
       PROVE  ZoneListed(l, z)'
  <2>1. CASE z = i
    <3>1. Pending({"updateZone"}, z)'
      BY <1>6, <1>7, <1>10, <2>1 DEF Pending
    <3>2. (z \in ListedZones)' <=> z \in ListedZones
      BY <1>14
    <3>3. /\ Pending({"deleteZone"}, z) => Pending({"deleteZone"}, z)'
          /\ Pending({"createZone"}, z) => Pending({"createZone"}, z)'
      BY <1>11, PendingHeld DEF Writes
    <3>4. (z \in ShownZones(l))' <=> z \in ShownZones(l)
      BY DEF ShownZones
    <3>5. ZoneListed(l, z)
      BY <1>13 DEF Explains
    <3>6. QED BY <3>1, <3>2, <3>3, <3>4, <3>5 DEF ZoneListed
  <2>2. CASE z # i
    BY <1>5, <1>11, <1>13, <2>2, ZoneListedSame DEF Explains
  <2>3. QED BY <2>1, <2>2
<1>16. ASSUME NEW t \in Tables
       PROVE  TableListed(l, t)'
  <2>1. (t \in ListedTables)' <=> t \in ListedTables
    <3>1. ListedZones \subseteq Zones /\ ListedZones' \subseteq Zones
      BY DEF ListedZones, LiveZones
    <3>2. QED BY <1>4, <1>14, <3>1 DEF ListedTables, LiveTables
  <2>2. QED BY <1>4, <1>11, <1>13, <2>1, TableListedSame DEF Explains
<1>17. ASSUME NEW v \in Workers \ {w}
       PROVE  Answers(v)'
  <2>1. CASE ~Done(v)
    <3>1. ~Done(v)'
      BY <2>1, OthersHeld
    <3>2. QED BY <3>1, NoAnswer
  <2>2. CASE Done(v)
    <3>1. Answers(v) /\ req'[v] = req[v] /\ (Done(v)' => Done(v))
      BY <1>13, OthersHeld
    <3>2. ZoneAnswer(v)'
      <4>1. CASE req[v].id = i
        <5>1. Later(w, v)'
          BY <1>6 DEF Later
        <5>2. Overwritten({"updateZone"}, i, v)'
          BY <1>6, <1>7, <1>10, <5>1 DEF Overwritten
        <5>3. QED BY <3>1, <4>1, <5>2 DEF ZoneAnswer, Overwritten
      <4>2. CASE req[v].id # i
        BY <1>5, <1>11, <3>1, <4>2, ZoneAnswerSame DEF Answers
      <4>3. QED BY <4>1, <4>2
    <3>3. TableAnswer(v)'
      BY <1>4, <1>11, <3>1, TableAnswerSame DEF Answers
    <3>4. Unheard(v)'
      <4>1. ASSUME req[v].op \in Creations
            PROVE  /\ deleting' # req[v].id /\ Unasked(v)'
                   /\ i # req[v].id
        BY <1>2, <1>6, <2>2, <3>1, <4>1, UnaskedServed DEF Answers
      <4>2. \A t \in Tables : table'[t] = table[t]
        BY <1>4
      <4>3. CASE req[v].op \in Creations
        <5>1. req[v].id \in Zones => zone'[req[v].id] = zone[req[v].id]
          BY <1>5, <4>1, <4>3
        <5>2. QED BY <1>7, <1>11, <3>1, <4>1, <4>2, <4>3, <5>1, UnheardSame DEF Answers
      <4>4. CASE req[v].op \notin Creations
        BY <3>1, <4>4 DEF Unheard, Creations
      <4>5. QED BY <4>3, <4>4
    <3>5. QED BY <3>2, <3>3, <3>4 DEF Answers
  <2>3. QED BY <2>1, <2>2
<1>18. Answers(w)'
  BY <1>9, NoAnswer
<1>19. QED
  BY <1>12, <1>13, <1>15, <1>16, <1>17, <1>18, ExplainedAgain DEF Explains

\* A table gets another number or other seats: the answer will bring them.
LEMMA ChangeTableExplained ==
  ASSUME RoomInv, RoomTypes, Heard, Explained, NEW w \in Workers, ServedFor(w), Update(w),
         req[w].op = "updateTable", Row(w).life = "live"
  PROVE  Explained'
<1> SUFFICES ASSUME Clean' PROVE Explained'
  BY DEF Explained
<1>1. /\ At(w, "write") /\ Under(w) /\ Head(req[w].todo) = "write" /\ RequestsShape
      /\ req[w].todo \in Left(req[w].op) /\ req[w].op \in ZoneOps \cup TableOps
      /\ WellSent(req[w].op, req[w].id, req[w].data)
  BY AtIs DEF Update, At, RoomInv
<1>2. PICK i : i = req[w].id
  OBVIOUS
<1>3. i \in Tables /\ i \in LiveTables /\ table[i] \in LiveTableRow /\ Mine(w) /\ Row(w) = table[i]
  BY <1>1, <1>2, RowIs, RowsTyped DEF LiveTables, ServedFor, TableOps
<1>4. /\ table' = [table EXCEPT ![i] = Merged(table[i], req[w].data)] /\ zone' = zone
      /\ Next1(w) /\ Tail(req[w].todo) = <<"read">>
  BY <1>1, <1>2, Ahead DEF Update
<1>5. /\ \A t \in Tables \ {i} : table'[t] = table[t]
      /\ table'[i].life = "live" /\ table'[i].zone = table[i].zone
  <2>1. DOMAIN req[w].data \subseteq {"number", "seats"}
    BY <1>3 DEF Heard, PageAsks
  <2>2. {"life", "zone"} \subseteq DOMAIN table[i] /\ table[i].life = "live"
    BY <1>3 DEF LiveTableRow
  <2>3. table'[i] = Merged(table[i], req[w].data)
    BY <1>3, <1>4 DEF RoomTypes
  <2>4. QED BY <1>3, <1>4, <2>1, <2>2, <2>3, MergedIs DEF RoomTypes
<1>6. /\ req'[w].id = i /\ req'[w].data = req[w].data /\ req'[w].result = "none"
      /\ req'[w].todo = <<"read">>
  BY <1>1, <1>2, <1>4 DEF Next1, RequestsShape, Under
<1>7. Clean /\ Basis' = Basis /\ shown' = shown /\ deleting' = deleting /\ req'[w].op = "updateTable"
  BY OthersHeld DEF ServedFor
<1>8. ~Took(w) /\ ~Done(w) /\ ~Taken(w)
  BY <1>1 DEF Took, Done, Taken, Under
<1>9. Took(w)' /\ ~Done(w)'
  BY <1>6, <1>7 DEF Took, Under, NoRequest, Done
<1>10. Taken(w)'
  BY <1>3, <1>9, OthersHeld DEF Taken
<1>11. AllHeld
  BY <1>8, OwnHeld
<1>12. PICK l : l = Basis'
  OBVIOUS
<1>13. Explains(l) /\ \A v \in Workers : Answers(v)
  BY <1>7, <1>12, SoFar
<1>14. \A t \in Tables : /\ (t \in LiveTables)' <=> t \in LiveTables
                         /\ (t \in ListedTables)' <=> t \in ListedTables
                         /\ table'[t].zone = table[t].zone
  BY <1>3, <1>4, <1>5 DEF ListedTables, LiveTables, ListedZones, LiveZones
<1>15. ASSUME NEW z \in Zones
       PROVE  ZoneListed(l, z)'
  BY <1>4, <1>11, <1>13, ZoneListedSame DEF Explains
<1>16. ASSUME NEW t \in Tables
       PROVE  TableListed(l, t)'
  <2>1. CASE t = i
    <3>1. Pending(Writes, t)'
      BY <1>6, <1>7, <1>10, <2>1 DEF Pending, Writes
    <3>2. /\ Pending({"deleteTable"}, t) => Pending({"deleteTable"}, t)'
          /\ Pending({"createTable"}, t) => Pending({"createTable"}, t)'
          /\ Pending({"deleteZone"}, l.tables[t].zone) => Pending({"deleteZone"}, l.tables[t].zone)'
      BY <1>11, PendingHeld DEF Writes
    <3>3. (t \in ShownTables(l))' <=> t \in ShownTables(l)
      BY DEF ShownTables
    <3>4. TableListed(l, t)
      BY <1>13 DEF Explains
    <3>5. QED BY <1>14, <3>1, <3>2, <3>3, <3>4 DEF TableListed
  <2>2. CASE t # i
    BY <1>5, <1>11, <1>13, <1>14, <2>2, TableListedSame DEF Explains
  <2>3. QED BY <2>1, <2>2
<1>17. ASSUME NEW v \in Workers \ {w}
       PROVE  Answers(v)'
  <2>1. CASE ~Done(v)
    <3>1. ~Done(v)'
      BY <2>1, OthersHeld
    <3>2. QED BY <3>1, NoAnswer
  <2>2. CASE Done(v)
    <3>1. Answers(v) /\ req'[v] = req[v] /\ (Done(v)' => Done(v))
      BY <1>13, OthersHeld
    <3>2. TableAnswer(v)'
      <4>1. CASE req[v].id = i
        <5>1. Later(w, v)'
          BY <1>6 DEF Later
        <5>2. Overwritten(Writes, i, v)'
          BY <1>6, <1>7, <1>10, <5>1 DEF Overwritten, Writes
        <5>3. ASSUME req[v].op \in {"createTable"} \cup Writes
              PROVE  req[v].row.zone = table'[i].zone
          BY <1>3, <1>5, <2>2, <3>1, <4>1, <5>3 DEF Answers, TableAnswer
        <5>4. (i \in LiveTables)'
          BY <1>3, <1>14
        <5>5. QED BY <3>1, <4>1, <5>2, <5>3, <5>4 DEF TableAnswer, Overwritten
      <4>2. CASE req[v].id # i
        BY <1>5, <1>11, <3>1, <4>2, TableAnswerSame DEF Answers
      <4>3. QED BY <4>1, <4>2
    <3>3. ZoneAnswer(v)'
      BY <1>4, <1>11, <3>1, ZoneAnswerSame DEF Answers
    <3>4. Unheard(v)'
      <4>1. ASSUME req[v].op \in Creations
            PROVE  deleting' # req[v].id /\ Unasked(v)'
        BY <1>2, <1>6, <2>2, <3>1, <4>1, UnaskedServed DEF Answers
      <4>2. \A t \in Tables :
              table'[t].life = "live" /\ table'[t].zone = req[v].id =>
                table[t].life = "live" /\ table[t].zone = req[v].id
        BY <1>14 DEF LiveTables
      <4>3. CASE req[v].op \in Creations
        BY <1>4, <1>7, <1>11, <3>1, <4>1, <4>2, <4>3, UnheardSame DEF Answers
      <4>4. CASE req[v].op \notin Creations
        BY <3>1, <4>4 DEF Unheard, Creations
      <4>5. QED BY <4>3, <4>4
    <3>5. QED BY <3>2, <3>3, <3>4 DEF Answers
  <2>3. QED BY <2>1, <2>2
<1>18. Answers(w)'
  BY <1>9, NoAnswer
<1>19. QED
  BY <1>12, <1>13, <1>15, <1>16, <1>17, <1>18, ExplainedAgain DEF Explains

\* A zone is removed: it is listed until the answer comes, and so are its tables.
LEMMA RemoveZoneExplained ==
  ASSUME RoomInv, RoomTypes, Heard, Explained, NEW w \in Workers, ServedFor(w), Remove(w),
         req[w].op = "deleteZone", Row(w).life = "live"
  PROVE  Explained'
<1> SUFFICES ASSUME Clean' PROVE Explained'
  BY DEF Explained
<1>1. /\ At(w, "write") /\ Under(w) /\ Head(req[w].todo) = "write" /\ RequestsShape
      /\ req[w].todo \in Left(req[w].op) /\ req[w].op \in ZoneOps \cup TableOps
      /\ WellSent(req[w].op, req[w].id, req[w].data)
  BY AtIs DEF Remove, At, RoomInv
<1>2. PICK i : i = req[w].id
  OBVIOUS
<1>3. i \in Zones /\ Mine(w)
  BY <1>1, <1>2 DEF WellSent, ServedFor
<1>4. /\ zone' = [zone EXCEPT ![i] = Removed] /\ table' = table
      /\ Next1(w) /\ Tail(req[w].todo) = <<"tables">>
  BY <1>1, <1>2, Ahead DEF Remove
<1>5. /\ \A z \in Zones \ {i} : zone'[z] = zone[z]
      /\ zone'[i].life = "removed"
  BY <1>3, <1>4 DEF RoomTypes, Removed
<1>6. /\ req'[w].id = i /\ req'[w].data = req[w].data /\ req'[w].result = "none"
      /\ req'[w].todo = <<"tables">>
  BY <1>1, <1>2, <1>4 DEF Next1, RequestsShape, Under
<1>7. Clean /\ Basis' = Basis /\ shown' = shown /\ deleting' = deleting /\ req'[w].op = "deleteZone"
  BY OthersHeld DEF ServedFor
<1>8. ~Took(w) /\ ~Done(w) /\ ~Taken(w)
  BY <1>1 DEF Took, Done, Taken, Under
<1>9. Took(w)' /\ ~Done(w)'
  BY <1>6, <1>7 DEF Took, Under, NoRequest, Done
<1>10. Taken(w)'
  BY <1>3, <1>9, OthersHeld DEF Taken
<1>11. AllHeld
  BY <1>8, OwnHeld
<1>12. PICK l : l = Basis'
  OBVIOUS
<1>13. Explains(l) /\ \A v \in Workers : Answers(v)
  BY <1>7, <1>12, SoFar
<1>14. /\ (i \notin ListedZones)' /\ Pending({"deleteZone"}, i)'
       /\ \A z \in Zones \ {i} : (z \in ListedZones)' <=> z \in ListedZones
       /\ \A t \in Tables : (t \in LiveTables)' <=> t \in LiveTables
  <2>1. Pending({"deleteZone"}, i)'
    BY <1>6, <1>7, <1>10 DEF Pending
  <2>2. QED BY <1>4, <1>5, <2>1 DEF ListedZones, LiveZones, LiveTables
<1>15. ASSUME NEW z \in Zones
       PROVE  ZoneListed(l, z)'
  <2>1. CASE z = i
    BY <1>14, <2>1 DEF ZoneListed
  <2>2. CASE z # i
    BY <1>5, <1>11, <1>13, <2>2, ZoneListedSame DEF Explains
  <2>3. QED BY <2>1, <2>2
<1>16. ASSUME NEW t \in Tables
       PROVE  TableListed(l, t)'
  <2>1. CASE t \in LiveTables /\ table[t].zone = i
    <3>1. (t \notin ListedTables)'
      BY <1>4, <1>14, <2>1 DEF ListedTables
    <3>2. TableListed(l, t)
      BY <1>13 DEF Explains
    <3>3. t \in LiveTables /\ Pending(Writes, t) => Pending(Writes, t)'
      BY <1>11, ChangeHeld
    <3>4. (t \in ShownTables(l))' <=> t \in ShownTables(l)
      BY DEF ShownTables
    <3>5. t \in ShownTables(l) => l.tables[t].zone = i
      BY <2>1, <3>2 DEF TableListed
    <3>6. t \in ShownTables(l) => Pending({"deleteZone"}, l.tables[t].zone)'
      BY <1>14, <3>5 DEF Pending
    <3>7. QED BY <1>4, <2>1, <3>1, <3>2, <3>3, <3>4, <3>6 DEF TableListed
  <2>2. CASE ~(t \in LiveTables /\ table[t].zone = i)
    <3>1. (t \in ListedTables)' <=> t \in ListedTables
      BY <1>4, <1>5, <2>2 DEF ListedTables, LiveTables, ListedZones, LiveZones
    <3>2. QED BY <1>4, <1>11, <1>13, <3>1, TableListedSame DEF Explains
  <2>3. QED BY <2>1, <2>2
<1>17. ASSUME NEW v \in Workers \ {w}
       PROVE  Answers(v)'
  <2>1. CASE ~Done(v)
    <3>1. ~Done(v)'
      BY <2>1, OthersHeld
    <3>2. QED BY <3>1, NoAnswer
  <2>2. CASE Done(v)
    <3>1. Answers(v) /\ req'[v] = req[v] /\ (Done(v)' => Done(v))
      BY <1>13, OthersHeld
    <3>2. ZoneAnswer(v)'
      <4>1. CASE req[v].id = i
        BY <1>14, <3>1, <4>1 DEF ZoneAnswer
      <4>2. CASE req[v].id # i
        BY <1>5, <1>11, <3>1, <4>2, ZoneAnswerSame DEF Answers
      <4>3. QED BY <4>1, <4>2
    <3>3. TableAnswer(v)'
      BY <1>4, <1>11, <3>1, TableAnswerSame DEF Answers
    <3>4. Unheard(v)'
      <4>1. ASSUME req[v].op \in Creations
            PROVE  /\ deleting' # req[v].id /\ Unasked(v)'
                   /\ i # req[v].id
        BY <1>2, <1>6, <2>2, <3>1, <4>1, UnaskedServed DEF Answers
      <4>2. \A t \in Tables : table'[t] = table[t]
        BY <1>4
      <4>3. CASE req[v].op \in Creations
        <5>1. req[v].id \in Zones => zone'[req[v].id] = zone[req[v].id]
          BY <1>5, <4>1, <4>3
        <5>2. QED BY <1>7, <1>11, <3>1, <4>1, <4>2, <4>3, <5>1, UnheardSame DEF Answers
      <4>4. CASE req[v].op \notin Creations
        BY <3>1, <4>4 DEF Unheard, Creations
      <4>5. QED BY <4>3, <4>4
    <3>5. QED BY <3>2, <3>3, <3>4 DEF Answers
  <2>3. QED BY <2>1, <2>2
<1>18. Answers(w)'
  BY <1>9, NoAnswer
<1>19. QED
  BY <1>12, <1>13, <1>15, <1>16, <1>17, <1>18, ExplainedAgain DEF Explains

\* Tables are gone for good: whoever brings one of them will be followed by this answer.
LEMMA TablesGone ==
  ASSUME Heard, Explained, NEW w \in Workers, ServedFor(w), ~Done(w), Done(w)', Taken(w)',
         NEW i, i = req[w].id, req'[w].id = i, req'[w].data = req[w].data,
         NEW gone, gone \subseteq LiveTables, zone' = zone,
         \A t \in Tables : IF t \in gone THEN table'[t].life = "removed" ELSE table'[t] = table[t],
         \/ req[w].op = "deleteTable" /\ gone = {i}
         \/ req[w].op = "deleteZone" /\ \A t \in gone : table[t].zone = i
  PROVE  Explained'
<1> SUFFICES ASSUME Clean' PROVE Explained'
  BY DEF Explained
<1>1. Clean /\ Basis' = Basis /\ shown' = shown /\ deleting' = deleting /\ req'[w].op = req[w].op
  BY OthersHeld DEF ServedFor
<1>2. AllHeld
  BY OwnHeld
<1>3. PICK l : l = Basis'
  OBVIOUS
<1>4. Explains(l) /\ \A v \in Workers : Answers(v)
  BY <1>1, <1>3, SoFar
<1>5. \A t \in Tables \ gone : /\ (t \in LiveTables)' <=> t \in LiveTables
                               /\ (t \in ListedTables)' <=> t \in ListedTables
                               /\ table'[t] = table[t]
  BY DEF ListedTables, LiveTables, ListedZones, LiveZones
<1>6. \A t \in gone : (t \notin LiveTables)' /\ (t \notin ListedTables)' /\ t \in Tables
  BY DEF ListedTables, LiveTables
<1>7. Mine(w)' /\ Pending({req[w].op}, i)'
  <2>1. req'[w].op \in {req[w].op}
    BY <1>1
  <2>2. PICK op : op = req[w].op
    OBVIOUS
  <2>3. Pending({op}, i)'
    BY <2>1, <2>2 DEF Pending
  <2>4. QED BY <2>2, <2>3 DEF Pending, Taken
<1>8. ASSUME NEW z \in Zones
      PROVE  ZoneListed(l, z)'
  BY <1>2, <1>4, ZoneListedSame DEF Explains
<1>9. ASSUME NEW t \in Tables
      PROVE  TableListed(l, t)'
  <2>1. CASE t \in gone
    <3>1. t \in LiveTables /\ TableListed(l, t)
      BY <1>4, <2>1 DEF Explains
    <3>2. t \in ShownTables(l) => l.tables[t].zone = table[t].zone
      BY <3>1 DEF TableListed
    <3>3. CASE req[w].op = "deleteTable" /\ gone = {i}
      <4>1. Pending({"deleteTable"}, t)'
        BY <1>1, <2>1, <3>3 DEF Pending
      <4>2. QED BY <1>6, <2>1, <4>1 DEF TableListed
    <3>4. CASE req[w].op = "deleteZone" /\ \A s \in gone : table[s].zone = i
      <4>1. Pending({"deleteZone"}, i)'
        BY <1>1, <3>4 DEF Pending
      <4>2. (t \in ShownTables(l))' <=> t \in ShownTables(l)
        BY DEF ShownTables
      <4>3. t \in ShownTables(l) => Pending({"deleteZone"}, l.tables[t].zone)'
        BY <2>1, <3>2, <3>4, <4>1 DEF Pending
      <4>4. QED BY <1>6, <2>1, <4>2, <4>3 DEF TableListed
    <3>5. QED BY <3>3, <3>4
  <2>2. CASE t \notin gone
    BY <1>2, <1>4, <1>5, <2>2, TableListedSame DEF Explains
  <2>3. QED BY <2>1, <2>2
<1>10. ASSUME NEW v \in Workers \ {w}
       PROVE  Answers(v)'
  <2>1. CASE ~Done(v)
    <3>1. ~Done(v)'
      BY <2>1, OthersHeld
    <3>2. QED BY <3>1, NoAnswer
  <2>2. CASE Done(v)
    <3>1. Answers(v) /\ req'[v] = req[v] /\ (Done(v)' => Done(v))
      BY <1>4, OthersHeld
    <3>2. TableAnswer(v)'
      <4>1. CASE req[v].id \in gone
        <5>1. (req[v].id \notin LiveTables)'
          BY <1>6, <3>1, <4>1
        <5>2. v \in before'[w]
          BY <2>2 DEF ServedFor, Done
        <5>3. ASSUME req[v].op \in {"createTable"} \cup Writes
              PROVE  req[v].row.zone = table[req[v].id].zone
          BY <2>2, <3>1, <4>1, <5>3 DEF Answers, TableAnswer
        <5>4. ASSUME req[v].op \in {"createTable"} \cup Writes
              PROVE  \/ req'[w].op = "deleteTable" /\ req'[w].id = req'[v].id
                     \/ req'[w].op = "deleteZone" /\ req'[w].id = req'[v].row.zone
          BY <1>1, <3>1, <4>1, <5>3, <5>4
        <5>5. QED BY <3>1, <5>1, <5>2, <5>4 DEF TableAnswer
      <4>2. CASE req[v].id \notin gone
        BY <1>2, <1>5, <3>1, <4>2, TableAnswerSame DEF Answers
      <4>3. QED BY <4>1, <4>2
    <3>3. ZoneAnswer(v)'
      BY <1>2, <3>1, ZoneAnswerSame DEF Answers
    <3>4. Unheard(v)'
      <4>1. ASSUME req[v].op \in Creations
            PROVE  deleting' # req[v].id /\ Unasked(v)'
        BY <2>2, <3>1, <4>1, UnaskedServed DEF Answers
      <4>2. \A t \in Tables :
              table'[t].life = "live" /\ table'[t].zone = req[v].id =>
                table[t].life = "live" /\ table[t].zone = req[v].id
        BY <1>6
      <4>3. CASE req[v].op \in Creations
        BY <1>1, <1>2, <3>1, <4>1, <4>2, <4>3, UnheardSame DEF Answers
      <4>4. CASE req[v].op \notin Creations
        BY <3>1, <4>4 DEF Unheard, Creations
      <4>5. QED BY <4>3, <4>4
    <3>5. QED BY <3>2, <3>3, <3>4 DEF Answers
  <2>3. QED BY <2>1, <2>2
<1>11. Answers(w)'
  BY <1>1 DEF Answers, ZoneAnswer, TableAnswer, Unheard, Writes, Creations
<1>12. QED
  BY <1>3, <1>4, <1>8, <1>9, <1>10, <1>11, ExplainedAgain DEF Explains

\* A table is removed.
LEMMA RemoveTableExplained ==
  ASSUME RoomInv, RoomTypes, Heard, Explained, NEW w \in Workers, ServedFor(w), Remove(w),
         req[w].op = "deleteTable", Row(w).life = "live"
  PROVE  Explained'
<1>1. /\ At(w, "write") /\ Under(w) /\ Head(req[w].todo) = "write" /\ RequestsShape
      /\ req[w].op \in ZoneOps \cup TableOps
      /\ WellSent(req[w].op, req[w].id, req[w].data)
  BY AtIs DEF Remove, At, RoomInv
<1>2. PICK i : i = req[w].id
  OBVIOUS
<1>3. i \in Tables /\ i \in LiveTables
  BY <1>1, <1>2, RowIs DEF TableOps, LiveTables
<1>4. table' = [table EXCEPT ![i] = Removed] /\ zone' = zone /\ Finish(w, i, Removed)
  BY <1>2 DEF Remove
<1>5. req'[w].id = i /\ req'[w].data = req[w].data /\ req'[w].result = "done" /\ ~Done(w)
  BY <1>1, <1>4 DEF Finish, RequestsShape, Done, Under
<1>6. Done(w)' /\ Taken(w)'
  BY <1>5, OthersHeld DEF ServedFor, Done, Taken, Took
<1>7. PICK gone : gone = {i}
  OBVIOUS
<1>8. \A t \in Tables : IF t \in gone THEN table'[t].life = "removed" ELSE table'[t] = table[t]
  BY <1>3, <1>4, <1>7 DEF RoomTypes, Removed
<1>9. gone \subseteq LiveTables /\ req[w].op = "deleteTable" /\ gone = {i}
  BY <1>3, <1>7
<1>10. QED BY <1>2, <1>4, <1>5, <1>6, <1>8, <1>9, TablesGone

\* The tables follow their zone.
LEMMA RemoveTablesExplained ==
  ASSUME RoomInv, RoomTypes, Heard, Explained, NEW w \in Workers, ServedFor(w), RemoveTables(w)
  PROVE  Explained'
<1>1. /\ At(w, "tables") /\ Under(w) /\ Head(req[w].todo) = "tables" /\ RequestsShape
      /\ req[w].op \in ZoneOps \cup TableOps /\ req[w].todo \in Left(req[w].op)
  BY AtIs DEF RemoveTables, At, RoomInv
<1>2. req[w].op = "deleteZone"
  BY <1>1, Ahead
<1>3. PICK i : i = req[w].id
  OBVIOUS
<1>4. PICK gone : gone = OfZone(i)
  OBVIOUS
<1>5. /\ table' = [t \in Tables |-> IF t \in gone THEN Removed ELSE table[t]] /\ zone' = zone
      /\ Finish(w, i, Removed)
  BY <1>3, <1>4 DEF RemoveTables
<1>6. gone \subseteq LiveTables /\ \A t \in gone : table[t].zone = i
  BY <1>4 DEF OfZone
<1>7. req'[w].id = i /\ req'[w].data = req[w].data /\ req'[w].result = "done" /\ ~Done(w)
  BY <1>1, <1>5 DEF Finish, RequestsShape, Done, Under
<1>8. Done(w)' /\ Taken(w)'
  BY <1>7, OthersHeld DEF ServedFor, Done, Taken, Took
<1>9. \A t \in Tables : IF t \in gone THEN table'[t].life = "removed" ELSE table'[t] = table[t]
  BY <1>5 DEF Removed
<1>10. QED BY <1>2, <1>3, <1>5, <1>6, <1>7, <1>8, <1>9, TablesGone

\* A request of this application is served: whatever it changed is explained.
LEMMA ServedExplained ==
  ASSUME RoomInv, RoomTypes, Heard, Explained, NEW w \in Workers, Mine(w), Served(w)
  PROVE  Explained'
<1>1. RequestsShape /\ ServedFor(w) /\ ServeRoom(w)
  BY ServedForIs DEF RoomInv, Served
<1>2. CASE Find(w) \/ RequireZone(w) \/ CheckClash(w)
  <2>1. ~Took(w) /\ ~Took(w)'
    BY <1>2, ChecksTakeNothing
  <2>2. UNCHANGED <<zone, table>> /\ req'[w].id = req[w].id /\ req'[w].data = req[w].data
    BY <1>1, <1>2 DEF Find, RequireZone, CheckClash, Refuse, Next1, RequestsShape
  <2>3. QED BY <1>1, <2>1, <2>2, QuietlyServed
<1>3. CASE (Update(w) \/ Remove(w)) /\ Row(w).life # "live"
  <2>1. At(w, "write") /\ Refuse(w) /\ UNCHANGED <<zone, table>>
    BY <1>3 DEF Update, Remove
  <2>2. ~Took(w) /\ ~Took(w)'
    BY <1>1, <2>1, RefusedTakesNothing DEF At, Took, Under
  <2>3. req'[w].id = req[w].id /\ req'[w].data = req[w].data
    BY <1>1, <2>1 DEF Refuse, RequestsShape
  <2>4. QED BY <1>1, <2>1, <2>2, <2>3, QuietlyServed
<1>4. CASE Create(w)
  BY <1>1, <1>4, CreateZoneExplained, CreateTableExplained DEF Create
<1>5. CASE Update(w) /\ Row(w).life = "live"
  <2>1. req[w].op \in {"updateZone", "updateTable"}
    BY <1>5 DEF Update, Heard, PageAsks
  <2>2. QED BY <1>1, <1>5, <2>1, RenameExplained, ChangeTableExplained
<1>6. CASE Remove(w) /\ Row(w).life = "live"
  <2>1. req[w].op \in {"deleteZone", "deleteTable"}
    BY <1>6 DEF Remove
  <2>2. QED BY <1>1, <1>6, <2>1, RemoveZoneExplained, RemoveTableExplained
<1>7. QED
  BY <1>1, <1>2, <1>3, <1>4, <1>5, <1>6, RereadExplained, RemoveTablesExplained DEF ServeRoom

\* A request of somebody else goes on: only what it leaves alone is explained.
LEMMA OtherExplained ==
  ASSUME Explained, NEW w \in Workers, ~Mine(w), OthersStay(w), before' = before,
         \A v \in Workers : Mine(v)' <=> Mine(v), UNCHANGED <<shown, deleting>>,
         Clean' => Clean /\ UNCHANGED <<zone, table>>,
         Basis' = Basis
  PROVE  Explained'
<1> SUFFICES ASSUME Clean' PROVE Explained'
  BY DEF Explained
<1>1. \A v \in Workers : Mine(v)' <=> Mine(v)
  OBVIOUS
<1>2. \A v \in Workers : Mine(v) => req'[v] = req[v] /\ v # w
  BY DEF OthersStay
<1>3. \A v \in Workers : Mine(v) => (Took(v)' <=> Took(v))
  BY <1>2 DEF Took, Under
<1>4. \A v \in Workers : (Taken(v)' <=> Taken(v)) /\ (Done(v)' <=> Done(v))
  BY <1>1, <1>2, <1>3 DEF Taken, Done
<1>5. AllHeld
  <2>1. ASSUME NEW v \in Workers PROVE Held(v)
    BY <1>2, <1>4 DEF Held, Taken, Done
  <2>2. QED BY <2>1 DEF AllHeld
<1>6. ASSUME NEW v \in Workers
      PROVE  /\ Done(v)' => Done(v)
             /\ Done(v) /\ req[v].op \in Creations /\ Unheard(v) => deleting' # req[v].id /\ Unasked(v)'
  <2>1. ASSUME Done(v), req[v].op \in Creations, Unheard(v)
        PROVE  deleting' # req[v].id /\ Unasked(v)'
    <3>1. deleting # req[v].id /\ Unasked(v)
      BY <2>1 DEF Unheard
    <3>2. req'[v].id = req[v].id
      BY <1>2, <2>1 DEF Done
    <3>3. \A u \in Workers \ {v} : Mine(u)' => Mine(u) /\ req'[u].id = req[u].id /\ req'[u].data = req[u].data
      BY <1>1, <1>2
    <3>4. QED BY <3>1, <3>2, <3>3, UnaskedSame
  <2>2. QED BY <1>4, <2>1
<1>7. QED
  BY <1>5, <1>6, ExplainedSame

-----------------------------------------------------------------------------
(* What an answer makes of the list *)

\* A row is taken out, a zone with its tables.
LEMMA WithoutIs ==
  ASSUME NEW l, ListTyped(l), l.again = {}, NEW i \in Zones \cup Tables
  PROVE  /\ Without(l, i).again = {}
         /\ DOMAIN Without(l, i) = {"zones", "tables", "again"}
         /\ DOMAIN Without(l, i).zones = Zones /\ DOMAIN Without(l, i).tables = Tables
         /\ \A z \in Zones : Without(l, i).zones[z] = IF z = i THEN NotShown ELSE l.zones[z]
         /\ \A t \in Tables : Without(l, i).tables[t] =
              IF t = i \/ (t \in ShownTables(l) /\ l.tables[t].zone = i) THEN NoRow ELSE l.tables[t]
         /\ i \in Tables => \A t \in ShownTables(l) : l.tables[t].zone # i
<1> DEFINE gone == {i} \cup {t \in ShownTables(l) : l.tables[t].zone = i}
           m == Without(l, i)
<1>1. m = [zones  |-> [z \in Zones |-> IF z \in gone THEN NotShown ELSE l.zones[z]],
           tables |-> [t \in Tables |-> IF t \in gone THEN NoRow ELSE l.tables[t]],
           again  |-> l.again \ gone]
  BY DEF Without
<1>2. \A z \in Zones : z \in gone <=> z = i
  BY IdsAssumption DEF ShownTables
<1>3. i \in Tables => \A t \in ShownTables(l) : l.tables[t].zone # i
  BY IdsAssumption DEF ListTyped, ShownZones
<1>4. \A t \in Tables : t \in gone <=> t = i \/ (t \in ShownTables(l) /\ l.tables[t].zone = i)
  OBVIOUS
<1> HIDE DEF gone, m
<1>5. /\ m.again = {}
      /\ DOMAIN m = {"zones", "tables", "again"}
      /\ DOMAIN m.zones = Zones /\ DOMAIN m.tables = Tables
      /\ \A z \in Zones : m.zones[z] = IF z \in gone THEN NotShown ELSE l.zones[z]
      /\ \A t \in Tables : m.tables[t] = IF t \in gone THEN NoRow ELSE l.tables[t]
  BY <1>1
<1>6. QED BY <1>2, <1>3, <1>4, <1>5 DEF m

\* What is where, once an answer was put into the list.
ZonesPut(l, m, q) ==
  \A z \in Zones :
    m.zones[z] = IF z # q.id THEN l.zones[z]
                 ELSE IF q.op = "deleteZone" THEN NotShown
                 ELSE IF q.op = "createZone" \/ (q.op = "updateZone" /\ z \in ShownZones(l))
                   THEN q.row.name ELSE l.zones[z]

TablesPut(l, m, q) ==
  \A t \in Tables :
    m.tables[t] = IF t = q.id /\ q.op \in {"createTable", "updateTable"} /\ q.row.zone \in ShownZones(l)
                    THEN q.row
                  ELSE IF \/ t = q.id /\ q.op \in {"updateTable", "deleteTable"}
                          \/ q.op = "deleteZone" /\ t \in ShownTables(l) /\ l.tables[t].zone = q.id
                    THEN NoRow ELSE l.tables[t]

PageOps == {"createZone", "updateZone", "deleteZone", "createTable", "updateTable", "deleteTable"}

\* That is what Patched does.
LEMMA PatchedIs ==
  ASSUME NEW l, ListTyped(l), l.again = {}, NEW q, q.op \in PageOps, ResultTyped(q.op, q.id, q.row),
         q.op \in Creations => q.id \notin ShownIn(l)
  PROVE  /\ Patched(l, q).again = {}
         /\ ZonesPut(l, Patched(l, q), q) /\ TablesPut(l, Patched(l, q), q)
<1>1. CASE q.op = "createZone"
  <2>1. /\ q.id \in Zones /\ q.id \notin ShownZones(l) /\ q.id \notin Tables
        /\ Patched(l, q) = WithZone(l, q.id, q.row)
    BY <1>1, IdsAssumption DEF ResultTyped, ZoneOps, Creations, ShownIn, Patched
  <2>2. /\ WithZone(l, q.id, q.row).zones = [l.zones EXCEPT ![q.id] = q.row.name]
        /\ WithZone(l, q.id, q.row).tables = l.tables /\ WithZone(l, q.id, q.row).again = {}
    BY <2>1 DEF WithZone, ListTyped
  <2>3. QED BY <1>1, <2>1, <2>2 DEF ZonesPut, TablesPut, ListTyped
<1>2. CASE q.op = "updateZone"
  <2>1. q.id \in Zones /\ q.id \notin Tables /\ Patched(l, q) = RenameZoneIn(l, q.id, q.row)
    BY <1>2, IdsAssumption DEF ResultTyped, ZoneOps, Patched
  <2>2. CASE q.id \in ShownZones(l)
    <3>1. /\ RenameZoneIn(l, q.id, q.row).zones = [l.zones EXCEPT ![q.id] = q.row.name]
          /\ RenameZoneIn(l, q.id, q.row).tables = l.tables /\ RenameZoneIn(l, q.id, q.row).again = {}
      BY <2>2 DEF RenameZoneIn, ListTyped
    <3>2. QED BY <1>2, <2>1, <2>2, <3>1 DEF ZonesPut, TablesPut, ListTyped
  <2>3. CASE q.id \notin ShownZones(l)
    BY <1>2, <2>1, <2>3 DEF ZonesPut, TablesPut, RenameZoneIn
  <2>4. QED BY <2>2, <2>3
<1>3. CASE q.op = "createTable"
  <2>1. /\ q.id \in Tables /\ q.id \notin Zones /\ q.id \notin ShownTables(l)
        /\ Patched(l, q) = WithTable(l, q.id, q.row)
    BY <1>3, IdsAssumption DEF ResultTyped, TableOps, ZoneOps, Creations, ShownIn, Patched
  <2>2. CASE q.row.zone \in ShownZones(l)
    <3>1. /\ WithTable(l, q.id, q.row).tables = [l.tables EXCEPT ![q.id] = q.row]
          /\ WithTable(l, q.id, q.row).zones = l.zones /\ WithTable(l, q.id, q.row).again = {}
      BY <2>1, <2>2 DEF WithTable, ListTyped
    <3>2. QED BY <1>3, <2>1, <2>2, <3>1 DEF ZonesPut, TablesPut, ListTyped
  <2>3. CASE q.row.zone \notin ShownZones(l)
    BY <1>3, <2>1, <2>3 DEF ZonesPut, TablesPut, WithTable
  <2>4. QED BY <2>2, <2>3
<1>4. CASE q.op = "updateTable"
  <2>1. /\ q.id \in Tables /\ q.id \notin Zones
        /\ Patched(l, q) = WithTable(Without(l, q.id), q.id, q.row)
    BY <1>4, IdsAssumption DEF ResultTyped, TableOps, ZoneOps, Patched, ReplaceTable
  <2>2. PICK k : k = Without(l, q.id)
    OBVIOUS
  <2>3. /\ k.again = {} /\ DOMAIN k = {"zones", "tables", "again"}
        /\ DOMAIN k.zones = Zones /\ DOMAIN k.tables = Tables
        /\ \A z \in Zones : k.zones[z] = l.zones[z]
        /\ \A t \in Tables : k.tables[t] = IF t = q.id THEN NoRow ELSE l.tables[t]
    BY <2>1, <2>2, WithoutIs
  <2>4. ShownZones(k) = ShownZones(l) /\ q.id \notin ShownTables(k)
    BY <2>3 DEF ShownZones, ShownTables
  <2>5. CASE q.row.zone \in ShownZones(l)
    <3>1. /\ WithTable(k, q.id, q.row).tables = [k.tables EXCEPT ![q.id] = q.row]
          /\ WithTable(k, q.id, q.row).zones = k.zones /\ WithTable(k, q.id, q.row).again = {}
      BY <2>3, <2>4, <2>5 DEF WithTable
    <3>2. QED BY <1>4, <2>1, <2>2, <2>3, <2>5, <3>1 DEF ZonesPut, TablesPut
  <2>6. CASE q.row.zone \notin ShownZones(l)
    <3>1. WithTable(k, q.id, q.row) = k
      BY <2>4, <2>6 DEF WithTable
    <3>2. QED BY <1>4, <2>1, <2>2, <2>3, <2>6, <3>1 DEF ZonesPut, TablesPut
  <2>7. QED BY <2>5, <2>6
<1>5. CASE q.op \in {"deleteZone", "deleteTable"}
  <2>1. /\ q.op = "deleteZone" => q.id \in Zones /\ q.id \notin Tables
        /\ q.op = "deleteTable" => q.id \in Tables /\ q.id \notin Zones
        /\ Patched(l, q) = Without(l, q.id)
    BY <1>5, IdsAssumption DEF ResultTyped, TableOps, ZoneOps, Patched
  <2>2. PICK k : k = Without(l, q.id)
    OBVIOUS
  <2>3. /\ k.again = {}
        /\ \A z \in Zones : k.zones[z] = IF z = q.id THEN NotShown ELSE l.zones[z]
        /\ \A t \in Tables : k.tables[t] =
              IF t = q.id \/ (t \in ShownTables(l) /\ l.tables[t].zone = q.id) THEN NoRow ELSE l.tables[t]
        /\ q.id \in Tables => \A t \in ShownTables(l) : l.tables[t].zone # q.id
    BY <1>5, <2>1, <2>2, WithoutIs
  <2>4. ZonesPut(l, k, q)
    BY <1>5, <2>1, <2>3 DEF ZonesPut
  <2>5. TablesPut(l, k, q)
    BY <1>5, <2>1, <2>3 DEF TablesPut
  <2>6. QED BY <2>1, <2>2, <2>3, <2>4, <2>5
<1>6. QED BY <1>1, <1>2, <1>3, <1>4, <1>5 DEF PageOps

\* Nothing is on the list that was not there before, but for the row of the answer.
LEMMA PatchedShows ==
  ASSUME NEW l, NEW m, NEW q, ZonesPut(l, m, q), TablesPut(l, m, q)
  PROVE  ShownIn(m) \subseteq ShownIn(l) \cup {q.id}
<1>1. ASSUME NEW z \in ShownZones(m), z # q.id
      PROVE  z \in ShownZones(l)
  BY <1>1 DEF ShownZones, ZonesPut
<1>2. ASSUME NEW t \in ShownTables(m), t # q.id
      PROVE  t \in ShownTables(l)
  BY <1>2 DEF ShownTables, TablesPut
<1>3. QED BY <1>1, <1>2 DEF ShownIn

\* A request is answered, and forgotten.
Gone(w) ==
  /\ UNCHANGED <<zone, table>> /\ ~Taken(w)' /\ ~Done(w)' /\ ~Mine(w)'
  /\ \A v \in Workers \ {w} :
       /\ req'[v] = req[v] /\ before'[v] = before[v] \ {w}
       /\ (Mine(v)' <=> Mine(v)) /\ (Taken(v)' <=> Taken(v)) /\ (Done(v)' <=> Done(v))

\* That is what every answer does.
LEMMA AnsweredGone ==
  ASSUME RequestsShape, AskedTyped, NEW w \in Workers, Answered(w)
  PROVE  Gone(w)
<1>1. /\ UNCHANGED <<zone, table>> /\ \A v \in Workers \ {w} : req'[v] = req[v]
      /\ asked'[w] = "nobody" /\ \A v \in Workers \ {w} : asked'[v] = asked[v]
      /\ \A v \in Workers \ {w} : before'[v] = before[v] \ {w}
  BY DEF Answered, Dismiss, RequestsShape, AskedTyped
<1>2. ~Mine(w)'
  BY <1>1 DEF Mine
<1>3. ~Taken(w)' /\ ~Done(w)'
  BY <1>2 DEF Taken, Done
<1>4. ASSUME NEW v \in Workers \ {w}
      PROVE  (Mine(v)' <=> Mine(v)) /\ (Taken(v)' <=> Taken(v)) /\ (Done(v)' <=> Done(v))
  <2>1. Mine(v)' <=> Mine(v)
    BY <1>1 DEF Mine
  <2>2. Took(v)' <=> Took(v)
    BY <1>1 DEF Took, Under
  <2>3. QED BY <1>1, <2>1, <2>2 DEF Taken, Done
<1>5. QED BY <1>1, <1>2, <1>3, <1>4 DEF Gone

\* What others have to tell, they still have.
LEMMA OthersPending ==
  ASSUME NEW w \in Workers, Gone(w), NEW ops, NEW i, Pending(ops, i),
         req[w].op \in ops => req[w].id # i
  PROVE  Pending(ops, i)'
<1>1. PICK v \in Workers : Taken(v) /\ req[v].op \in ops /\ req[v].id = i
  BY DEF Pending
<1>2. v \in Workers \ {w}
  BY <1>1
<1>3. Taken(v)' /\ req'[v] = req[v]
  BY <1>1, <1>2 DEF Gone
<1>4. QED BY <1>1, <1>3 DEF Pending

\* And those that come after the answer are among them.
LEMMA OverwrittenPending ==
  ASSUME NEW w \in Workers, Gone(w), NEW ops, NEW i, Overwritten(ops, i, w)
  PROVE  Pending(ops, i)'
<1>1. PICK v \in Workers : Taken(v) /\ req[v].op \in ops /\ req[v].id = i /\ v # w
  BY DEF Overwritten, Later
<1>2. Taken(v)' /\ req'[v] = req[v]
  BY <1>1 DEF Gone
<1>3. QED BY <1>1, <1>2 DEF Pending

\* The answers of others, when one comes that none of them precedes.
LEMMA OthersAnswer ==
  ASSUME NEW w \in Workers, Gone(w), Done(w), before[w] = {}, NEW u \in Workers, Answers(u),
         deleting' = deleting,
         Clean, ShownIn(shown') \subseteq ShownIn(shown) \cup {req[w].id},
         ShownIn(Basis') \subseteq ShownIn(Basis) \cup {req[w].id}
  PROVE  Answers(u)'
<1>1. CASE ~Done(u) \/ u = w
  <2>1. ~Done(u)'
    BY <1>1 DEF Gone
  <2>2. QED BY <2>1, NoAnswer
<1>2. CASE Done(u) /\ u # w
  <2>1. req'[u] = req[u] /\ UNCHANGED <<zone, table>>
    BY <1>2 DEF Gone
  <2>2. PICK i : i = req[u].id
    OBVIOUS
  <2>3. ASSUME NEW ops, Overwritten(ops, i, u)
        PROVE  Overwritten(ops, i, u)'
    <3>1. PICK v \in Workers : Taken(v) /\ req[v].op \in ops /\ req[v].id = i /\ Later(v, u)
      BY <2>3 DEF Overwritten
    <3>2. v # w
      BY <3>1 DEF Later, Done
    <3>3. Taken(v)' /\ req'[v] = req[v] /\ before'[v] = before[v] \ {w}
      BY <3>1, <3>2 DEF Gone
    <3>4. Later(v, u)'
      BY <1>2, <3>1, <3>3 DEF Later
    <3>5. QED BY <3>1, <3>3, <3>4 DEF Overwritten
  <2>4. ZoneAnswer(u)'
    <3>1. (i \in ListedZones)' <=> i \in ListedZones
      BY <2>1 DEF ListedZones, LiveZones
    <3>2. Overwritten({"updateZone"}, i, u) => Overwritten({"updateZone"}, i, u)'
      BY <2>3
    <3>3. QED BY <1>2, <2>1, <2>2, <3>1, <3>2 DEF Answers, ZoneAnswer, Overwritten
  <2>5. TableAnswer(u)'
    <3>1. (i \in LiveTables)' <=> i \in LiveTables
      BY <2>1 DEF LiveTables
    <3>2. Overwritten(Writes, i, u) => Overwritten(Writes, i, u)'
      BY <2>3
    <3>3. CASE i \in LiveTables
      BY <1>2, <2>1, <2>2, <3>1, <3>2, <3>3 DEF Answers, TableAnswer, Overwritten
    <3>4. CASE i \notin LiveTables /\ req[u].op \in {"createTable"} \cup Writes
      <4>1. PICK v \in Workers : /\ Done(v) /\ u \in before[v]
                                 /\ \/ req[v].op = "deleteTable" /\ req[v].id = i
                                    \/ req[v].op = "deleteZone" /\ req[v].id = req[u].row.zone
        BY <1>2, <2>2, <3>4 DEF Answers, TableAnswer
      <4>2. v # w
        BY <4>1
      <4>3. Done(v)' /\ req'[v] = req[v] /\ u \in before'[v]
        BY <1>2, <4>1, <4>2 DEF Gone
      <4>4. QED BY <2>1, <2>2, <3>1, <3>4, <4>1, <4>3 DEF TableAnswer
    <3>5. QED BY <2>1, <2>2, <3>1, <3>3, <3>4 DEF TableAnswer
  <2>6. Unheard(u)'
    <3>1. CASE req[u].op \notin Creations
      BY <2>1, <3>1 DEF Unheard, Creations
    <3>2. CASE req[u].op \in Creations
      <4>1. /\ i \notin ShownIn(shown) /\ i \notin ShownIn(Basis) /\ deleting # i /\ Unasked(u)
            /\ req[u].op = "createZone" =>
                 /\ i \in ListedZones /\ zone[i] = req[u].row
                 /\ \A t \in LiveTables : table[t].zone # i
        BY <1>2, <2>2, <3>2 DEF Answers, Unheard
      <4>2. req[w].id # i
        BY <1>2, <2>2, <4>1 DEF Unasked, Done
      <4>3. i \notin ShownIn(shown') /\ i \notin ShownIn(Basis')
        BY <4>1, <4>2
      <4>4. (req[u].id \notin ShownIn(shown) /\ req[u].id \notin ShownIn(Basis))'
        BY <2>1, <2>2, <4>3 DEF ShownIn, ShownZones, ShownTables
      <4>5. Unasked(u)'
        BY <2>1, <2>2, <4>1 DEF Unasked, Gone
      <4>6. req'[u].op = "createZone" =>
                 /\ (i \in ListedZones)' /\ zone'[i] = req'[u].row
                 /\ (\A t \in LiveTables : table[t].zone # i)'
        BY <2>1, <4>1 DEF ListedZones, LiveZones, LiveTables
      <4>7. QED BY <2>1, <2>2, <4>1, <4>4, <4>5, <4>6 DEF Unheard
    <3>3. QED BY <3>1, <3>2
  <2>7. QED BY <2>4, <2>5, <2>6 DEF Answers
<1>3. QED BY <1>1, <1>2

\* The zones of the list, once the answer was put into it.
LEMMA ZoneAnswered ==
  ASSUME RemovedStay, NEW w \in Workers, Gone(w), Done(w), Answers(w), req[w].op \in PageOps,
         ResultTyped(req[w].op, req[w].id, req[w].row),
         NEW l, Explains(l), l = shown, NEW m, ZonesPut(l, m, req[w]), NEW z \in Zones
  PROVE  ZoneListed(m, z)'
<1> DEFINE q == req[w]
<1>1. UNCHANGED <<zone, table>> /\ Taken(w) /\ ZoneListed(l, z)
  BY DEF Gone, Done, Taken, Took, Explains
<1>2. (z \in ListedZones)' <=> z \in ListedZones
  BY <1>1 DEF ListedZones, LiveZones
<1>3. /\ (z \in ShownZones(m))' <=> m.zones[z] # NotShown
      /\ z \in ShownZones(l) <=> l.zones[z] # NotShown
  BY DEF ShownZones
<1>4. q.op \in {"createZone", "updateZone"} => q.row.name # NotShown
  BY DEF ResultTyped, LiveZoneRow, NotShown
<1>5. CASE z # q.id
  <2>1. m.zones[z] = l.zones[z]
    BY <1>5 DEF ZonesPut
  <2>2. \A ops : Pending(ops, z) => Pending(ops, z)'
    BY <1>5, OthersPending
  <2>3. QED BY <1>1, <1>2, <1>3, <2>1, <2>2 DEF ZoneListed
<1>6. CASE z = q.id
  <2>1. CASE q.op = "createZone"
    <3>1. m.zones[z] = q.row.name
      BY <1>6, <2>1 DEF ZonesPut
    <3>2. z \in ListedZones /\ zone[z] = q.row
      BY <1>6, <2>1 DEF Answers, Unheard, Creations
    <3>3. QED BY <1>1, <1>2, <1>3, <1>4, <2>1, <3>1, <3>2 DEF ZoneListed
  <2>2. CASE q.op = "updateZone"
    <3>1. m.zones[z] = IF z \in ShownZones(l) THEN q.row.name ELSE l.zones[z]
      BY <1>6, <2>2 DEF ZonesPut
    <3>2. /\ Pending({"deleteZone"}, z) => Pending({"deleteZone"}, z)'
          /\ Pending({"createZone"}, z) => Pending({"createZone"}, z)'
      BY <2>2, OthersPending
    <3>3. z \in ListedZones => q.row.name = zone[z].name \/ Pending({"updateZone"}, z)'
      BY <1>6, <2>2, OverwrittenPending DEF Answers, ZoneAnswer
    <3>4. QED BY <1>1, <1>2, <1>3, <1>4, <2>2, <3>1, <3>2, <3>3 DEF ZoneListed
  <2>3. CASE q.op = "deleteZone"
    <3>1. m.zones[z] = NotShown
      BY <1>6, <2>3 DEF ZonesPut
    <3>2. z \notin ListedZones
      BY <1>1, <1>6, <2>3 DEF RemovedStay, Removed, ListedZones, LiveZones
    <3>3. QED BY <1>2, <1>3, <3>1, <3>2 DEF ZoneListed
  <2>4. CASE q.op \in {"createTable", "updateTable", "deleteTable"}
    BY <1>6, <2>4, IdsAssumption DEF ResultTyped, TableOps
  <2>5. QED BY <2>1, <2>2, <2>3, <2>4 DEF PageOps
<1>7. QED BY <1>5, <1>6

\* A zone that a table is in was heard of.
LEMMA ZoneHeardOf ==
  ASSUME RoomInv, RoomTypes, Clean, \A v \in Workers : Answers(v),
         NEW l, Explains(l), NEW t \in ListedTables
  PROVE  table[t].zone \in ShownZones(l)
<1>1. t \in LiveTables /\ table[t].zone \in ListedZones
  BY DEF ListedTables
<1>2. PICK z : z = table[t].zone
  OBVIOUS
<1>3. z \in Zones
  BY <1>1, <1>2 DEF ListedZones, LiveZones
<1>4. SUFFICES ASSUME z \notin ShownZones(l)
               PROVE  FALSE
  BY <1>2
<1>5. Pending({"createZone"}, z)
  BY <1>1, <1>2, <1>3, <1>4 DEF Explains, ZoneListed
<1>6. PICK v \in Workers : Taken(v) /\ req[v].op = "createZone" /\ req[v].id = z
  BY <1>5 DEF Pending
<1>7. Done(v)
  BY <1>6, TookIs DEF Taken, Done, Creations
<1>8. \A u \in LiveTables : table[u].zone # z
  BY <1>6, <1>7 DEF Answers, Unheard, Creations
<1>9. QED BY <1>1, <1>2, <1>8

\* The tables of the list.
LEMMA TableAnswered ==
  ASSUME RoomInv, RoomTypes, RemovedStay, Clean, \A v \in Workers : Answers(v),
         NEW w \in Workers, Gone(w), Done(w), req[w].op \in PageOps,
         ResultTyped(req[w].op, req[w].id, req[w].row),
         NEW l, Explains(l), l = shown, NEW m, TablesPut(l, m, req[w]), NEW t \in Tables
  PROVE  TableListed(m, t)'
<1> DEFINE q == req[w]
<1>1. UNCHANGED <<zone, table>> /\ Taken(w) /\ TableListed(l, t)
  BY DEF Gone, Done, Taken, Took, Explains
<1>2. /\ (t \in ListedTables)' <=> t \in ListedTables
      /\ (t \in LiveTables)' <=> t \in LiveTables
      /\ t \in ListedTables => t \in LiveTables /\ table[t].zone \in ShownZones(l)
  BY <1>1, ZoneHeardOf DEF ListedTables, LiveTables, ListedZones, LiveZones
<1>3. /\ (t \in ShownTables(m))' <=> m.tables[t] # NoRow
      /\ t \in ShownTables(l) <=> l.tables[t] # NoRow
  BY DEF ShownTables
<1>4. CASE t = q.id /\ q.op \in {"createTable", "updateTable"}
  <2>1. t \in LiveTables =>
          /\ q.row.zone = table[t].zone
          /\ q.row = table[t] \/ Pending(Writes, t)'
    BY <1>4, OverwrittenPending DEF Answers, TableAnswer, Writes
  <2>2. CASE q.row.zone \in ShownZones(l)
    <3>1. m.tables[t] = q.row
      BY <1>4, <2>2 DEF TablesPut
    <3>2. q.row # NoRow
      BY <1>4 DEF ResultTyped, LiveTableRow, NoRow
    <3>3. PICK r : r = q.row
      OBVIOUS
    <3>4. \/ t \in ListedTables
          \/ Pending({"deleteTable"}, t)' \/ Pending({"deleteZone"}, r.zone)'
      <4>1. CASE t \notin LiveTables
        <5>1. PICK v \in Workers : /\ Done(v) /\ w \in before[v]
                                   /\ \/ req[v].op = "deleteTable" /\ req[v].id = t
                                      \/ req[v].op = "deleteZone" /\ req[v].id = r.zone
          BY <1>4, <3>3, <4>1 DEF Answers, TableAnswer, Writes
        <5>2. v # w
          BY <1>4, <5>1
        <5>3. Taken(v)' /\ req'[v] = req[v]
          BY <5>1, <5>2 DEF Gone, Done, Taken, Took
        <5>4. QED BY <5>1, <5>3 DEF Pending
      <4>2. CASE t \in LiveTables
        <5>1. r.zone \in Zones /\ ZoneListed(l, r.zone) /\ r.zone \in ShownZones(l)
          BY <2>2, <3>3 DEF ShownZones, Explains
        <5>2. r.zone \in ListedZones \/ Pending({"deleteZone"}, r.zone)
          BY <5>1 DEF ZoneListed
        <5>3. Pending({"deleteZone"}, r.zone) => Pending({"deleteZone"}, r.zone)'
          BY <1>4, OthersPending
        <5>4. QED BY <2>1, <3>3, <4>2, <5>2, <5>3 DEF ListedTables
      <4>3. QED BY <4>1, <4>2
    <3>5. r.zone = m.tables[t].zone
      BY <3>1, <3>3
    <3>6. t \in LiveTables => m.tables[t].zone = table[t].zone
      BY <2>1, <3>1
    <3>7. /\ t \in ListedTables \/ Pending({"deleteTable"}, t)' \/ Pending({"deleteZone"}, m.tables[t].zone)'
          /\ t \in LiveTables => m.tables[t] = table[t] \/ Pending(Writes, t)'
      BY <2>1, <3>1, <3>4, <3>5
    <3>8. QED BY <1>1, <1>2, <1>3, <3>1, <3>2, <3>6, <3>7 DEF TableListed
  <2>3. CASE q.row.zone \notin ShownZones(l)
    <3>1. t \notin ListedTables
      BY <1>2, <2>1, <2>3
    <3>2. CASE q.op = "updateTable"
      <4>1. m.tables[t] = NoRow
        BY <1>4, <2>3, <3>2 DEF TablesPut
      <4>2. QED BY <1>2, <1>3, <3>1, <4>1 DEF TableListed
    <3>3. CASE q.op = "createTable"
      <4>1. t \notin ShownTables(l)
        BY <1>4, <3>3 DEF Answers, Unheard, Creations, ShownIn
      <4>2. m.tables[t] = l.tables[t]
        BY <1>4, <2>3, <3>3 DEF TablesPut
      <4>3. QED BY <1>2, <1>3, <3>1, <4>1, <4>2 DEF TableListed
    <3>4. QED BY <1>4, <3>2, <3>3
  <2>4. QED BY <2>2, <2>3
<1>5. CASE \/ t = q.id /\ q.op = "deleteTable"
           \/ q.op = "deleteZone" /\ t \in ShownTables(l) /\ l.tables[t].zone = q.id
  <2>1. m.tables[t] = NoRow
    BY <1>5 DEF TablesPut
  <2>2. t \notin ListedTables
    <3>1. CASE t = q.id /\ q.op = "deleteTable"
      BY <1>1, <3>1 DEF RemovedStay, Removed, ListedTables, LiveTables
    <3>2. CASE q.op = "deleteZone" /\ t \in ShownTables(l) /\ l.tables[t].zone = q.id
      <4>1. q.id \notin ListedZones
        BY <1>1, <3>2 DEF RemovedStay, Removed, ListedZones, LiveZones
      <4>2. t \in LiveTables => table[t].zone = q.id
        BY <1>1, <3>2 DEF TableListed
      <4>3. QED BY <4>1, <4>2 DEF ListedTables
    <3>3. QED BY <1>5, <3>1, <3>2
  <2>3. QED BY <1>2, <1>3, <2>1, <2>2 DEF TableListed
<1>6. CASE /\ ~(t = q.id /\ q.op \in {"createTable", "updateTable", "deleteTable"})
           /\ ~(q.op = "deleteZone" /\ t \in ShownTables(l) /\ l.tables[t].zone = q.id)
  <2>1. m.tables[t] = l.tables[t]
    BY <1>6 DEF TablesPut
  <2>2. /\ Pending({"deleteTable"}, t) => Pending({"deleteTable"}, t)'
        /\ Pending({"createTable"}, t) => Pending({"createTable"}, t)'
    BY <1>6, OthersPending
  <2>3. PICK z : z = l.tables[t].zone
    OBVIOUS
  <2>4. t \in ShownTables(l) /\ Pending({"deleteZone"}, z) => Pending({"deleteZone"}, z)'
    BY <1>6, <2>3, OthersPending
  <2>5. Pending({"deleteZone"}, z)' => Pending({"deleteZone"}, m.tables[t].zone)'
    BY <2>1, <2>3
  <2>6. Pending(Writes, t) => Pending(Writes, t)'
    BY <1>6, OthersPending DEF Writes, PageOps
  <2>7. QED BY <1>1, <1>2, <1>3, <2>1, <2>2, <2>3, <2>4, <2>5, <2>6 DEF TableListed
<1>7. QED BY <1>4, <1>5, <1>6

\* The answer is put into the list: it explains what it was waited for.
LEMMA AnswerDoneExplained ==
  ASSUME RoomInv, RoomTypes, FloorTypes, RemovedStay, Heard, Explained, NEW w \in Workers, AnswerDone(w)
  PROVE  Explained'
<1> SUFFICES ASSUME Clean' PROVE Explained'
  BY DEF Explained
<1>1. /\ Mine(w) /\ req[w].result = "done" /\ Done(w) /\ Answered(w)
      /\ shown' = Patched(shown, req[w]) /\ deleting' = deleting
      /\ RequestsShape /\ AskedTyped /\ ListTyped(shown)
  BY DEF AnswerDone, Done, RoomInv, FloorTypes
<1>2. Clean /\ before[w] = {} /\ Basis = shown /\ Basis' = shown'
  <2>1. /\ ~foreign' /\ foreign' = foreign /\ crossed' = (crossed \/ before[w] # {})
        /\ fetch' = [fetch EXCEPT !.muddled = fetch.muddled \/ fetch.step = "arriving", !.failed = FALSE]
    BY DEF AnswerDone, Clean
  <2>2. DOMAIN fetch = {"step", "list", "muddled", "failed"}
    BY DEF FloorTypes, FetchTyped
  <2>3. /\ fetch'.step = fetch.step
        /\ fetch'.muddled = (fetch.muddled \/ fetch.step = "arriving")
    BY <2>1, <2>2
  <2>4. fetch.step # "arriving" /\ ~crossed'
    BY <2>3 DEF Clean
  <2>5. ~crossed /\ before[w] = {}
    BY <2>1, <2>4
  <2>6. Clean /\ Basis = shown /\ Basis' = shown'
    BY <2>1, <2>3, <2>4, <2>5 DEF Clean, Basis
  <2>7. QED BY <2>5, <2>6
<1>3. Gone(w)
  BY <1>1, AnsweredGone
<1>4. (\A k \in {Basis} : Explains(k)) /\ \A v \in Workers : Answers(v)
  BY <1>2 DEF Explained
<1>5. PICK l : l = shown
  OBVIOUS
<1>6. PICK m : m = Patched(l, req[w])
  OBVIOUS
<1>7. PICK q : q = req[w]
  OBVIOUS
<1>8. Explains(l) /\ ListTyped(l) /\ l.again = {}
  BY <1>1, <1>2, <1>4, <1>5 DEF Explains
<1>9. /\ q.op \in PageOps /\ ResultTyped(q.op, q.id, q.row)
      /\ q.op \in Creations => q.id \notin ShownIn(l)
  BY <1>1, <1>4, <1>5, <1>7 DEF Heard, PageAsks, PageOps, RoomTypes, RequestTyped, Answers, Unheard
<1>10. m.again = {} /\ ZonesPut(l, m, q) /\ TablesPut(l, m, q)
  BY <1>6, <1>7, <1>8, <1>9, PatchedIs
<1>11. ASSUME NEW z \in Zones
       PROVE  ZoneListed(m, z)'
  BY <1>1, <1>3, <1>4, <1>5, <1>7, <1>8, <1>9, <1>10, ZoneAnswered
<1>12. ASSUME NEW t \in Tables
       PROVE  TableListed(m, t)'
  BY <1>1, <1>2, <1>3, <1>4, <1>5, <1>7, <1>8, <1>9, <1>10, TableAnswered
<1>13. ASSUME NEW v \in Workers
       PROVE  Answers(v)'
  <2>1. ShownIn(m) \subseteq ShownIn(l) \cup {req[w].id}
    BY <1>7, <1>10, PatchedShows
  <2>2. /\ ShownIn(shown') \subseteq ShownIn(shown) \cup {req[w].id}
        /\ ShownIn(Basis') \subseteq ShownIn(Basis) \cup {req[w].id}
    BY <1>1, <1>2, <1>5, <1>6, <2>1
  <2>3. QED BY <1>1, <1>2, <1>3, <1>4, <2>2, OthersAnswer
<1>14. m = Basis'
  BY <1>1, <1>2, <1>5, <1>6
<1>15. QED
  BY <1>10, <1>11, <1>12, <1>13, <1>14, ExplainedAgain

\* A request that has changed nothing, or for somebody else, is over.
LEMMA QuietlyGone ==
  ASSUME Explained, NEW w \in Workers, Gone(w), ~Taken(w), Clean' => Clean, Basis' = Basis,
         UNCHANGED <<shown, deleting>>
  PROVE  Explained'
<1>1. ~Done(w) /\ ~Done(w)'
  BY DEF Done, Taken, Took, Gone
<1>2. AllHeld
  <2>1. ASSUME NEW v \in Workers, Taken(v)
        PROVE  Held(v)
    <3>1. v \in Workers \ {w}
      BY <2>1
    <3>2. Taken(v)' /\ req'[v] = req[v] /\ before'[v] = before[v] \ {w}
      BY <2>1, <3>1 DEF Gone
    <3>3. ASSUME NEW u \in Workers \ {v}, Done(u), Done(v) => u \in before[v], req[v].result = "done"
          PROVE  u \in before'[v]
      BY <1>1, <2>1, <3>2, <3>3 DEF Done, Taken
    <3>4. QED BY <3>2, <3>3 DEF Held, Done
  <2>2. QED BY <2>1 DEF AllHeld, Held
<1>3. ASSUME NEW v \in Workers
      PROVE  /\ Done(v)' => Done(v)
             /\ Done(v) /\ req[v].op \in Creations /\ Unheard(v) => deleting' # req[v].id /\ Unasked(v)'
  <2>1. Done(v)' => Done(v)
    BY <1>1 DEF Gone
  <2>2. ASSUME Done(v), Unheard(v), req[v].op \in Creations
        PROVE  deleting' # req[v].id /\ Unasked(v)'
    <3>1. v # w /\ Unasked(v) /\ deleting # req[v].id
      BY <1>1, <2>2 DEF Unheard
    <3>2. \A u \in Workers \ {v} : Mine(u)' => Mine(u) /\ req'[u].id = req[u].id /\ req'[u].data = req[u].data
      BY DEF Gone
    <3>3. req'[v].id = req[v].id
      BY <3>1 DEF Gone
    <3>4. QED BY <3>1, <3>2, <3>3, UnaskedSame
  <2>3. QED BY <2>1, <2>2
<1>4. UNCHANGED <<zone, table>>
  BY DEF Gone
<1>5. QED
  BY <1>2, <1>3, <1>4, ExplainedSame

\* The room and the requests are the same.
LEMMA StillExplained ==
  ASSUME Explained, UNCHANGED <<zone, table, req, before>>, \A w \in Workers : Mine(w)' <=> Mine(w),
         Clean' => Clean, Basis' = Basis, shown' = shown \/ shown' = Basis,
         \A w \in Workers : Done(w) /\ req[w].op \in Creations /\ Unheard(w) => deleting' # req[w].id
  PROVE  Explained'
<1>1. \A v \in Workers : (Taken(v)' <=> Taken(v)) /\ (Done(v)' <=> Done(v))
  BY DEF Taken, Done, Took, Under
<1>2. AllHeld
  <2>1. ASSUME NEW v \in Workers PROVE Held(v)
    BY <1>1 DEF Held, Taken, Done
  <2>2. QED BY <2>1 DEF AllHeld
<1>3. ASSUME NEW v \in Workers, Unheard(v), Done(v), req[v].op \in Creations
      PROVE  deleting' # req[v].id /\ Unasked(v)'
  <2>1. Unasked(v)
    BY <1>3 DEF Unheard
  <2>2. Unasked(v)'
    BY <2>1, UnaskedSame
  <2>3. QED BY <1>3, <2>2
<1>4. QED
  BY <1>1, <1>2, <1>3, ExplainedSame

\* The list is fetched: it is what is stored, whatever answers are still to come.
LEMMA FetchReadsExplained ==
  ASSUME RoomTypes, FloorTypes, FetchReads
  PROVE  Explained'
<1> SUFFICES ASSUME Clean' PROVE Explained'
  BY DEF Explained
<1>1. /\ UNCHANGED <<zone, table, req, asked>>
      /\ fetch'.step = "arriving" /\ fetch'.list = Listing
      /\ fetch'.muddled = \E w \in Mutations : Took(w)
  BY DEF FetchReads, FloorTypes, FetchTyped, roomVars
<1>2. \A w \in Workers : ~Taken(w) /\ ~Done(w)'
  BY <1>1 DEF Clean, Mutations, Taken, Done, Took, Mine
<1>3. PICK l : l = Listing
  OBVIOUS
<1>4. ListTyped(l) /\ l.again = {}
  BY <1>3, ListingTyped DEF Listing
<1>5. \A z \in Zones : l.zones[z] = IF z \in ListedZones THEN zone[z].name ELSE NotShown
  BY <1>3 DEF Listing
<1>6. \A t \in Tables : l.tables[t] = IF t \in ListedTables THEN table[t] ELSE NoRow
  BY <1>3 DEF Listing
<1>7. /\ \A z \in ListedZones : z \in Zones /\ zone[z].name # NotShown
      /\ \A t \in ListedTables : t \in LiveTables /\ table[t] # NoRow
  BY RowsTyped DEF ListedZones, LiveZones, LiveZoneRow, ListedTables, LiveTables, NoRow, NotShown
<1>8. ASSUME NEW z \in Zones
      PROVE  ZoneListed(l, z)'
  BY <1>1, <1>5, <1>7 DEF ZoneListed, ShownZones, ListedZones, LiveZones
<1>9. ASSUME NEW t \in Tables
      PROVE  TableListed(l, t)'
  BY <1>1, <1>6, <1>7 DEF TableListed, ShownTables, ListedTables, LiveTables, ListedZones, LiveZones
<1>10. l = Basis'
  BY <1>1, <1>3 DEF Basis
<1>11. \A w \in Workers : Answers(w)'
  BY <1>2, NoAnswer
<1>12. QED BY <1>4, <1>8, <1>9, <1>10, <1>11, ExplainedAgain

\* What was fetched is shown, and other fetches.
LEMMA FetchExplained ==
  ASSUME FloorTypes, Explained, FetchArrives \/ FetchFails \/ Retry
  PROVE  Explained'
<1>1. DOMAIN fetch = {"step", "list", "muddled", "failed"}
  BY DEF FloorTypes, FetchTyped
<1>2. CASE FetchArrives
  <2>1. /\ fetch.step = "arriving" /\ shown' = fetch.list /\ crossed' = fetch.muddled
        /\ fetch'.step = "idle" /\ foreign' = foreign
        /\ UNCHANGED <<zone, table, req, asked, before, deleting>>
    BY <1>1, <1>2 DEF FetchArrives, roomVars
  <2>2. Basis = fetch.list /\ Basis' = Basis /\ shown' = Basis
    BY <2>1 DEF Basis
  <2>3. Clean' => Clean
    BY <2>1 DEF Clean
  <2>4. \A w \in Workers : Mine(w)' <=> Mine(w)
    BY <2>1 DEF Mine
  <2>5. \A w \in Workers : Unheard(w) /\ Done(w) /\ req[w].op \in Creations => deleting' # req[w].id
    BY <2>1 DEF Unheard
  <2>6. QED BY <2>1, <2>2, <2>3, <2>4, <2>5, StillExplained
<1>3. CASE FetchFails \/ Retry
  <2>1. /\ fetch.step # "arriving" /\ fetch'.step # "arriving"
        /\ UNCHANGED <<zone, table, req, asked, before, shown, deleting, crossed, foreign>>
    BY <1>1, <1>3 DEF FetchFails, Retry, Fetching, roomVars
  <2>2. Basis' = Basis /\ (Clean' => Clean)
    BY <2>1 DEF Basis, Clean
  <2>3. \A w \in Workers : Mine(w)' <=> Mine(w)
    BY <2>1 DEF Mine
  <2>4. \A w \in Workers : Unheard(w) /\ Done(w) /\ req[w].op \in Creations => deleting' # req[w].id
    BY <2>1 DEF Unheard
  <2>5. QED BY <2>1, <2>2, <2>3, <2>4, StillExplained
<1>4. QED BY <1>2, <1>3

\* Another page: its fetch will tell, or the one that is under way.
LEMMA GoToExplained ==
  ASSUME FloorTypes, Explained, NEW p, GoTo(p)
  PROVE  Explained'
<1>1. /\ UNCHANGED <<zone, table, req, before, shown, deleting, foreign, crossed>>
      /\ fetch' = IF fetch.step = "idle" THEN Fetching ELSE fetch
      /\ \A w \in Workers : asked'[w] = IF Mine(w) THEN "earlier" ELSE asked[w]
      /\ DOMAIN fetch = {"step", "list", "muddled", "failed"}
  BY DEF GoTo, FloorTypes, FetchTyped, roomVars
<1>2. (Clean' => Clean) /\ Basis' = Basis
  <2>1. CASE fetch.step = "idle"
    <3>1. fetch'.step = "asked"
      BY <1>1, <2>1 DEF Fetching
    <3>2. QED BY <1>1, <2>1, <3>1 DEF Clean, Basis
  <2>2. CASE fetch.step # "idle"
    <3>1. fetch' = fetch
      BY <1>1, <2>2
    <3>2. QED BY <1>1, <3>1 DEF Clean, Basis
  <2>3. QED BY <2>1, <2>2
<1>3. \A w \in Workers : Mine(w)' <=> Mine(w)
  BY <1>1 DEF Mine
<1>4. \A w \in Workers : Unheard(w) /\ Done(w) /\ req[w].op \in Creations => deleting' # req[w].id
  BY <1>1 DEF Unheard
<1>5. QED BY <1>1, <1>2, <1>3, <1>4, StillExplained

\* The dialog in which something is deleted: it is something that is shown.
LEMMA DialogExplained ==
  ASSUME RoomInv, RoomTypes, Explained, CancelDelete \/ \E i \in Zones \cup Tables : AskDelete(i)
  PROVE  Explained'
<1>1. /\ UNCHANGED <<zone, table, req, before, asked, shown, fetch, foreign, crossed>>
      /\ deleting' = NoId \/ deleting' \in ShownIn(shown)
  BY DEF CancelDelete, AskDelete, ShownIn, roomVars
<1>2. (Clean' => Clean) /\ Basis' = Basis /\ \A w \in Workers : Mine(w)' <=> Mine(w)
  BY <1>1 DEF Clean, Basis, Mine
<1>3. ASSUME NEW w \in Workers, Done(w), Unheard(w), req[w].op \in Creations
      PROVE  deleting' # req[w].id
  <2>1. req[w].id \in Zones \cup Tables
    BY <1>3, TookIs DEF Done, Took
  <2>2. req[w].id \notin ShownIn(shown)
    BY <1>3 DEF Unheard
  <2>3. QED BY <1>1, <2>1, <2>2, NoIdAssumption
<1>4. QED BY <1>1, <1>2, <1>3, StillExplained

-----------------------------------------------------------------------------
(* Requests that are sent *)

\* What the page asks for is what it shows.
PageWants(op, i, data) ==
  /\ op \in PageOps
  /\ i = NoId \/ i = deleting \/ i \in ShownIn(shown)
  /\ op = "updateZone" => DOMAIN data = {"name"}
  /\ op = "updateTable" => DOMAIN data \subseteq {"number", "seats"}
  /\ "zone" \in DOMAIN data => data.zone \in ShownZones(shown)

\* That is what it sends.
LEMMA PageWantsIs ==
  ASSUME NEW w \in Workers,
         \/ CreateZone(w) \/ ConfirmDelete(w)
         \/ \E z \in Zones : CreateTable(w, z)
         \/ \E z \in Zones, n \in Names : RenameZone(w, z, n)
         \/ \E t \in Tables, n \in Names : RenameTable(w, t, n)
         \/ \E t \in Tables, by \in {-1, 1} : ChangeSeats(w, t, by)
  PROVE  /\ \E op, i, data : PageWants(op, i, data) /\ Sends(w, op, i, data)
         /\ deleting' = deleting \/ deleting' = NoId
<1>1. CASE CreateZone(w)
  <2>1. PICK data : data = [name |-> NextZoneName]
    OBVIOUS
  <2>2. Sends(w, "createZone", NoId, data) /\ deleting' = deleting
    BY <1>1, <2>1 DEF CreateZone, Edits
  <2>3. PageWants("createZone", NoId, data)
    BY <2>1 DEF PageWants, PageOps
  <2>4. QED BY <2>2, <2>3
<1>2. CASE ConfirmDelete(w)
  <2>1. PICK op : op = IF deleting \in Zones THEN "deleteZone" ELSE "deleteTable"
    OBVIOUS
  <2>2. Sends(w, op, deleting, NoData) /\ deleting' = NoId
    BY <1>2, <2>1 DEF ConfirmDelete
  <2>3. PageWants(op, deleting, NoData)
    BY <2>1 DEF PageWants, PageOps, NoData
  <2>4. QED BY <2>2, <2>3
<1>3. ASSUME NEW z \in Zones, CreateTable(w, z)
      PROVE  (\E op, i, data : PageWants(op, i, data) /\ Sends(w, op, i, data)) /\ deleting' = deleting
  <2>1. PICK data : data = [zone |-> z, number |-> NextTableNumber, seats |-> 4]
    OBVIOUS
  <2>2. Sends(w, "createTable", NoId, data) /\ deleting' = deleting /\ z \in ShownZones(shown)
    BY <1>3, <2>1 DEF CreateTable, Edits
  <2>3. PageWants("createTable", NoId, data)
    BY <2>1, <2>2 DEF PageWants, PageOps
  <2>4. QED BY <2>2, <2>3
<1>4. ASSUME NEW z \in Zones, NEW n \in Names, RenameZone(w, z, n)
      PROVE  (\E op, i, data : PageWants(op, i, data) /\ Sends(w, op, i, data)) /\ deleting' = deleting
  <2>1. PICK data : data = [name |-> n]
    OBVIOUS
  <2>2. Sends(w, "updateZone", z, data) /\ deleting' = deleting /\ z \in ShownIn(shown)
    BY <1>4, <2>1 DEF RenameZone, Edits, ShownIn
  <2>3. PageWants("updateZone", z, data)
    BY <2>1, <2>2 DEF PageWants, PageOps
  <2>4. QED BY <2>2, <2>3
<1>5. ASSUME NEW t \in Tables, NEW n \in Names, RenameTable(w, t, n)
      PROVE  (\E op, i, data : PageWants(op, i, data) /\ Sends(w, op, i, data)) /\ deleting' = deleting
  <2>1. PICK data : data = [number |-> n]
    OBVIOUS
  <2>2. Sends(w, "updateTable", t, data) /\ deleting' = deleting /\ t \in ShownIn(shown)
    BY <1>5, <2>1 DEF RenameTable, Edits, ShownIn
  <2>3. PageWants("updateTable", t, data)
    BY <2>1, <2>2 DEF PageWants, PageOps
  <2>4. QED BY <2>2, <2>3
<1>6. ASSUME NEW t \in Tables, NEW by \in {-1, 1}, ChangeSeats(w, t, by)
      PROVE  (\E op, i, data : PageWants(op, i, data) /\ Sends(w, op, i, data)) /\ deleting' = deleting
  <2>1. PICK data : data = [seats |-> shown.tables[t].seats + by]
    OBVIOUS
  <2>2. Sends(w, "updateTable", t, data) /\ deleting' = deleting /\ t \in ShownIn(shown)
    BY <1>6, <2>1 DEF ChangeSeats, Edits, ShownIn
  <2>3. PageWants("updateTable", t, data)
    BY <2>1, <2>2 DEF PageWants, PageOps
  <2>4. QED BY <2>2, <2>3
<1>7. QED BY <1>1, <1>2, <1>3, <1>4, <1>5, <1>6

\* A request that has just arrived has done nothing.
LEMMA ArriveIs ==
  ASSUME RequestsShape, AskedTyped, NEW w \in Workers, NEW op \in ZoneOps \cup TableOps, NEW i, NEW data,
         Arrive(w, op, i, data)
  PROVE  /\ OthersStay(w) /\ UNCHANGED <<zone, table>>
         /\ req'[w].op = op /\ req'[w].id = i /\ req'[w].data = data
         /\ req'[w].todo = FirstSteps(op) /\ req'[w].result = "none"
         /\ ~Took(w)' /\ ~Mine(w)
<1>1. /\ req[w] = NoRequest /\ UNCHANGED <<zone, table>>
      /\ req' = [req EXCEPT ![w] = [NoRequest EXCEPT !.op = op, !.id = i, !.data = data,
                                                     !.todo = FirstSteps(op)]]
  BY DEF Arrive
<1>2. /\ OthersStay(w) /\ req'[w].op = op /\ req'[w].id = i /\ req'[w].data = data
      /\ req'[w].todo = FirstSteps(op) /\ req'[w].result = "none"
  BY <1>1 DEF RequestsShape, OthersStay, NoRequest
<1>3. Head(FirstSteps(op)) \notin {"read", "tables"}
  BY ChecksFirst
<1>4. ~Took(w)'
  BY <1>2, <1>3 DEF Took
<1>5. asked[w] = "nobody"
  BY <1>1 DEF AskedTyped
<1>6. QED BY <1>1, <1>2, <1>4, <1>5 DEF Mine

\* The page sends a request.
LEMMA SendsExplained ==
  ASSUME RoomInv, RoomTypes, FloorTypes, Heard, Explained, NEW w \in Workers,
         NEW op, NEW i, NEW data, PageWants(op, i, data), Sends(w, op, i, data),
         deleting' = deleting \/ deleting' = NoId
  PROVE  Explained'
<1>1. /\ Arrive(w, op, i, data) /\ RequestsShape /\ AskedTyped /\ op \in ZoneOps \cup TableOps
      /\ UNCHANGED <<shown, fetch, crossed, foreign>> /\ before' = [before EXCEPT ![w] = {}]
      /\ DOMAIN before = Workers
  BY DEF Sends, RoomInv, FloorTypes, Heard, PageWants, PageOps, ZoneOps, TableOps
<1>2. /\ OthersStay(w) /\ UNCHANGED <<zone, table>>
      /\ req'[w].id = i /\ req'[w].data = data /\ ~Took(w)' /\ ~Mine(w)
  BY <1>1, ArriveIs
<1>3. \A v \in Workers \ {w} : Mine(v)' <=> Mine(v)
  BY <1>1 DEF Sends, Mine, AskedTyped
<1>4. \A v \in Workers \ {w} : req'[v] = req[v] /\ before'[v] = before[v] /\ (Took(v)' <=> Took(v))
  BY <1>1, <1>2 DEF OthersStay, Took, Under
<1>5. /\ \A v \in Workers \ {w} : (Taken(v)' <=> Taken(v)) /\ (Done(v)' <=> Done(v))
      /\ ~Taken(w) /\ ~Done(w) /\ ~Taken(w)' /\ ~Done(w)'
  BY <1>2, <1>3, <1>4 DEF Taken, Done, Took
<1>6. AllHeld
  <2>1. ASSUME NEW v \in Workers PROVE Held(v)
    BY <1>4, <1>5 DEF Held, Taken, Done
  <2>2. QED BY <2>1 DEF AllHeld
<1>7. (Clean' => Clean) /\ Basis' = Basis
  BY <1>1 DEF Clean, Basis
<1>8. ASSUME NEW v \in Workers, Unheard(v), Done(v), req[v].op \in Creations
      PROVE  deleting' # req[v].id /\ Unasked(v)'
  <2>1. v # w /\ Unasked(v) /\ deleting # req[v].id /\ req[v].id \notin ShownIn(shown)
    BY <1>5, <1>8 DEF Unheard
  <2>2. req[v].id \in Zones \cup Tables
    BY <1>8, TookIs DEF Done, Took
  <2>3. i # req[v].id /\ deleting' # req[v].id
    BY <2>1, <2>2, NoIdAssumption DEF PageWants
  <2>4. "zone" \in DOMAIN data => data.zone # req[v].id
    BY <2>1 DEF PageWants, ShownIn
  <2>5. req'[v].id = req[v].id /\ \A u \in Workers \ {v, w} : req'[u] = req[u] /\ (Mine(u)' <=> Mine(u))
    BY <1>3, <1>4, <2>1
  <2>6. Unasked(v)'
    BY <1>2, <2>1, <2>3, <2>4, <2>5 DEF Unasked
  <2>7. QED BY <2>3, <2>6
<1>9. QED
  BY <1>1, <1>2, <1>5, <1>6, <1>7, <1>8, ExplainedSame

\* What it asks for, it has heard of.
LEMMA SendsHeard ==
  ASSUME RoomInv, RoomTypes, FloorTypes, Heard, NEW w \in Workers,
         NEW op, NEW i, NEW data, PageWants(op, i, data), Sends(w, op, i, data),
         deleting' = deleting \/ deleting' = NoId
  PROVE  Heard'
<1>1. /\ Arrive(w, op, i, data) /\ RequestsShape /\ AskedTyped /\ op \in ZoneOps \cup TableOps
      /\ UNCHANGED <<shown, fetch>> /\ before' = [before EXCEPT ![w] = {}]
  BY DEF Sends, RoomInv, FloorTypes, PageWants, PageOps, ZoneOps, TableOps
<1>2. /\ OthersStay(w) /\ UNCHANGED <<zone, table>> /\ req'[w].op = op
      /\ req'[w].id = i /\ req'[w].data = data /\ req'[w].todo = FirstSteps(op)
  BY <1>1, ArriveIs
<1>3. Lasting
  BY <1>2 DEF Lasting
<1>4. \A v \in Workers \ {w} : Mine(v)' <=> Mine(v)
  BY <1>1 DEF Sends, Mine, AskedTyped
<1>5. ASSUME NEW v \in Workers \ {w}
      PROVE  PageAsks(v)' /\ EntersKnown(v)'
  <2>1. req'[v] = req[v] /\ PageAsks(v) /\ EntersKnown(v) /\ (Mine(v)' => Mine(v))
    BY <1>2, <1>4 DEF OthersStay, Heard
  <2>2. QED BY <1>3, <2>1, SameAsks
<1>6. Known(NoId)
  BY NoIdAssumption DEF Known
<1>7. Known(i) /\ Known(NoId)' /\ Known(deleting)
  BY <1>2, <1>6 DEF PageWants, Heard, KnownList, Known
<1>8. "zone" \in DOMAIN data => data.zone \in Zones /\ Known(data.zone)
  BY DEF PageWants, Heard, KnownList, ShownIn, ShownZones
<1>9. Known(i)' /\ ("zone" \in DOMAIN data => Known(data.zone)')
  BY <1>3, <1>7, <1>8, KnownStays
<1>10. PageAsks(w)'
  BY <1>2, <1>8, <1>9 DEF PageAsks, PageWants, PageOps, Known
<1>11. EntersKnown(w)'
  <2>1. op \in TableOps => ~ZoneFound(FirstSteps(op))
    BY <1>1, FirstLeft
  <2>2. op \notin TableOps => EnteredBy(w)' = {}
    BY <1>2 DEF EnteredBy, Entering
  <2>3. QED BY <1>2, <2>1, <2>2 DEF EntersKnown
<1>12. /\ KnownList(shown)' /\ KnownList(fetch.list)' /\ (\A t \in LiveTables : Known(table[t].zone))'
       /\ DOMAIN before' = Workers
  BY <1>1, <1>2 DEF Heard, KnownList, ShownIn, ShownZones, ShownTables, LiveTables, Known
<1>13. Known(deleting)'
  BY <1>2, <1>6, <1>7 DEF Known
<1>14. QED BY <1>5, <1>10, <1>11, <1>12, <1>13 DEF Heard

\* A list of known rows is still one.
LEMMA KnownListStays ==
  ASSUME Lasting, NEW l, KnownList(l)
  PROVE  KnownList(l)'
<1>1. \A i : Known(i) => Known(i)'
  BY KnownStays
<1>2. (ShownIn(l))' = ShownIn(l)
  BY DEF ShownIn, ShownZones, ShownTables
<1>3. QED BY <1>1, <1>2 DEF KnownList

\* The parts of Heard.
LEMMA HeardKept ==
  ASSUME Heard, Lasting, RoomHeard', KnownList(shown'), fetch'.list = fetch.list \/ KnownList(fetch'.list),
         Known(deleting'), DOMAIN before' = Workers
  PROVE  Heard'
<1>1. PICK l : l = shown'
  OBVIOUS
<1>2. PICK m : m = fetch'.list
  OBVIOUS
<1>3. PICK i : i = deleting'
  OBVIOUS
<1>4. KnownList(l)' /\ KnownList(m)' /\ Known(i)'
  <2>1. KnownList(l) /\ KnownList(m) /\ Known(i)
    BY <1>1, <1>2, <1>3 DEF Heard
  <2>2. QED BY <2>1, KnownListStays, KnownStays
<1>5. KnownList(shown)'
  BY <1>1, <1>4 DEF KnownList, ShownIn, ShownZones, ShownTables
<1>6. KnownList(fetch.list)'
  BY <1>2, <1>4 DEF KnownList, ShownIn, ShownZones, ShownTables
<1>7. Known(deleting)'
  BY <1>3, <1>4 DEF Known
<1>8. QED BY <1>5, <1>6, <1>7 DEF Heard, RoomHeard

\* The requests are the same, and so is the room.
LEMMA QuietHeard ==
  ASSUME Heard, RemovedStay, UNCHANGED <<zone, table, req>>, \A w \in Workers : Mine(w)' => Mine(w)
  PROVE  Lasting /\ RoomHeard' /\ RemovedStay'
<1>1. Lasting
  BY DEF Lasting
<1>2. ASSUME NEW v \in Workers
      PROVE  PageAsks(v)' /\ EntersKnown(v)'
  <2>1. PageAsks(v) /\ EntersKnown(v)
    BY DEF Heard
  <2>2. QED BY <1>1, <2>1, SameAsks
<1>3. (\A t \in LiveTables : Known(table[t].zone))'
  BY DEF Heard, LiveTables, Known
<1>4. RemovedStay'
  BY DEF RemovedStay, Taken, Took, Under
<1>5. QED BY <1>1, <1>2, <1>3, <1>4 DEF RoomHeard

\* A request is over.
LEMMA GoneHeard ==
  ASSUME Heard, RemovedStay, NEW w \in Workers, Gone(w), req'[w] = NoRequest
  PROVE  Lasting /\ RoomHeard' /\ RemovedStay'
<1>1. UNCHANGED <<zone, table>> /\ Lasting
  BY DEF Gone, Lasting
<1>2. ASSUME NEW v \in Workers \ {w}
      PROVE  PageAsks(v)' /\ EntersKnown(v)'
  <2>1. PageAsks(v) /\ EntersKnown(v) /\ req'[v] = req[v] /\ (Mine(v)' => Mine(v))
    BY DEF Heard, Gone
  <2>2. QED BY <1>1, <2>1, SameAsks
<1>3. PageAsks(w)' /\ EntersKnown(w)'
  BY DEF PageAsks, EntersKnown, Under, Gone
<1>4. (\A t \in LiveTables : Known(table[t].zone))'
  BY <1>1 DEF Heard, LiveTables, Known
<1>5. RemovedStay'
  BY <1>1 DEF RemovedStay, Gone
<1>6. QED BY <1>1, <1>2, <1>3, <1>4, <1>5 DEF RoomHeard

\* An answer shows nothing new but its own row.
LEMMA PatchedAdds ==
  ASSUME NEW l, ListTyped(l), NEW q, q.op \in ZoneOps \cup TableOps, ResultTyped(q.op, q.id, q.row)
  PROVE  ShownIn(Patched(l, q)) \subseteq ShownIn(l) \cup {q.id}
<1>1. ASSUME NEW k, ShownIn(k) \subseteq ShownIn(l), DOMAIN k = {"zones", "tables", "again"},
             DOMAIN k.zones = Zones, DOMAIN k.tables = Tables
      PROVE  /\ ShownIn(WithTable(k, q.id, q.row)) \subseteq ShownIn(l) \cup {q.id}
             /\ q.op \in ZoneOps => ShownIn(WithZone(k, q.id, q.row)) \subseteq ShownIn(l) \cup {q.id}
             /\ ShownIn(RenameZoneIn(k, q.id, q.row)) \subseteq ShownIn(l) \cup {q.id}
  <2>1. ASSUME NEW m, \A z \in Zones : z # q.id => m.zones[z] = k.zones[z],
               \A t \in Tables : t # q.id => m.tables[t] = k.tables[t]
        PROVE  ShownIn(m) \subseteq ShownIn(l) \cup {q.id}
    <3>1. ShownIn(m) \subseteq ShownIn(k) \cup {q.id}
      BY <2>1 DEF ShownIn, ShownZones, ShownTables
    <3>2. QED BY <1>1, <3>1
  <2>2. ASSUME NEW m, m = WithTable(k, q.id, q.row)
        PROVE  ShownIn(m) \subseteq ShownIn(l) \cup {q.id}
    <3>1. m = k \/ (m.zones = k.zones /\ m.tables = [k.tables EXCEPT ![q.id] = q.row])
      BY <1>1, <2>2 DEF WithTable
    <3>2. QED BY <1>1, <2>1, <3>1
  <2>3. ASSUME NEW m, m = WithZone(k, q.id, q.row) \/ m = RenameZoneIn(k, q.id, q.row)
        PROVE  ShownIn(m) \subseteq ShownIn(l) \cup {q.id}
    <3>1. m = k \/ (m.tables = k.tables /\ m.zones = [k.zones EXCEPT ![q.id] = q.row.name])
      BY <1>1, <2>3 DEF WithZone, RenameZoneIn
    <3>2. QED BY <1>1, <2>1, <3>1
  <2>4. QED BY <2>2, <2>3
<1>2. ASSUME NEW k, k = Without(l, q.id)
      PROVE  /\ ShownIn(k) \subseteq ShownIn(l) /\ DOMAIN k = {"zones", "tables", "again"}
             /\ DOMAIN k.zones = Zones /\ DOMAIN k.tables = Tables
  <2>1. PICK gone : gone = {q.id} \cup {t \in ShownTables(l) : l.tables[t].zone = q.id}
    OBVIOUS
  <2>2. k = [zones  |-> [z \in Zones |-> IF z \in gone THEN NotShown ELSE l.zones[z]],
             tables |-> [t \in Tables |-> IF t \in gone THEN NoRow ELSE l.tables[t]],
             again  |-> l.again \ gone]
    BY <1>2, <2>1 DEF Without
  <2>3. QED BY <2>2 DEF ShownIn, ShownZones, ShownTables
<1>3. CASE q.op \in {"createZone", "updateZone", "createTable"}
  BY <1>1, <1>3 DEF Patched, ListTyped, ZoneOps
<1>4. CASE q.op \in {"updateTable", "setStatus"}
  BY <1>1, <1>2, <1>4 DEF Patched, ReplaceTable
<1>5. CASE q.op \in {"deleteZone", "deleteTable"}
  BY <1>2, <1>5 DEF Patched
<1>6. QED BY <1>3, <1>4, <1>5 DEF ZoneOps, TableOps

\* A statement for somebody else.
LEMMA ServedOtherExplained ==
  ASSUME RoomInv, Explained, NEW w \in Workers, ~Mine(w), Served(w)
  PROVE  Explained'
<1>1. OthersStay(w)
  BY ServedSame DEF Served, RoomInv
<1>2. UNCHANGED <<shown, fetch, asked, deleting, crossed>> /\ before' = before
  BY DEF Served, Noted
<1>3. foreign' = (foreign \/ <<zone, table>>' # <<zone, table>>)
  BY DEF Served, Noted
<1>4. ~foreign' => ~foreign /\ UNCHANGED <<zone, table>>
  BY <1>3
<1>5. Basis' = Basis /\ (Clean' => Clean /\ UNCHANGED <<zone, table>>)
  BY <1>2, <1>4 DEF Clean, Basis
<1>6. \A v \in Workers : Mine(v)' <=> Mine(v)
  BY <1>2 DEF Mine
<1>7. QED BY <1>1, <1>2, <1>5, <1>6, OtherExplained

\* A removal that fails half-way.
LEMMA RemovalFailsExplained ==
  ASSUME RoomInv, FloorTypes, Explained, NEW w \in Workers, RemovalFails(w)
  PROVE  Explained'
<1>1. /\ fetch' = [fetch EXCEPT !.muddled = fetch.muddled \/ Mine(w)]
      /\ crossed' = (crossed \/ Mine(w))
      /\ DOMAIN fetch = {"step", "list", "muddled", "failed"}
  BY DEF RemovalFails, FloorTypes, FetchTyped
<1>2. CASE Mine(w)
  <2>1. fetch'.muddled /\ crossed'
    BY <1>1, <1>2
  <2>2. QED BY <2>1 DEF Explained, Clean
<1>3. CASE ~Mine(w)
  <2>1. OthersStay(w)
    BY ServedSame DEF RemovalFails, RoomInv
  <2>2. UNCHANGED <<shown, asked, deleting, zone, table>> /\ before' = before
    BY <1>3 DEF RemovalFails, Noted, RemoveTablesFails
  <2>3. /\ fetch'.step = fetch.step /\ fetch'.list = fetch.list
        /\ (~fetch'.muddled => ~fetch.muddled) /\ (~crossed' => ~crossed)
    BY <1>1
  <2>4. ~foreign' => ~foreign
    <3>1. foreign' = (foreign \/ (~Mine(w) /\ <<zone, table>>' # <<zone, table>>))
      BY DEF RemovalFails, Noted
    <3>2. QED BY <3>1
  <2>5. Basis' = Basis /\ (Clean' => Clean)
    BY <2>2, <2>3, <2>4 DEF Clean, Basis
  <2>6. \A v \in Workers : Mine(v)' <=> Mine(v)
    BY <2>2 DEF Mine
  <2>7. QED BY <1>3, <2>1, <2>2, <2>5, <2>6, OtherExplained
<1>4. QED BY <1>2, <1>3

\* An answer that tells nothing: a refusal, one that is lost, one to somebody else.
LEMMA OtherAnswersExplained ==
  ASSUME RoomInv, FloorTypes, Explained, NEW w \in Workers,
         AnswerRefused(w) \/ AnswerLost(w) \/ OtherDone(w)
  PROVE  Explained'
<1>1. RequestsShape /\ AskedTyped /\ DOMAIN fetch = {"step", "list", "muddled", "failed"}
  BY DEF RoomInv, FloorTypes, FetchTyped
<1>2. CASE AnswerLost(w)
  <2>1. fetch'.muddled /\ crossed'
    BY <1>1, <1>2 DEF AnswerLost
  <2>2. QED BY <2>1 DEF Explained, Clean
<1>3. CASE AnswerRefused(w) \/ OtherDone(w)
  <2>1. Gone(w)
    BY <1>1, <1>3, AnsweredGone DEF AnswerRefused, OtherDone
  <2>2. ~Taken(w)
    BY <1>3 DEF AnswerRefused, OtherDone, Taken, Took, Under, Mine
  <2>3. UNCHANGED <<shown, fetch, deleting, crossed, foreign>>
    BY <1>3 DEF AnswerRefused, OtherDone
  <2>4. Basis' = Basis /\ (Clean' => Clean)
    BY <2>3 DEF Clean, Basis
  <2>5. QED BY <2>1, <2>2, <2>3, <2>4, QuietlyGone
<1>4. QED BY <1>2, <1>3

\* What others send is a request like those of the page.
LEMMA OtherSendsIs ==
  ASSUME RoomInv, FloorTypes, NEW w \in Workers, OtherSends(w)
  PROVE  /\ OthersStay(w) /\ UNCHANGED <<zone, table>>
         /\ req'[w].op \in ZoneOps \cup TableOps /\ req'[w].todo = FirstSteps(req'[w].op)
         /\ ~Took(w)' /\ ~Mine(w) /\ ~Mine(w)'
         /\ \A v \in Workers : Mine(v)' <=> Mine(v)
<1>1. OtherRequest(w) /\ asked' = [asked EXCEPT ![w] = "other"] /\ RequestsShape /\ AskedTyped
  BY DEF OtherSends, RoomInv, FloorTypes
<1>2. PICK op, i, data : op \in ZoneOps \cup TableOps /\ Arrive(w, op, i, data)
  <2>1. PICK op, i, data : WellSent(op, i, data) /\ Arrive(w, op, i, data)
    <3>1. \A t \in LiveTables : t \in Tables
      BY DEF LiveTables
    <3>2. QED BY <1>1, <3>1, FieldsSent DEF OtherRequest
  <2>2. QED BY <2>1 DEF WellSent
<1>3. /\ OthersStay(w) /\ UNCHANGED <<zone, table>>
      /\ req'[w].op = op /\ req'[w].todo = FirstSteps(op) /\ ~Took(w)' /\ ~Mine(w)
  BY <1>1, <1>2, ArriveIs
<1>4. asked'[w] = "other" /\ \A v \in Workers \ {w} : asked'[v] = asked[v]
  BY <1>1 DEF AskedTyped
<1>5. ~Mine(w)' /\ \A v \in Workers \ {w} : Mine(v)' <=> Mine(v)
  BY <1>4 DEF Mine
<1>6. QED BY <1>2, <1>3, <1>5

\* It changes nothing yet.
LEMMA OtherSendsExplained ==
  ASSUME RoomInv, FloorTypes, Explained, NEW w \in Workers, OtherSends(w)
  PROVE  Explained'
<1>1. /\ OthersStay(w) /\ UNCHANGED <<zone, table>> /\ ~Mine(w)
      /\ \A v \in Workers : Mine(v)' <=> Mine(v)
  BY OtherSendsIs
<1>2. UNCHANGED <<shown, fetch, deleting, before, crossed, foreign>>
  BY DEF OtherSends
<1>3. Basis' = Basis /\ (Clean' => Clean)
  BY <1>2 DEF Clean, Basis
<1>4. QED BY <1>1, <1>2, <1>3, OtherExplained

-----------------------------------------------------------------------------
(* The floor keeps what explains the list *)

\* Whatever happens on the floor.
LEMMA FloorStepExplained ==
  ASSUME RoomInv, RoomTypes, FloorTypes, FloorInv, FloorStep
  PROVE  Explained'
<1>1. Explained /\ RemovedStay /\ Heard
  BY DEF FloorInv
<1>2. ASSUME FetchReads \/ FetchArrives \/ FetchFails \/ Retry
      PROVE  Explained'
  BY <1>1, <1>2, FetchReadsExplained, FetchExplained
<1>3. ASSUME CancelDelete \/ \E i \in Zones \cup Tables : AskDelete(i)
      PROVE  Explained'
  BY <1>1, <1>3, DialogExplained
<1>4. ASSUME NEW w \in Workers,
             \/ CreateZone(w) \/ ConfirmDelete(w)
             \/ \E z \in Zones : CreateTable(w, z)
             \/ \E z \in Zones, n \in Names : RenameZone(w, z, n)
             \/ \E t \in Tables, n \in Names : RenameTable(w, t, n)
             \/ \E t \in Tables, by \in {-1, 1} : ChangeSeats(w, t, by)
      PROVE  Explained'
  <2>1. PICK op, i, data : PageWants(op, i, data) /\ Sends(w, op, i, data)
    BY <1>4, PageWantsIs
  <2>2. deleting' = deleting \/ deleting' = NoId
    BY <1>4, PageWantsIs
  <2>3. QED BY <1>1, <2>1, <2>2, SendsExplained
<1>5. ASSUME NEW w \in Workers, Served(w) \/ RemovalFails(w)
      PROVE  Explained'
  BY <1>1, <1>5, ServedExplained, ServedOtherExplained, RemovalFailsExplained
<1>6. ASSUME NEW w \in Workers, AnswerDone(w) \/ AnswerRefused(w) \/ AnswerLost(w) \/ OtherDone(w)
      PROVE  Explained'
  BY <1>1, <1>6, AnswerDoneExplained, OtherAnswersExplained
<1>7. ASSUME NEW w \in Workers, OtherSends(w)
      PROVE  Explained'
  BY <1>1, <1>7, OtherSendsExplained
<1>8. QED
  BY <1>2, <1>3, <1>4, <1>5, <1>6, <1>7 DEF FloorStep

-----------------------------------------------------------------------------
(* What is heard of, and what was removed *)

\* A statement makes a removal of a request only with the row.
LEMMA ServeTakes ==
  ASSUME RoomInv, RoomTypes, NEW w \in Workers, ServeRoom(w) \/ RemoveTablesFails(w), Took(w)'
  PROVE  \/ Took(w) /\ req'[w].op = req[w].op /\ req'[w].id = req[w].id
         \/ req'[w].op \notin {"deleteZone", "deleteTable"}
         \/ req'[w].op = "deleteZone" /\ zone'[req'[w].id] = Removed
         \/ req'[w].op = "deleteTable" /\ table'[req'[w].id] = Removed
<1>1. RequestsShape /\ Under(w) /\ req'[w].op = req[w].op
  BY ServedSame DEF RoomInv
<1>2. ~Refuse(w)
  BY <1>1, RefusedTakesNothing
<1>3. CASE Find(w) \/ RequireZone(w) \/ CheckClash(w)
  BY <1>3, ChecksTakeNothing
<1>4. CASE RemoveTablesFails(w)
  BY <1>2, <1>4 DEF RemoveTablesFails
<1>5. CASE Create(w) \/ Update(w)
  BY <1>1, <1>5 DEF Create, Update
<1>6. CASE Reread(w) \/ RemoveTables(w)
  <2>1. Head(req[w].todo) \in {"read", "tables"}
    BY <1>6 DEF Reread, RemoveTables, At
  <2>2. Took(w)
    BY <1>1, <2>1 DEF Took
  <2>3. PICK i, r : i = req[w].id /\ Finish(w, i, r)
    BY <1>2, <1>6 DEF Reread, RemoveTables
  <2>4. req'[w].id = i
    BY <1>1, <2>3 DEF Finish, RequestsShape
  <2>5. QED BY <1>1, <2>2, <2>3, <2>4
<1>7. CASE Remove(w)
  <2>1. /\ At(w, "write") /\ Row(w).life = "live"
        /\ \/ /\ req[w].op = "deleteZone" /\ Next1(w)
              /\ zone' = [zone EXCEPT ![req[w].id] = Removed]
           \/ /\ req[w].op = "deleteTable" /\ Finish(w, req[w].id, Removed)
              /\ table' = [table EXCEPT ![req[w].id] = Removed]
    BY <1>2, <1>7 DEF Remove
  <2>2. WellSent(req[w].op, req[w].id, req[w].data)
    BY <2>1, AtIs, <1>1
  <2>3. CASE req[w].op = "deleteZone"
    <3>1. req[w].id \in Zones /\ req'[w].id = req[w].id
      BY <1>1, <2>1, <2>2, <2>3 DEF WellSent, ZoneOps, Next1, RequestsShape
    <3>2. zone'[req[w].id] = Removed
      BY <2>1, <2>3, <3>1 DEF RoomTypes
    <3>3. QED BY <1>1, <2>3, <3>1, <3>2
  <2>4. CASE req[w].op = "deleteTable"
    <3>1. req[w].id \in Tables /\ req'[w].id = req[w].id
      BY <1>1, <2>1, <2>2, <2>4 DEF WellSent, ZoneOps, TableOps, Finish, RequestsShape
    <3>2. table'[req[w].id] = Removed
      BY <2>1, <2>4, <3>1 DEF RoomTypes
    <3>3. QED BY <1>1, <2>4, <3>1, <3>2
  <2>5. QED BY <2>1, <2>3, <2>4
<1>8. QED
  BY <1>3, <1>4, <1>5, <1>6, <1>7 DEF ServeRoom

\* A statement tells the application nothing it may not know.
LEMMA ServedHeard ==
  ASSUME RoomInv, RoomTypes, FloorTypes, Heard, RemovedStay, NEW w \in Workers,
         Served(w) \/ RemovalFails(w)
  PROVE  Heard' /\ RemovedStay'
<1>1. /\ ServeRoom(w) \/ RemoveTablesFails(w)
      /\ UNCHANGED <<shown, asked, deleting>>
      /\ Noted(w)
      /\ fetch' = fetch \/ fetch' = [fetch EXCEPT !.muddled = fetch.muddled \/ Mine(w)]
  BY DEF Served, RemovalFails
<1>2. RoomHeard /\ RequestsShape
  BY DEF Heard, RoomHeard, RoomInv
<1>3. Lasting /\ RoomHeard'
  BY <1>1, <1>2, ServeHeard
<1>4. fetch'.list = fetch.list
  BY <1>1 DEF FloorTypes, FetchTyped
<1>5. DOMAIN before' = Workers
  BY <1>1 DEF Noted, Heard
<1>6. KnownList(shown') /\ Known(deleting')
  BY <1>1 DEF Heard
<1>7. Heard'
  BY <1>3, <1>4, <1>5, <1>6, HeardKept
<1>8. OthersStay(w)
  BY <1>1, <1>2, ServedSame
<1>9. ASSUME NEW v \in Workers, Taken(v)'
      PROVE  \/ Taken(v) /\ req'[v].op = req[v].op /\ req'[v].id = req[v].id
             \/ req'[v].op \notin {"deleteZone", "deleteTable"}
             \/ req'[v].op = "deleteZone" /\ zone'[req'[v].id] = Removed
             \/ req'[v].op = "deleteTable" /\ table'[req'[v].id] = Removed
  <2>1. Mine(v)
    BY <1>1, <1>9 DEF Taken, Mine
  <2>2. CASE v = w
    <3>1. Took(w)'
      BY <1>9, <2>2 DEF Taken
    <3>2. QED BY <1>1, <2>1, <2>2, <3>1, ServeTakes DEF Taken
  <2>3. CASE v # w
    <3>1. req'[v] = req[v]
      BY <1>8, <2>3 DEF OthersStay
    <3>2. QED BY <1>9, <2>1, <3>1 DEF Taken, Took, Under
  <2>4. QED BY <2>2, <2>3
<1>10. RemovedStay'
  BY <1>3, <1>9, RemovedStaySame
<1>11. QED BY <1>7, <1>10

\* What is stored is known.
LEMMA ListingKnown ==
  ASSUME RoomTypes
  PROVE  KnownList(Listing)
<1>1. PICK l : l = Listing
  OBVIOUS
<1>2. /\ \A z \in Zones : l.zones[z] = IF z \in ListedZones THEN zone[z].name ELSE NotShown
      /\ \A t \in Tables : l.tables[t] = IF t \in ListedTables THEN table[t] ELSE NoRow
  BY <1>1 DEF Listing
<1>3. \A z \in ListedZones : z \in Zones /\ zone[z] # NoRow
  BY DEF ListedZones, LiveZones, NoRow
<1>4. \A t \in ListedTables : t \in Tables /\ table[t] # NoRow
  BY DEF ListedTables, LiveTables, NoRow
<1>5. /\ \A z \in ShownZones(l) : z \in Zones /\ zone[z] # NoRow
      /\ \A t \in ShownTables(l) : t \in Tables /\ table[t] # NoRow
  BY <1>2, <1>3, <1>4 DEF ShownZones, ShownTables
<1>6. \A i \in ShownIn(l) : Known(i)
  BY <1>5, IdsAssumption DEF Known, ShownIn
<1>7. IsList(l)
  BY <1>1 DEF IsList, Listing
<1>8. QED BY <1>1, <1>6, <1>7 DEF KnownList

\* Pages, dialogs and fetches of the list.
LEMMA AsideHeard ==
  ASSUME RoomTypes, FloorTypes, Heard, RemovedStay, UNCHANGED <<zone, table, req, before>>,
         \A w \in Workers : Mine(w)' => Mine(w),
         shown' = shown \/ shown' = fetch.list,
         fetch'.list = fetch.list \/ fetch'.list = Listing \/ fetch'.list = Empty,
         deleting' = deleting \/ deleting' = NoId \/ deleting' \in ShownIn(shown)
  PROVE  Heard' /\ RemovedStay'
<1>1. Lasting /\ RoomHeard' /\ RemovedStay'
  BY QuietHeard
<1>2. KnownList(shown')
  BY DEF Heard
<1>3. KnownList(Empty)
  BY DEF KnownList, IsList, ShownIn, ShownZones, ShownTables, Empty, NotShown
<1>4. fetch'.list = fetch.list \/ KnownList(fetch'.list)
  BY <1>3, ListingKnown
<1>5. Known(deleting')
  BY NoIdAssumption DEF Heard, KnownList, Known
<1>6. DOMAIN before' = Workers
  BY DEF Heard
<1>7. QED BY <1>1, <1>2, <1>4, <1>5, <1>6, HeardKept

\* So do all steps of the floor that no request takes part in.
LEMMA FetchHeard ==
  ASSUME RoomTypes, FloorTypes, Heard, RemovedStay,
         \/ FetchReads \/ FetchArrives \/ FetchFails \/ Retry \/ CancelDelete
         \/ \E i \in Zones \cup Tables : AskDelete(i)
  PROVE  Heard' /\ RemovedStay'
<1>1. DOMAIN fetch = {"step", "list", "muddled", "failed"}
  BY DEF FloorTypes, FetchTyped
<1>2. UNCHANGED <<zone, table, req, before, asked>>
  BY DEF FetchReads, FetchArrives, FetchFails, Retry, CancelDelete, AskDelete, roomVars
<1>3. shown' = shown \/ shown' = fetch.list
  BY DEF FetchReads, FetchArrives, FetchFails, Retry, CancelDelete, AskDelete
<1>4. fetch'.list = fetch.list \/ fetch'.list = Listing \/ fetch'.list = Empty
  BY <1>1 DEF FetchReads, FetchArrives, FetchFails, Retry, Fetching, CancelDelete, AskDelete
<1>5. deleting' = deleting \/ deleting' = NoId \/ deleting' \in ShownIn(shown)
  BY DEF FetchReads, FetchArrives, FetchFails, Retry, CancelDelete, AskDelete, ShownIn
<1>6. \A w \in Workers : Mine(w)' => Mine(w)
  BY <1>2 DEF Mine
<1>7. QED BY <1>2, <1>3, <1>4, <1>5, <1>6, AsideHeard

\* What an answer makes of a list is one.
LEMMA PatchedIsList ==
  ASSUME NEW l, IsList(l), NEW q, q.op \in ZoneOps \cup TableOps
  PROVE  IsList(Patched(l, q))
<1>1. ASSUME NEW k, IsList(k)
      PROVE  /\ IsList(WithTable(k, q.id, q.row)) /\ IsList(WithZone(k, q.id, q.row))
             /\ IsList(RenameZoneIn(k, q.id, q.row))
  <2>1. PICK zones, tables, again : k = [zones |-> zones, tables |-> tables, again |-> again]
    BY <1>1 DEF IsList
  <2>2. IsList(WithTable(k, q.id, q.row))
    BY <2>1 DEF IsList, WithTable
  <2>3. IsList(WithZone(k, q.id, q.row))
    <3>1. PICK a : a = IF q.id \in ShownZones(k) THEN k.again \cup {q.id} ELSE k.again
      OBVIOUS
    <3>2. WithZone(k, q.id, q.row) = [k EXCEPT !.zones[q.id] = q.row.name, !.again = a]
      BY <3>1 DEF WithZone
    <3>3. QED BY <2>1, <3>2 DEF IsList
  <2>4. IsList(RenameZoneIn(k, q.id, q.row))
    BY <2>1 DEF IsList, RenameZoneIn
  <2>5. QED BY <2>2, <2>3, <2>4
<1>2. IsList(Without(l, q.id))
  BY DEF IsList, Without
<1>3. IsList(ReplaceTable(l, q.id, q.row))
  BY <1>1, <1>2 DEF ReplaceTable
<1>4. QED BY <1>1, <1>2, <1>3 DEF Patched, ZoneOps, TableOps

\* An answer shows a row that the request was about.
LEMMA AnswerHeard ==
  ASSUME RoomInv, RoomTypes, FloorTypes, Heard, RemovedStay, NEW w \in Workers,
         AnswerDone(w) \/ AnswerRefused(w) \/ AnswerLost(w) \/ OtherDone(w)
  PROVE  Heard' /\ RemovedStay'
<1>1. /\ Answered(w) /\ RequestsShape /\ AskedTyped /\ DOMAIN fetch = {"step", "list", "muddled", "failed"}
      /\ deleting' = deleting
      /\ shown' = shown \/ (shown' = Patched(shown, req[w]) /\ Mine(w) /\ req[w].result = "done")
  BY DEF AnswerDone, AnswerRefused, AnswerLost, OtherDone, RoomInv, FloorTypes, FetchTyped
<1>2. Gone(w)
  BY <1>1, AnsweredGone
<1>3. req'[w] = NoRequest
  BY <1>1 DEF Answered, Dismiss, RequestsShape
<1>4. Lasting /\ RoomHeard' /\ RemovedStay'
  BY <1>2, <1>3, GoneHeard
<1>5. KnownList(shown')
  <2>1. KnownList(shown)
    BY DEF Heard
  <2>2. CASE shown' = Patched(shown, req[w]) /\ Mine(w) /\ req[w].result = "done"
    <3>1. req[w].op \in ZoneOps \cup TableOps /\ ResultTyped(req[w].op, req[w].id, req[w].row)
      BY <2>2, TookIs DEF Took
    <3>2. Known(req[w].id)
      BY <2>2 DEF Heard, PageAsks
    <3>3. PICK l, q : l = shown /\ q = req[w]
      OBVIOUS
    <3>4. ShownIn(Patched(l, q)) \subseteq ShownIn(l) \cup {q.id}
      BY <3>1, <3>3, PatchedAdds DEF FloorTypes
    <3>5. IsList(l) => IsList(Patched(l, q))
      BY <3>1, <3>3, PatchedIsList
    <3>6. QED BY <2>1, <2>2, <3>2, <3>3, <3>4, <3>5 DEF KnownList
  <2>3. QED BY <1>1, <2>1, <2>2
<1>6. fetch'.list = fetch.list
  BY <1>1 DEF AnswerDone, AnswerRefused, AnswerLost, OtherDone
<1>7. Known(deleting')
  BY <1>1 DEF Heard
<1>8. DOMAIN before' = Workers
  BY <1>1 DEF Answered
<1>9. QED BY <1>4, <1>5, <1>6, <1>7, <1>8, HeardKept

\* A request that arrives has removed nothing, and what others removed stays so.
LEMMA ArrivalRemoves ==
  ASSUME RemovedStay, NEW w \in Workers, OthersStay(w), UNCHANGED <<zone, table>>, ~Took(w)',
         \A v \in Workers \ {w} : Mine(v)' => Mine(v)
  PROVE  RemovedStay'
<1>1. ASSUME NEW v \in Workers, Taken(v)'
      PROVE  req'[v] = req[v] /\ Taken(v)
  <2>1. v # w
    BY <1>1 DEF Taken
  <2>2. req'[v] = req[v]
    BY <2>1 DEF OthersStay
  <2>3. QED BY <1>1, <2>1, <2>2 DEF Taken, Took, Under
<1>2. QED BY <1>1 DEF RemovedStay

\* The page sends a request.
LEMMA PageHeard ==
  ASSUME RoomInv, RoomTypes, FloorTypes, Heard, RemovedStay, NEW w \in Workers,
         NEW op, NEW i, NEW data, PageWants(op, i, data), Sends(w, op, i, data),
         deleting' = deleting \/ deleting' = NoId
  PROVE  Heard' /\ RemovedStay'
<1>1. /\ Arrive(w, op, i, data) /\ RequestsShape /\ AskedTyped /\ op \in ZoneOps \cup TableOps
  BY DEF Sends, RoomInv, FloorTypes, PageWants, PageOps, ZoneOps, TableOps
<1>2. OthersStay(w) /\ UNCHANGED <<zone, table>> /\ ~Took(w)'
  BY <1>1, ArriveIs
<1>3. \A v \in Workers \ {w} : Mine(v)' => Mine(v)
  BY <1>1 DEF Sends, Mine, AskedTyped
<1>4. RemovedStay'
  BY <1>2, <1>3, ArrivalRemoves
<1>5. QED BY <1>4, SendsHeard

\* Others send one.
LEMMA OtherSendsHeard ==
  ASSUME RoomInv, RoomTypes, FloorTypes, Heard, RemovedStay, NEW w \in Workers, OtherSends(w)
  PROVE  Heard' /\ RemovedStay'
<1>1. /\ OthersStay(w) /\ UNCHANGED <<zone, table>>
      /\ req'[w].op \in ZoneOps \cup TableOps /\ req'[w].todo = FirstSteps(req'[w].op)
      /\ ~Took(w)' /\ ~Mine(w)' /\ \A v \in Workers : Mine(v)' <=> Mine(v)
  BY OtherSendsIs
<1>2. RemovedStay'
  BY <1>1, ArrivalRemoves
<1>3. UNCHANGED <<shown, fetch, deleting, before>>
  BY DEF OtherSends
<1>4. Lasting
  BY <1>1 DEF Lasting
<1>5. ASSUME NEW v \in Workers \ {w}
      PROVE  PageAsks(v)' /\ EntersKnown(v)'
  <2>1. req'[v] = req[v] /\ PageAsks(v) /\ EntersKnown(v) /\ (Mine(v)' => Mine(v))
    BY <1>1 DEF OthersStay, Heard
  <2>2. QED BY <1>4, <2>1, SameAsks
<1>6. PageAsks(w)'
  BY <1>1 DEF PageAsks
<1>7. EntersKnown(w)'
  <2>1. req'[w].op \in TableOps => ~ZoneFound(req'[w].todo)
    BY <1>1, FirstLeft
  <2>2. req'[w].op \notin TableOps => EnteredBy(w)' = {}
    BY DEF EnteredBy, Entering
  <2>3. QED BY <2>1, <2>2 DEF EntersKnown
<1>8. (\A t \in LiveTables : Known(table[t].zone))'
  BY <1>1 DEF Heard, LiveTables, Known
<1>9. RoomHeard'
  BY <1>5, <1>6, <1>7, <1>8 DEF RoomHeard
<1>10. KnownList(shown') /\ fetch'.list = fetch.list /\ Known(deleting') /\ DOMAIN before' = Workers
  BY <1>3 DEF Heard
<1>11. QED BY <1>2, <1>4, <1>9, <1>10, HeardKept

\* All that happens on the floor.
LEMMA FloorInvKept ==
  ASSUME RoomInv, RoomTypes, FloorTypes, FloorInv, FloorStep
  PROVE  FloorInv'
<1>1. Explained' /\ Heard /\ RemovedStay
  BY FloorStepExplained DEF FloorInv
<1>2. ASSUME NEW w \in Workers,
             \/ CreateZone(w) \/ ConfirmDelete(w)
             \/ \E z \in Zones : CreateTable(w, z)
             \/ \E z \in Zones, n \in Names : RenameZone(w, z, n)
             \/ \E t \in Tables, n \in Names : RenameTable(w, t, n)
             \/ \E t \in Tables, by \in {-1, 1} : ChangeSeats(w, t, by)
      PROVE  Heard' /\ RemovedStay'
  <2>1. PICK op, i, data : PageWants(op, i, data) /\ Sends(w, op, i, data)
    BY <1>2, PageWantsIs
  <2>2. deleting' = deleting \/ deleting' = NoId
    BY <1>2, PageWantsIs
  <2>3. QED BY <1>1, <2>1, <2>2, PageHeard
<1>3. Heard' /\ RemovedStay'
  BY <1>1, <1>2, FetchHeard, ServedHeard, AnswerHeard, OtherSendsHeard DEF FloorStep
<1>4. QED BY <1>1, <1>3 DEF FloorInv

-----------------------------------------------------------------------------
(* The point of sale, the start and the end *)

\* The room is left alone, and the list is fetched again at most.
LEMMA ListAside ==
  ASSUME RoomTypes, FloorTypes, FloorInv,
         UNCHANGED <<zone, table, req, shown, asked, deleting, before, foreign>>,
         \/ UNCHANGED <<fetch, crossed>>
         \/ /\ fetch' = [fetch EXCEPT !.step = "asked"]
            /\ crossed' = (crossed \/ fetch.step = "arriving")
  PROVE  FloorInv'
<1>1. Explained /\ RemovedStay /\ Heard
  BY DEF FloorInv
<1>2. \A w \in Workers : Mine(w)' <=> Mine(w)
  BY DEF Mine
<1>3. Explained'
  <2>1. CASE Clean'
    <3>1. Clean /\ Basis' = Basis
      <4>1. CASE UNCHANGED <<fetch, crossed>>
        BY <2>1, <4>1 DEF Clean, Basis
      <4>2. CASE /\ fetch' = [fetch EXCEPT !.step = "asked"]
                 /\ crossed' = (crossed \/ fetch.step = "arriving")
        <5>1. fetch'.step = "asked"
          BY <4>2 DEF FloorTypes, FetchTyped
        <5>2. ~foreign /\ ~crossed /\ fetch.step # "arriving"
          BY <2>1, <4>2, <5>1 DEF Clean
        <5>3. QED BY <5>1, <5>2 DEF Clean, Basis
      <4>3. QED BY <4>1, <4>2
    <3>2. \A w \in Workers : Unheard(w) /\ Done(w) /\ req[w].op \in Creations => deleting' # req[w].id
      BY DEF Unheard
    <3>3. QED BY <1>1, <1>2, <3>1, <3>2, StillExplained
  <2>2. CASE ~Clean'
    BY <2>2 DEF Explained
  <2>3. QED BY <2>1, <2>2
<1>4. fetch'.list = fetch.list
  BY DEF FloorTypes, FetchTyped
<1>5. Heard' /\ RemovedStay'
  BY <1>1, <1>2, <1>4, AsideHeard
<1>6. QED BY <1>3, <1>5 DEF FloorInv

\* Another page is opened.
LEMMA PageTurned ==
  ASSUME RoomTypes, FloorTypes, FloorInv, NEW p, GoTo(p)
  PROVE  FloorInv'
<1>1. Explained /\ RemovedStay /\ Heard
  BY DEF FloorInv
<1>2. /\ UNCHANGED <<zone, table, req, before, shown, deleting>>
      /\ \A w \in Workers : asked'[w] = IF Mine(w) THEN "earlier" ELSE asked[w]
      /\ fetch'.list = fetch.list
  BY DEF GoTo, FloorTypes, FetchTyped, Fetching, roomVars
<1>3. \A w \in Workers : Mine(w)' => Mine(w)
  BY <1>2 DEF Mine
<1>4. Heard' /\ RemovedStay'
  BY <1>1, <1>2, <1>3, AsideHeard
<1>5. QED BY <1>1, <1>4, GoToExplained DEF FloorInv

\* An account is opened or charged: the list is not what it was read from any more.
LEMMA TableSet ==
  ASSUME RoomTypes, FloorTypes, FloorInv, NEW s, AccountSets(TheTable, s), foreign' = TRUE,
         UNCHANGED <<shown, fetch, asked, deleting, before>>
  PROVE  FloorInv'
<1>1. Explained /\ RemovedStay /\ Heard
  BY DEF FloorInv
<1>2. /\ UNCHANGED <<zone, req>> /\ table \in [Tables -> TableRows]
      /\ table' = [table EXCEPT ![TheTable] =
           IF table[TheTable].life = "live" THEN [table[TheTable] EXCEPT !.status = s] ELSE table[TheTable]]
  BY DEF AccountSets, RoomTypes
<1>3. /\ \A t \in Tables : t \notin LiveTables => table'[t] = table[t]
      /\ \A t \in LiveTables : table'[t].life = "live" /\ table'[t].zone = table[t].zone
  <2>1. \A t \in LiveTables : table[t] \in LiveTableRow
    BY RowsTyped DEF LiveTables
  <2>2. QED BY <1>2, <2>1 DEF LiveTables, LiveTableRow
<1>4. (\A t \in LiveTables : t \in LiveTables') /\ (\A t \in LiveTables' : t \in LiveTables)
  BY <1>3 DEF LiveTables
<1>5. Lasting
  <2>1. \A t \in LiveTables : table[t] # Removed /\ table'[t] # NoRow
    BY <1>3 DEF LiveTables, Removed, NoRow
  <2>2. QED BY <1>2, <1>3, <2>1 DEF Lasting
<1>6. \A w \in Workers : Mine(w)' <=> Mine(w)
  BY DEF Mine
<1>7. ASSUME NEW w \in Workers
      PROVE  PageAsks(w)' /\ EntersKnown(w)'
  <2>1. PageAsks(w) /\ EntersKnown(w)
    BY <1>1 DEF Heard
  <2>2. QED BY <1>2, <1>5, <1>6, <2>1, SameAsks
<1>8. (\A t \in LiveTables : Known(table[t].zone))'
  <2>1. ASSUME NEW t \in LiveTables'
        PROVE  Known(table[t].zone)'
    <3>1. PICK z : z = table[t].zone
      OBVIOUS
    <3>2. Known(z)' /\ table'[t].zone = z
      <4>1. t \in LiveTables
        BY <1>4, <2>1
      <4>2. Known(z)
        BY <1>1, <3>1, <4>1 DEF Heard
      <4>3. QED BY <1>3, <1>5, <3>1, <4>1, <4>2, KnownStays
    <3>3. QED BY <3>2 DEF Known
  <2>2. QED BY <2>1
<1>9. RoomHeard'
  BY <1>7, <1>8 DEF RoomHeard
<1>10. Heard'
  <2>1. KnownList(shown') /\ fetch'.list = fetch.list /\ Known(deleting') /\ DOMAIN before' = Workers
    BY <1>1 DEF Heard
  <2>2. QED BY <1>1, <1>5, <1>9, <2>1, HeardKept
<1>11. RemovedStay'
  <2>1. ASSUME NEW w \in Workers, Taken(w)'
        PROVE  Taken(w) /\ req'[w] = req[w]
    BY <1>2, <1>6, <2>1 DEF Taken, Took, Under
  <2>2. ASSUME NEW w \in Workers, Taken(w), req[w].op = "deleteTable"
        PROVE  table'[req[w].id] = Removed
    <3>1. table[req[w].id] = Removed
      BY <1>1, <2>2 DEF RemovedStay
    <3>2. PICK t : t = req[w].id
      OBVIOUS
    <3>3. t \notin LiveTables
      BY <3>1, <3>2 DEF LiveTables, Removed
    <3>4. table'[t] = table[t]
      BY <1>2, <1>3, <3>3
    <3>5. QED BY <3>1, <3>2, <3>4
  <2>3. ASSUME NEW w \in Workers, Taken(w), req[w].op = "deleteZone"
        PROVE  zone'[req[w].id] = Removed
    BY <1>1, <1>2, <2>3 DEF RemovedStay
  <2>4. QED BY <2>1, <2>2, <2>3 DEF RemovedStay
<1>12. Explained'
  BY DEF Explained, Clean
<1>13. QED BY <1>10, <1>11, <1>12 DEF FloorInv

\* What happens at the point of sale.
LEMMA FloorInvAround ==
  ASSUME RoomTypes, FloorTypes, FloorInv, PosStep
  PROVE  FloorInv'
<1>a. ASSUME UNCHANGED <<roomVars, shown, asked, deleting, before, foreign>>,
             \/ UNCHANGED <<fetch, crossed>>
             \/ /\ fetch' = [fetch EXCEPT !.step = "asked"]
                /\ crossed' = (crossed \/ fetch.step = "arriving")
      PROVE  FloorInv'
  BY <1>a, ListAside DEF roomVars
<1>1. ASSUME OpenCharge \/ TypeAmount \/ CloseDialog \/ PullReads \/ PullArrives \/ PullFails
      PROVE  FloorInv'
  BY <1>1, <1>a DEF OpenCharge, TypeAmount, CloseDialog, PullReads, PullArrives, PullFails, floorVars
<1>2. ASSUME CloseReceipt \/ \E p \in {"floor", "tables", "pos"} : Visit(p)
      PROVE  FloorInv'
  BY <1>2, PageTurned DEF CloseReceipt, Visit, Turns
<1>3. ASSUME OtherWaiter
      PROVE  FloorInv'
  <2>1. UNCHANGED <<shown, fetch, asked, deleting, before, crossed>>
    BY <1>3 DEF OtherWaiter
  <2>2. \/ UNCHANGED <<roomVars, foreign>>
        \/ AccountSets(TheTable, "FREE") /\ foreign' = TRUE
        \/ AccountSets(TheTable, "OCCUPIED") /\ foreign' = TRUE
    BY <1>3 DEF OtherWaiter
  <2>3. QED BY <1>a, <2>1, <2>2, TableSet
<1>4. ASSUME NEW k \in Calls,
             \/ \E p \in Products : Tap(k, p) \/ \E n \in 0..MaxQuantity : ChangeQuantity(k, p, n)
             \/ SubmitOpen(k) \/ Command(k) \/ SubmitCharge(k)
      PROVE  FloorInv'
  BY <1>4, <1>a DEF Tap, ChangeQuantity, SubmitOpen, Command, SubmitCharge, floorVars
<1>5. ASSUME NEW k \in Calls, ServeOpen(k) \/ ServeCharge(k)
      PROVE  FloorInv'
  <2>1. UNCHANGED <<shown, fetch, asked, deleting, before, crossed>>
    BY <1>5 DEF ServeOpen, ServeCharge
  <2>2. \/ UNCHANGED <<roomVars, foreign>>
        \/ AccountSets(TheTable, "FREE") /\ foreign' = TRUE
        \/ AccountSets(TheTable, "OCCUPIED") /\ foreign' = TRUE
    BY <1>5 DEF ServeOpen, ServeCharge
  <2>3. QED BY <1>a, <2>1, <2>2, TableSet
<1>6. ASSUME NEW k \in Calls,
             ServeAdd(k) \/ ServeChange(k) \/ ServeCommand(k) \/ ServeRefused(k) \/ CallFails(k)
      PROVE  FloorInv'
  BY <1>6, <1>a DEF ServeAdd, ServeChange, ServeCommand, ServeRefused, CallFails, RoomUntouched, floorVars
<1>7. ASSUME NEW k \in Calls, AnswerItem(k) \/ AnswerAccount(k)
      PROVE  FloorInv'
  BY <1>7, <1>a DEF AnswerItem, AnswerAccount, Invalidates, Fetching
<1>8. ASSUME NEW k \in Calls,
             OpenSettled(k) \/ ChargeSettled(k) \/ AnswerCommand(k) \/ AnswerRefusal(k)
      PROVE  FloorInv'
  BY <1>8, <1>a DEF OpenSettled, ChargeSettled, AnswerCommand, AnswerRefusal, floorVars
<1>9. QED
  BY <1>1, <1>2, <1>3, <1>4, <1>5, <1>6, <1>7, <1>8 DEF PosStep

\* A list that has just been read is explained by itself.
LEMMA ListingExplains ==
  ASSUME RoomTypes
  PROVE  Explains(Listing)
<1>1. PICK l : l = Listing
  OBVIOUS
<1>2. l.again = {}
  BY <1>1 DEF Listing
<1>3. /\ \A z \in Zones : l.zones[z] = IF z \in ListedZones THEN zone[z].name ELSE NotShown
      /\ \A t \in Tables : l.tables[t] = IF t \in ListedTables THEN table[t] ELSE NoRow
  BY <1>1 DEF Listing
<1>4. /\ \A z \in ListedZones : z \in Zones /\ zone[z].name # NotShown
      /\ \A t \in ListedTables : t \in LiveTables /\ table[t] # NoRow
  BY RowsTyped DEF ListedZones, LiveZones, LiveZoneRow, ListedTables, LiveTables, NoRow, NotShown
<1>5. ASSUME NEW z \in Zones
      PROVE  ZoneListed(l, z)
  BY <1>3, <1>4 DEF ZoneListed, ShownZones
<1>6. ASSUME NEW t \in Tables
      PROVE  TableListed(l, t)
  BY <1>3, <1>4 DEF TableListed, ShownTables, LiveTables
<1>7. QED BY <1>1, <1>2, <1>5, <1>6 DEF Explains

\* So the page starts.
LEMMA InitFloor == Init => FloorInv
<1> SUFFICES ASSUME Init PROVE FloorInv
  OBVIOUS
<1>1. RoomTypes
  BY InitRoomTypes
<1>2. /\ shown = Listing /\ asked = [w \in Workers |-> "nobody"] /\ req = [w \in Workers |-> NoRequest]
      /\ fetch = [step |-> "idle", list |-> Empty, muddled |-> FALSE, failed |-> FALSE]
      /\ deleting = NoId /\ before = [w \in Workers |-> {}] /\ strayed = {} /\ RoomInOrder
  BY DEF Init, FloorInit, RoomInit
<1>3. \A w \in Workers : ~Mine(w) /\ ~Under(w) /\ ~Taken(w) /\ ~Done(w)
  BY <1>2 DEF Mine, Under, Taken, Done
<1>4. Basis = Listing
  BY <1>2 DEF Basis
<1>5. \A w \in Workers : Answers(w)
  BY <1>3 DEF Answers, ZoneAnswer, TableAnswer, Unheard
<1>6. Explained
  BY <1>1, <1>4, <1>5, ListingExplains DEF Explained
<1>7. RemovedStay
  BY <1>3 DEF RemovedStay
<1>8. \A t \in LiveTables : Known(table[t].zone)
  <2>1. ASSUME NEW t \in LiveTables
        PROVE  table[t].zone \in LiveZones
    BY <1>2, <1>3 DEF RoomInOrder, TablesHaveZones, At
  <2>2. QED BY <2>1, IdsAssumption DEF LiveZones, Known, NoRow
<1>9. KnownList(shown) /\ KnownList(fetch.list) /\ Known(deleting)
  <2>1. KnownList(Empty)
    BY DEF KnownList, IsList, ShownIn, ShownZones, ShownTables, Empty, NotShown
  <2>2. Known(NoId)
    BY NoIdAssumption DEF Known
  <2>3. QED BY <1>1, <1>2, <2>1, <2>2, ListingKnown
<1>10. \A w \in Workers : PageAsks(w) /\ EntersKnown(w)
  BY <1>3 DEF PageAsks, EntersKnown
<1>11. DOMAIN before = Workers
  BY <1>2
<1>12. Heard
  BY <1>8, <1>9, <1>10, <1>11 DEF Heard
<1>13. QED BY <1>6, <1>7, <1>12 DEF FloorInv

\* When nothing is on its way, nothing has to be explained.
LEMMA FloorMeans ==
  ASSUME RoomTypes, FloorTypes, FloorInv
  PROVE  FloorSettles
<1> SUFFICES ASSUME FloorQuiet, ~crossed, ~foreign
             PROVE  shown = Listing
  BY DEF FloorSettles
<1>1. fetch.step = "idle" /\ \A w \in Workers : ~Mine(w)
  BY DEF FloorQuiet, Mutations
<1>2. Clean /\ Basis = shown
  BY <1>1 DEF Clean, Basis
<1>3. Explains(shown)
  BY <1>2 DEF FloorInv, Explained
<1>4. \A ops, i : ~Pending(ops, i)
  BY <1>1 DEF Pending, Taken
<1>5. shown.again = {} /\ DOMAIN shown = {"zones", "tables", "again"}
  BY <1>3 DEF Explains, FloorTypes, ListTyped
<1>6. shown.zones = [z \in Zones |-> IF z \in ListedZones THEN zone[z].name ELSE NotShown]
  <2>1. ASSUME NEW z \in Zones
        PROVE  shown.zones[z] = IF z \in ListedZones THEN zone[z].name ELSE NotShown
    <3>1. ZoneListed(shown, z)
      BY <1>3 DEF Explains
    <3>2. QED BY <1>4, <3>1 DEF ZoneListed, ShownZones
  <2>2. shown.zones \in [Zones -> Nat]
    BY DEF FloorTypes, ListTyped
  <2>3. QED BY <2>1, <2>2
<1>7. shown.tables = [t \in Tables |-> IF t \in ListedTables THEN table[t] ELSE NoRow]
  <2>1. ASSUME NEW t \in Tables
        PROVE  shown.tables[t] = IF t \in ListedTables THEN table[t] ELSE NoRow
    <3>1. TableListed(shown, t)
      BY <1>3 DEF Explains
    <3>2. t \in ListedTables => t \in LiveTables
      BY DEF ListedTables
    <3>3. QED BY <1>4, <3>1, <3>2 DEF TableListed, ShownTables
  <2>2. shown.tables \in [Tables -> {NoRow} \cup LiveTableRow]
    BY DEF FloorTypes, ListTyped
  <2>3. QED BY <2>1, <2>2
<1>8. QED
  <2>1. PICK z, t : /\ z = [i \in Zones |-> IF i \in ListedZones THEN zone[i].name ELSE NotShown]
                    /\ t = [i \in Tables |-> IF i \in ListedTables THEN table[i] ELSE NoRow]
    OBVIOUS
  <2>2. Listing = [zones |-> z, tables |-> t, again |-> {}]
    BY <2>1 DEF Listing
  <2>3. shown = [zones |-> shown.zones, tables |-> shown.tables, again |-> shown.again]
    BY DEF FloorInv, Heard, KnownList, IsList
  <2>4. QED BY <1>5, <1>6, <1>7, <2>1, <2>2, <2>3

-----------------------------------------------------------------------------
(* The screens *)

(* However many zones, tables, sales and products there are and however    *)
(* many requests and calls: when no request, no call and no fetch is under *)
(* way, the list of zones and tables is the one that is stored, each row   *)
(* once (useDiningRoom.ts:27), and the account is the one that is stored,  *)
(* with the quantities the waiter asked for (useTableAccount.ts:61),       *)
(* unless one of the cases that crossed, foreign, elsewhere and upset      *)
(* remember.                                                               *)
THEOREM ScreenSettlesHolds == Spec => []ScreenSettles
<1> DEFINE Inv == IInv /\ Typed /\ AccountInv /\ FloorInv
<1>1. Init => Inv
  BY InitRoom, InitTyped, InitAccount, InitFloor
<1>2. Inv /\ [Next]_vars => Inv'
  <2>1. ASSUME Inv, UNCHANGED vars
        PROVE  Inv'
    <3>1. IInv' /\ Typed'
      BY <2>1, TypedKept
    <3>2. /\ PullGoesOn /\ pull' = pull /\ page' = page
          /\ UNCHANGED <<sale, account, call, wanted, upset, elsewhere>>
      BY <2>1 DEF PullGoesOn, vars, floorVars, posVars
    <3>3. AccountInv'
      BY <2>1, <3>2, NothingKeeps
    <3>4. UNCHANGED <<zone, table, req, shown, asked, deleting, before, crossed, foreign, fetch>>
      BY <2>1 DEF vars, roomVars, floorVars
    <3>5. FloorInv'
      BY <2>1, <3>4, ListAside DEF Typed
    <3>6. QED BY <3>1, <3>3, <3>5
  <2>2. ASSUME Inv, PosStep
        PROVE  Inv'
    <3>1. IInv' /\ Typed'
      BY <2>2, PosKeeps, PosTyped, AroundTyped DEF Typed
    <3>2. AccountInv'
      BY <2>2, AccountKept DEF Typed
    <3>3. FloorInv'
      BY <2>2, FloorInvAround DEF Typed
    <3>4. QED BY <3>1, <3>2, <3>3
  <2>3. ASSUME Inv, FloorStep, UNCHANGED posVars
        PROVE  Inv'
    <3>1. IInv' /\ RoomTypes' /\ FloorTypes' /\ page' = page
      BY <2>3, FloorKeeps, FloorTyped DEF Typed
    <3>2. PosTypes'
      BY <2>3, <3>1, PartsStay DEF Typed, posVars, PosTypes
    <3>3. PullGoesOn /\ pull' = pull /\ UNCHANGED <<sale, account, call, wanted, upset, elsewhere>>
      BY <2>3 DEF PullGoesOn, posVars
    <3>4. AccountInv'
      BY <2>3, <3>1, <3>3, NothingKeeps
    <3>5. FloorInv'
      BY <2>3, FloorInvKept DEF Typed, IInv
    <3>6. QED BY <3>1, <3>2, <3>4, <3>5 DEF Typed
  <2>4. QED BY <2>1, <2>2, <2>3 DEF Next
<1>3. Inv => ScreenSettles
  BY AccountMeans, FloorMeans DEF Typed, ScreenSettles
<1>4. QED
  BY <1>1, <1>2, <1>3, PTL DEF Spec

=============================================================================
