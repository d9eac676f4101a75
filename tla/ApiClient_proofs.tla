-------------------------- MODULE ApiClient_proofs --------------------------
(***************************************************************************)
(* Theorems about ApiClient, with the sessions and the tenant it composes, *)
(* for any number of workers, calls, sessions and tokens.                  *)
(***************************************************************************)
EXTENDS ApiClient, FiniteSetTheorems, TLAPS

-----------------------------------------------------------------------------
(* The inductive invariant *)

\* What a worker at a gate has read, by its operation.
GateShape ==
  \A w \in Workers :
    /\ gate[w].op = "status" => gate[w].seen \in Statuses
    /\ gate[w].op = "override" => gate[w].seen \in {"on", "off", Absent}
    /\ gate[w].step = "set" => gate[w].op \in {"status", "delete"} /\ gate[w].seen \in Statuses

AccessTypes == AccessTypeOK /\ GateShape

\* A token belongs to a session that was created, which alone may be active.
RowsExist ==
  /\ \A t \in TokenIds : Exists(t) => session[token[t].session].scope # "none"
  /\ \A s \in SessionIds : session[s].isActive => session[s].scope # "none"

\* What a session request has read, by its operation and step.
Shaped(w) ==
  /\ req[w].op = "rotate" => /\ req[w].token \in TokenIds /\ Exists(req[w].token)
                             /\ req[w].ids = {token[req[w].token].session}
  /\ Busy(w, "rotate", "session") => req[w].next \in TokenIds
  /\ Busy(w, "login", "issue") => req[w].next = NoToken
  /\ Busy(w, "login", "answer") => req[w].next \in TokenIds
  /\ req[w].op = "revoke" => /\ \A s \in req[w].ids : session[s].scope # "none"
                             /\ req[w].why # "none"

RequestShape == \A w \in Workers : Shaped(w)

\* The token that a request is about to issue is not there yet, and no one else's.
NextFresh ==
  \A w \in Workers :
    /\ Busy(w, "rotate", "session") => ~Exists(req[w].next)
    /\ \A v \in Workers : req[w].next # NoToken /\ req[v].next = req[w].next => v = w

SessionTypes == SessionTypeOK /\ RowsExist /\ RequestShape /\ NextFresh

\* A call that waits for a worker is the only one that does, and so is the refresh.
WorkersApart ==
  /\ flight # NoWorker => req[flight].op # "idle"
  /\ \A c \in Calls : call[c].step = "working" =>
       /\ call[c].worker \in Workers \ {flight}
       /\ call[c].kind = "login" => req[call[c].worker].op = "login"
       /\ call[c].kind # "login" => req[call[c].worker].op \in {"revoke", "failed"}
       /\ \A d \in Calls : call[d].step = "working" /\ call[d].worker = call[c].worker => d = c

Types == AccessTypes /\ SessionTypes /\ ClientTypeOK /\ WorkersApart

\* A guard that will write an entry holds what the tenant has.
FillsCurrent ==
  \A w \in Workers :
    At(w, "request", "fill") /\ gate[w].key \notin doubtful => gate[w].seen = Truth(gate[w].key)

\* One request at a time tells the cache a status, the one that the tenant has.
TellsAlone ==
  "status" \notin doubtful =>
    \A w \in Workers : gate[w].step = "set" =>
      /\ gate[w].seen = status
      /\ \A v \in Workers : gate[v].step = "set" => v = w

\* A deletion that is at the cache has committed: its transaction cannot fail.
DeletionsCommitted ==
  \A w \in Workers : gate[w].op = "delete" /\ gate[w].step # "commit" =>
    req[w].step \in {"none", "answer"}

CacheInv == CacheFollowsTenant /\ FillsCurrent /\ TellsAlone /\ DeletionsCommitted

\* A session that ended stays so; whoever rotates one of its tokens came before.
EndedIsInactive ==
  \A s \in SessionIds : endedBy[s] # "none" => session[s].scope # "none" /\ ~session[s].isActive

RotatedInTime ==
  \A w \in Workers : req[w].op = "rotate" /\ req[w].step \in {"tokens", "session"} => ~req[w].late

EndedInv == EndedIsInactive /\ RotatedInTime /\ EndedSessionsIssueNothing

\* The session counts: its tokens are not those of a deleted tenant.
Counts(s) ==
  s \notin forked /\ session[s].isActive /\ (session[s].scope = "PLATFORM" \/ ~deleted)

LiveTokens(s) == {t \in TokenIds : token[t].session = s /\ ~token[t].revoked}

OneLive == \A s \in SessionIds : Counts(s) => \E t \in TokenIds : LiveTokens(s) = {t}

\* Two rotations of one token do not write it at the same time, and the one that
\* does found it valid.
RotationsApart ==
  \A w \in Workers : Busy(w, "rotate", "session") =>
    /\ Counts(token[req[w].token].session) => ~token[req[w].token].revoked
    /\ \A v \in Workers :
         Busy(v, "rotate", "session") /\ req[v].token = req[w].token => v = w

LiveInv == OneLive /\ RotationsApart

\* Sessions whose revoked tokens say nothing of a theft.
Excused(s) ==
  s \in replayed \/ endedBy[s] # "none" \/ (session[s].scope # "PLATFORM" /\ deleted)

Safe(t) == token[t].revoked => Excused(token[t].session)

\* The tokens in the answers that are under way may be presented, and nobody else
\* presents them.
Issued(w) == req[w].op \in {"login", "rotate"} /\ req[w].step = "answer" /\ req[w].next # NoToken

IssuedSafe == \A w \in Workers : Issued(w) => Exists(req[w].next) /\ Safe(req[w].next)

HandsApart ==
  \A v, w \in Workers : req[v].op = "rotate" => req[v].token # req[w].next

\* The token of the store may be presented, unless the answer to its rotation is
\* under way and the client waits for it.
StoreSafe ==
  store.token # NoToken =>
    /\ Exists(store.token)
    /\ \A w \in Workers : req[w].next # store.token
    /\ \/ Safe(store.token)
       \/ /\ flight # NoWorker /\ req[flight].op = "rotate"
          /\ Issued(flight) /\ req[flight].token = store.token

\* A rotation is the refresh that the client waits for, or its answer was lost.
RotationsAwaited ==
  \A w \in Workers : req[w].op = "rotate" => flight = w \/ req[w].ids \subseteq replayed

\* A request that ends a session for reuse has reason to.
ReuseExcused ==
  \A w \in Workers : req[w].op = "revoke" /\ req[w].why = "reuse" =>
    \A s \in req[w].ids : s \in replayed \/ endedBy[s] # "none"

ReuseInv ==
  /\ IssuedSafe
  /\ HandsApart
  /\ StoreSafe
  /\ RotationsAwaited
  /\ ReuseExcused
  /\ ReuseIsAReplay

-----------------------------------------------------------------------------
(* The steps that the tenant takes, and their types *)

TenantStep(w) ==
  \/ RequestArrives(w)
  \/ \E s \in Statuses : ChangeArrives(w, "status", s)
  \/ \E f \in {"on", "off"} : ChangeArrives(w, "override", f)
  \/ \E op \in {"restore", "plan", "delete"} : ChangeArrives(w, op, Absent)
  \/ GuardHit(w) \/ GuardMiss(w) \/ GuardRead(w) \/ GuardFill(w)
  \/ StatusCommit(w) \/ OverrideCommit(w) \/ RestoreCommit(w) \/ PlanCommit(w)
  \/ SetStatus(w) \/ DeleteFeatures(w)
  \/ DeleteCommit(w)
  \/ DeletionFails(w)

\* Every step leaves the tenant alone, or is one of these.
LEMMA TenantSteps ==
  ASSUME [Next]_vars
  PROVE  \/ UNCHANGED accessVars
         \/ \E k \in Keys : EntryExpires(k)
         \/ \E w \in Workers : TenantStep(w)
<1>1. CASE UNCHANGED vars
  BY <1>1 DEF vars
<1>2. CASE Environment
  BY <1>2 DEF Environment
<1>3. ASSUME NEW w \in Workers, Others(w) \/ Server(w) \/ Deletion(w) \/ DeletionFails(w)
      PROVE  UNCHANGED accessVars \/ TenantStep(w)
  <2>1. CASE Others(w)
    BY <2>1 DEF Others, TenantStep
  <2>2. CASE Server(w)
    BY <2>2 DEF Server, GateStep, TenantStep
  <2>3. CASE Deletion(w)
    BY <2>3 DEF Deletion, TenantStep
  <2>4. CASE DeletionFails(w)
    BY <2>4 DEF TenantStep
  <2>5. QED
    BY <1>3, <2>1, <2>2, <2>3, <2>4
<1>4. ASSUME NEW c \in Calls,
             \/ \E kind \in {"request", "logout"} : Send(c, kind)
             \/ Deny(c) \/ ServeRequest(c) \/ Join(c) \/ Rejected(c)
             \/ LoggedOut(c) \/ LoggedIn(c) \/ CallLost(c)
             \/ \E w \in Workers :
                  \/ ServeLogout(c, w) \/ StartRefresh(c, w)
                  \/ \E scope \in Offered : StartLogin(c, w, scope)
      PROVE  UNCHANGED accessVars
  BY <1>4 DEF Send, Deny, ServeRequest, Join, Rejected, LoggedOut, LoggedIn, CallLost,
              ServeLogout, StartRefresh, StartLogin
<1>5. CASE Refreshed \/ RefreshRefused \/ RefreshLost \/ Reload
  BY <1>5 DEF Refreshed, RefreshRefused, RefreshLost, Reload
<1>6. QED
  BY <1>1, <1>2, <1>3, <1>4, <1>5 DEF Next

\* What moving a worker at the gate does to the others.
LEMMA StepGate ==
  ASSUME gate \in [Workers -> Gate], NEW w \in Workers,
         NEW op, NEW step, NEW key, NEW seen,
         op \in {"idle", "request", "status", "delete", "override", "restore", "plan"},
         step \in {"none", "get", "read", "fill", "commit", "set", "del"},
         key \in Keys, seen \in Statuses \cup {"on", "off", Absent},
         Step(w, op, step, key, seen)
  PROVE  /\ gate' \in [Workers -> Gate]
         /\ gate'[w] \in Gate
         /\ gate'[w].op = op /\ gate'[w].step = step /\ gate'[w].key = key /\ gate'[w].seen = seen
         /\ \A v \in Workers \ {w} : gate'[v] = gate[v]
  BY DEF Step, Gate

LEMMA LeaveGate ==
  ASSUME gate \in [Workers -> Gate], NEW w \in Workers, Leave(w)
  PROVE  /\ gate' \in [Workers -> Gate]
         /\ gate'[w].op = "idle" /\ gate'[w].step = "none"
         /\ gate'[w].seen = Absent
         /\ \A v \in Workers \ {w} : gate'[v] = gate[v]
  BY DEF Leave, Through, Gate, Keys

\* What a worker brings along changes by the steps of that worker only.
LEMMA ShapeKept ==
  ASSUME GateShape, NEW w \in Workers,
         \A v \in Workers \ {w} : gate'[v] = gate[v],
         gate'[w].op = "status" => gate'[w].seen \in Statuses,
         gate'[w].op = "override" => gate'[w].seen \in {"on", "off", Absent},
         gate'[w].step = "set" =>
           gate'[w].op \in {"status", "delete"} /\ gate'[w].seen \in Statuses
  PROVE  GateShape'
  BY DEF GateShape

\* The tenant, its cache and the workers at the gate keep their types.
LEMMA TenantTypes ==
  ASSUME AccessTypes, NEW w \in Workers, TenantStep(w)
  PROVE  AccessTypes'
<1>a. /\ status \in Statuses /\ deleted \in BOOLEAN /\ override \in {"on", "off", Absent}
      /\ cached \in [Keys -> Statuses \cup {"on", "off", Absent}]
      /\ gate \in [Workers -> Gate]
      /\ arrivals \in 0..MaxArrivals /\ changes \in 0..MaxChanges /\ failures \in 0..MaxFailures
      /\ doubtful \subseteq Keys
  BY DEF AccessTypes, AccessTypeOK
<1>b. gate[w] \in Gate /\ gate[w].key \in Keys
      /\ gate[w].seen \in Statuses \cup {"on", "off", Absent}
  BY <1>a DEF Gate
<1>c. GateShape
  BY DEF AccessTypes
<1>d. "status" \in Keys /\ "features" \in Keys
  BY DEF Keys
<1>e. \A k \in Keys : cached[k] \in Statuses \cup {"on", "off", Absent}
                      /\ Truth(k) \in Statuses \cup {"on", "off", Absent}
  BY <1>a DEF Truth, Entitled, PlanFeature
<1>f. ASSUME Leave(w)
      PROVE  gate' \in [Workers -> Gate] /\ GateShape'
  BY <1>a, <1>c, <1>f, LeaveGate, ShapeKept
<1>1. CASE RequestArrives(w)
  <2>1. Step(w, "request", "get", "status", Absent)
    BY <1>1 DEF RequestArrives
  <2>2. gate' \in [Workers -> Gate] /\ GateShape'
    BY <1>a, <1>c, <1>d, <2>1, StepGate, ShapeKept
  <2>3. QED
    BY <1>1, <1>a, <2>2, MaxAssumption DEF RequestArrives, AccessTypes, AccessTypeOK
<1>2. ASSUME NEW op \in {"status", "override", "restore", "plan", "delete"},
             NEW value \in Statuses \cup {"on", "off", Absent}, ChangeArrives(w, op, value),
             op = "status" => value \in Statuses, op = "override" => value \in {"on", "off"}
      PROVE  AccessTypes'
  <2> DEFINE key == IF op \in {"status", "delete"} THEN "status" ELSE "features"
  <2>1. Step(w, op, "commit", key, value) /\ key \in Keys
    BY <1>2, <1>d DEF ChangeArrives
  <2>2. gate' \in [Workers -> Gate] /\ gate'[w].op = op /\ gate'[w].step = "commit"
        /\ gate'[w].seen = value /\ \A v \in Workers \ {w} : gate'[v] = gate[v]
    BY <1>a, <2>1, StepGate
  <2>3. GateShape'
    BY <1>2, <1>c, <2>2, ShapeKept
  <2>4. QED
    BY <1>2, <1>a, <2>2, <2>3, MaxAssumption DEF ChangeArrives, AccessTypes, AccessTypeOK
<1>3. ASSUME NEW k \in Keys, NEW value, Decide(w, k, value)
      PROVE  gate' \in [Workers -> Gate] /\ GateShape'
  <2>1. CASE Step(w, "request", "get", "features", Absent)
    BY <1>a, <1>c, <1>d, <2>1, StepGate, ShapeKept
  <2>2. CASE Leave(w)
    BY <1>a, <1>c, <2>2, LeaveGate, ShapeKept
  <2>3. QED
    BY <1>3, <2>1, <2>2 DEF Decide
<1>4. CASE GuardHit(w)
  <2>1. gate' \in [Workers -> Gate] /\ GateShape'
    BY <1>4, <1>b, <1>3 DEF GuardHit
  <2>2. QED
    BY <1>4, <1>a, <2>1 DEF GuardHit, AccessTypes, AccessTypeOK
<1>5. CASE GuardMiss(w)
  <2>1. Step(w, "request", "read", gate[w].key, Absent)
    BY <1>5 DEF GuardMiss
  <2>2. gate' \in [Workers -> Gate] /\ GateShape'
    BY <1>a, <1>b, <1>c, <2>1, StepGate, ShapeKept
  <2>3. failures' \in 0..MaxFailures
    BY <1>5, <1>a, MaxAssumption DEF GuardMiss
  <2>4. QED
    BY <1>5, <1>a, <2>2, <2>3 DEF GuardMiss, AccessTypes, AccessTypeOK
<1>6. CASE GuardRead(w)
  <2>1. ASSUME Step(w, "request", "fill", gate[w].key, Truth(gate[w].key))
        PROVE  gate' \in [Workers -> Gate] /\ GateShape'
    BY <1>a, <1>b, <1>c, <1>e, <2>1, StepGate, ShapeKept
  <2>2. Leave(w) \/ Step(w, "request", "fill", gate[w].key, Truth(gate[w].key))
    BY <1>6 DEF GuardRead
  <2>3. gate' \in [Workers -> Gate] /\ GateShape'
    BY <1>f, <2>1, <2>2
  <2>4. QED
    BY <1>6, <1>a, <2>3 DEF GuardRead, AccessTypes, AccessTypeOK
<1>7. CASE GuardFill(w)
  <2>1. gate' \in [Workers -> Gate] /\ GateShape'
    BY <1>7, <1>b, <1>3 DEF GuardFill
  <2>2. cached' \in [Keys -> Statuses \cup {"on", "off", Absent}]
    BY <1>7, <1>a, <1>b DEF GuardFill
  <2>3. failures' \in 0..MaxFailures /\ doubtful' \subseteq Keys
    BY <1>7, <1>a, <1>b, MaxAssumption DEF GuardFill
  <2>4. QED
    BY <1>7, <1>a, <2>1, <2>2, <2>3 DEF GuardFill, AccessTypes, AccessTypeOK
<1>8. ASSUME NEW ks \in SUBSET Keys
      PROVE  doubtful \cup Overlap(ks) \subseteq Keys
  BY <1>a DEF Overlap
<1>9. CASE StatusCommit(w)
  <2>1. gate[w].seen \in Statuses
    BY <1>9, <1>c DEF StatusCommit, At, GateShape
  <2>2. Step(w, "status", "set", "status", gate[w].seen)
    BY <1>9 DEF StatusCommit
  <2>3. gate' \in [Workers -> Gate] /\ gate'[w].op = "status"
        /\ gate'[w].seen = gate[w].seen /\ \A v \in Workers \ {w} : gate'[v] = gate[v]
    BY <1>a, <1>d, <2>1, <2>2, StepGate
  <2>4. GateShape'
    BY <1>c, <2>1, <2>3, ShapeKept
  <2>5. QED
    BY <1>9, <1>a, <1>d, <1>8, <2>1, <2>3, <2>4 DEF StatusCommit, AccessTypes, AccessTypeOK
<1>10. CASE DeleteCommit(w)
  <2>1. Step(w, "delete", "set", "status", "ARCHIVED") /\ "ARCHIVED" \in Statuses
    BY <1>10, StatusesAssumption DEF DeleteCommit
  <2>2. gate' \in [Workers -> Gate] /\ gate'[w].op = "delete"
        /\ gate'[w].seen = "ARCHIVED" /\ \A v \in Workers \ {w} : gate'[v] = gate[v]
    BY <1>a, <1>d, <2>1, StepGate
  <2>3. GateShape'
    BY <1>c, <2>1, <2>2, ShapeKept
  <2>4. QED
    BY <1>10, <1>a, <1>d, <1>8, <2>1, <2>2, <2>3 DEF DeleteCommit, AccessTypes, AccessTypeOK
<1>11. CASE OverrideCommit(w)
  <2>1. gate[w].seen \in {"on", "off", Absent}
    BY <1>11, <1>c DEF OverrideCommit, At, GateShape
  <2>2. CASE Leave(w) /\ UNCHANGED <<override, doubtful>>
    <3>1. gate' \in [Workers -> Gate] /\ GateShape'
      BY <1>a, <1>c, <2>2, LeaveGate, ShapeKept
    <3>2. QED
      BY <1>11, <1>a, <2>2, <3>1 DEF OverrideCommit, AccessTypes, AccessTypeOK
  <2>3. CASE /\ override' = gate[w].seen
             /\ doubtful' = doubtful \cup Overlap({"features"})
             /\ Step(w, "override", "del", "features", Absent)
    <3>1. gate' \in [Workers -> Gate] /\ GateShape'
      BY <1>a, <1>c, <1>d, <2>3, StepGate, ShapeKept
    <3>2. QED
      BY <1>11, <1>a, <1>d, <1>8, <2>1, <2>3, <3>1 DEF OverrideCommit, AccessTypes, AccessTypeOK
  <2>4. QED
    BY <1>11, <2>2, <2>3 DEF OverrideCommit
<1>12. CASE RestoreCommit(w)
  <2>1. Step(w, "restore", "del", "features", Absent)
    BY <1>12 DEF RestoreCommit
  <2>2. gate' \in [Workers -> Gate] /\ GateShape'
    BY <1>a, <1>c, <1>d, <2>1, StepGate, ShapeKept
  <2>3. QED
    BY <1>12, <1>a, <1>d, <1>8, <2>2 DEF RestoreCommit, AccessTypes, AccessTypeOK
<1>13. CASE PlanCommit(w)
  <2>1. Step(w, "plan", "del", "features", Absent)
    BY <1>13 DEF PlanCommit
  <2>2. gate' \in [Workers -> Gate] /\ GateShape'
    BY <1>a, <1>c, <1>d, <2>1, StepGate, ShapeKept
  <2>3. QED
    BY <1>13, <1>a, <2>2 DEF PlanCommit, AccessTypes, AccessTypeOK
<1>14. ASSUME NEW k \in Keys, NEW value \in Statuses \cup {"on", "off", Absent}, Store(k, value)
       PROVE  /\ cached' \in [Keys -> Statuses \cup {"on", "off", Absent}]
              /\ failures' \in 0..MaxFailures /\ doubtful' \subseteq Keys
  BY <1>14, <1>a, MaxAssumption DEF Store
<1>15. CASE SetStatus(w)
  <2>1. ASSUME Step(w, "delete", "del", "features", Absent)
        PROVE  gate' \in [Workers -> Gate] /\ GateShape'
    BY <1>a, <1>c, <1>d, <2>1, StepGate, ShapeKept
  <2>2. Leave(w) \/ Step(w, "delete", "del", "features", Absent)
    BY <1>15 DEF SetStatus
  <2>3. gate' \in [Workers -> Gate] /\ GateShape'
    BY <1>f, <2>1, <2>2
  <2>4. Store("status", gate[w].seen)
    BY <1>15 DEF SetStatus
  <2>5. QED
    BY <1>15, <1>a, <1>b, <1>d, <1>14, <2>3, <2>4 DEF SetStatus, AccessTypes, AccessTypeOK
<1>16. CASE DeleteFeatures(w)
  <2>1. gate' \in [Workers -> Gate] /\ GateShape'
    BY <1>16, <1>a, <1>c, LeaveGate, ShapeKept DEF DeleteFeatures
  <2>2. Store("features", Absent)
    BY <1>16 DEF DeleteFeatures
  <2>3. QED
    BY <1>16, <1>a, <1>d, <1>14, <2>1, <2>2 DEF DeleteFeatures, AccessTypes, AccessTypeOK
<1>17. CASE DeletionFails(w)
  <2>1. gate' \in [Workers -> Gate] /\ GateShape'
    BY <1>17, <1>a, <1>c, LeaveGate, ShapeKept DEF DeletionFails
  <2>2. QED
    BY <1>17, <1>a, <2>1 DEF DeletionFails, AccessTypes, AccessTypeOK
<1>18. QED
  BY <1>1, <1>2, <1>4, <1>5, <1>6, <1>7, <1>9, <1>10, <1>11, <1>12, <1>13, <1>15, <1>16,
     <1>17 DEF TenantStep

-----------------------------------------------------------------------------
(* The cache *)

TenantInv == CacheFollowsTenant /\ FillsCurrent /\ TellsAlone

\* A worker that does not leave the cache to others, and writes no row.
LEMMA QuietStep ==
  ASSUME TenantInv, NEW w \in Workers,
         UNCHANGED <<status, override, cached, doubtful>>,
         \A v \in Workers \ {w} : gate'[v] = gate[v],
         gate[w].step \notin {"set", "del"}, gate'[w].step # "set",
         gate'[w].op = "request" /\ gate'[w].step = "fill" =>
           gate'[w].seen = Truth(gate'[w].key)
  PROVE  TenantInv'
<1>a. \A k \in Keys : Truth(k)' = Truth(k)
  BY DEF Truth, Entitled
<1>1. \A k \in Keys : Telling(k) \subseteq Telling(k)'
  BY DEF Telling, At
<1>2. CacheFollowsTenant'
  BY <1>a, <1>1 DEF TenantInv, CacheFollowsTenant
<1>3. FillsCurrent'
  BY DEF TenantInv, FillsCurrent, At, Truth, Entitled
<1>4. TellsAlone'
  BY DEF TenantInv, TellsAlone
<1>5. QED
  BY <1>2, <1>3, <1>4 DEF TenantInv

\* A commit that no fill and no other change overlaps leaves the entry to the
\* worker that committed; any other marks the entry doubtful.
LEMMA CommitStep ==
  ASSUME TenantInv, NEW w \in Workers, NEW k \in Keys, gate \in [Workers -> Gate],
         UNCHANGED cached, doubtful' = doubtful \cup Overlap({k}),
         \A v \in Workers \ {w} : gate'[v] = gate[v],
         gate[w].step \notin {"set", "del"},
         \/ k = "status" /\ gate'[w].step = "set" /\ gate'[w].seen = status' /\ UNCHANGED override
         \/ k = "features" /\ gate'[w].step = "del" /\ UNCHANGED status
  PROVE  TenantInv'
<1>a. \A j \in Keys : Telling(j) \subseteq Telling(j)'
  BY DEF Telling, At
<1>b. w \in Telling(k)'
  BY DEF Telling
<1>c. k \notin doubtful' => Filling(k) = {} /\ Telling(k) = {}
  BY DEF Overlap
<1>d. doubtful \subseteq doubtful'
  OBVIOUS
<1>e. \A j \in Keys \ {k} : Truth(j)' = Truth(j)
  BY DEF Truth, Entitled, Keys
<1>1. CacheFollowsTenant'
  BY <1>a, <1>b, <1>d, <1>e DEF TenantInv, CacheFollowsTenant
<1>2. FillsCurrent'
  <2> SUFFICES ASSUME NEW v \in Workers, gate'[v].op = "request", gate'[v].step = "fill",
                      gate'[v].key \notin doubtful'
               PROVE  gate'[v].seen = Truth(gate[v].key)'
    BY DEF FillsCurrent, At
  <2>1. v # w /\ gate'[v] = gate[v]
    OBVIOUS
  <2>2. gate[v].key # k
    BY <1>c, <2>1 DEF Filling, At
  <2>3. gate[v].seen = Truth(gate[v].key)
    BY <1>d, <2>1 DEF TenantInv, FillsCurrent, At
  <2>4. gate[v].key \in Keys
    BY DEF Gate
  <2>5. gate'[v].seen = Truth(gate[v].key)
    BY <2>1, <2>3
  <2>6. QED
    BY <2>1, <2>2, <2>4, <2>5 DEF Truth, Entitled, Keys
<1>3. TellsAlone'
  <2>1. CASE k = "status"
    <3>1. "status" \notin doubtful' => \A v \in Workers \ {w} : gate'[v].step # "set"
      BY <1>c, <2>1 DEF Telling
    <3>2. QED
      BY <2>1, <3>1 DEF TellsAlone
  <2>2. CASE k = "features"
    BY <2>2, <1>d DEF TenantInv, TellsAlone
  <2>3. QED
    BY <2>1, <2>2
<1>4. QED
  BY <1>1, <1>2, <1>3 DEF TenantInv


\* No step of the tenant lets an entry differ from its row unmarked.
LEMMA TenantInvSteps ==
  ASSUME AccessTypes, TenantInv, DeletionsCommitted, NEW w \in Workers, TenantStep(w)
  PROVE  TenantInv'
<1>a. /\ gate \in [Workers -> Gate]
      /\ cached \in [Keys -> Statuses \cup {"on", "off", Absent}]
  BY DEF AccessTypes, AccessTypeOK
<1>b. gate[w] \in Gate /\ gate[w].key \in Keys
      /\ gate[w].seen \in Statuses \cup {"on", "off", Absent}
  BY <1>a DEF Gate
<1>c. "status" \in Keys /\ "features" \in Keys
  BY DEF Keys
<1>d. \A k \in Keys : Truth(k) \in Statuses \cup {"on", "off", Absent}
  BY DEF AccessTypes, AccessTypeOK, Truth, Entitled, PlanFeature
<1>e. ASSUME Leave(w), gate[w].step \notin {"set", "del"},
             UNCHANGED <<status, override, cached, doubtful>>
      PROVE  TenantInv'
  BY <1>a, <1>e, LeaveGate, QuietStep
<1>f. ASSUME NEW k \in Keys, NEW value, Decide(w, k, value)
      PROVE  /\ \A v \in Workers \ {w} : gate'[v] = gate[v]
             /\ gate'[w].step \notin {"fill", "set", "del"}
  <2>1. Leave(w) \/ Step(w, "request", "get", "features", Absent)
    BY <1>f DEF Decide
  <2>2. QED
    BY <1>a, <1>c, <2>1, LeaveGate, StepGate
<1>1. CASE RequestArrives(w)
  <2>1. Step(w, "request", "get", "status", Absent) /\ gate[w].step = "none"
    BY <1>1 DEF RequestArrives, Through
  <2>2. /\ \A v \in Workers \ {w} : gate'[v] = gate[v]
        /\ gate'[w].step = "get"
    BY <1>a, <1>c, <2>1, StepGate
  <2>3. QED
    BY <1>1, <2>1, <2>2, QuietStep DEF RequestArrives
<1>2. ASSUME NEW op \in {"status", "override", "restore", "plan", "delete"},
             NEW value \in Statuses \cup {"on", "off", Absent}, ChangeArrives(w, op, value)
      PROVE  TenantInv'
  <2> DEFINE key == IF op \in {"status", "delete"} THEN "status" ELSE "features"
  <2>1. Step(w, op, "commit", key, value) /\ key \in Keys /\ gate[w].step = "none"
    BY <1>2, <1>c DEF ChangeArrives, Through
  <2>2. gate'[w].step = "commit" /\ \A v \in Workers \ {w} : gate'[v] = gate[v]
    BY <1>a, <2>1, StepGate
  <2>3. QED
    BY <1>2, <2>1, <2>2, QuietStep DEF ChangeArrives
<1>3. CASE GuardHit(w)
  <2>1. Decide(w, gate[w].key, cached[gate[w].key]) /\ gate[w].step = "get"
    BY <1>3 DEF GuardHit, At
  <2>2. QED
    BY <1>3, <1>b, <1>f, <2>1, QuietStep DEF GuardHit
<1>4. CASE GuardMiss(w)
  <2>1. Step(w, "request", "read", gate[w].key, Absent) /\ gate[w].step = "get"
    BY <1>4 DEF GuardMiss, At
  <2>2. /\ \A v \in Workers \ {w} : gate'[v] = gate[v]
        /\ gate'[w].step = "read"
    BY <1>a, <1>b, <2>1, StepGate
  <2>3. QED
    BY <1>4, <2>1, <2>2, QuietStep DEF GuardMiss
<1>5. CASE GuardRead(w)
  <2>1. gate[w].step = "read" /\ UNCHANGED <<status, override, cached, doubtful>>
    BY <1>5 DEF GuardRead, At
  <2>2. ASSUME Step(w, "request", "fill", gate[w].key, Truth(gate[w].key))
        PROVE  TenantInv'
    <3>1. /\ \A v \in Workers \ {w} : gate'[v] = gate[v]
          /\ gate'[w].step = "fill"
          /\ gate'[w].key = gate[w].key /\ gate'[w].seen = Truth(gate[w].key)
      BY <1>a, <1>b, <1>d, <2>2, StepGate
    <3>2. gate'[w].seen = Truth(gate'[w].key)
      BY <3>1 DEF Truth
    <3>3. QED
      BY <2>1, <3>1, <3>2, QuietStep
  <2>3. QED
    BY <1>5, <1>e, <2>1, <2>2 DEF GuardRead
<1>6. CASE GuardFill(w)
  <2> DEFINE k == gate[w].key
  <2>1. /\ Decide(w, k, gate[w].seen) /\ gate[w].step = "fill" /\ gate[w].op = "request"
        /\ UNCHANGED <<status, override>>
    BY <1>6 DEF GuardFill, At
  <2>2. /\ \A v \in Workers \ {w} : gate'[v] = gate[v]
        /\ gate'[w].step \notin {"fill", "set", "del"}
    BY <1>b, <1>f, <2>1
  <2>3. k \notin doubtful => gate[w].seen = Truth(k)
    BY <2>1 DEF TenantInv, FillsCurrent, At
  <2>4. doubtful \subseteq doubtful' /\ \A j \in Keys : Truth(j)' = Truth(j)
    BY <1>6, <2>1 DEF GuardFill, Truth, Entitled
  <2>5. \A j \in Keys : Telling(j) \subseteq Telling(j)'
    BY <2>1, <2>2 DEF Telling, At
  <2>6. \A j \in Keys \ doubtful' :
          \/ cached'[j] = cached[j]
          \/ j = k /\ cached'[j] = gate[w].seen
    BY <1>6, <1>a, <1>b DEF GuardFill
  <2>7. CacheFollowsTenant'
    BY <2>3, <2>4, <2>5, <2>6 DEF TenantInv, CacheFollowsTenant
  <2>8. FillsCurrent'
    <3> SUFFICES ASSUME NEW v \in Workers, gate'[v].op = "request", gate'[v].step = "fill",
                        gate'[v].key \notin doubtful'
                 PROVE  gate'[v].seen = Truth(gate[v].key)'
      BY DEF FillsCurrent, At
    <3>1. v # w /\ gate'[v] = gate[v]
      BY <2>2
    <3>2. gate[v].seen = Truth(gate[v].key)
      BY <2>4, <3>1 DEF TenantInv, FillsCurrent, At
    <3>3. QED
      BY <2>1, <3>1, <3>2 DEF Truth, Entitled
  <2>9. TellsAlone'
    BY <2>1, <2>2, <2>4 DEF TenantInv, TellsAlone
  <2>10. QED
    BY <2>7, <2>8, <2>9 DEF TenantInv
<1>7. CASE StatusCommit(w)
  <2>1. /\ gate[w].seen \in Statuses /\ gate[w].step = "commit"
        /\ Step(w, "status", "set", "status", gate[w].seen)
    BY <1>7 DEF StatusCommit, At, AccessTypes, GateShape
  <2>2. gate'[w].step = "set" /\ gate'[w].seen = gate[w].seen
        /\ \A v \in Workers \ {w} : gate'[v] = gate[v]
    BY <1>a, <1>c, <2>1, StepGate
  <2>3. /\ gate'[w].seen = status' /\ UNCHANGED <<cached, override>>
        /\ doubtful' = doubtful \cup Overlap({"status"})
    BY <1>7, <2>2 DEF StatusCommit
  <2>4. QED
    BY <1>a, <1>c, <2>1, <2>2, <2>3, CommitStep
<1>8. CASE DeleteCommit(w)
  <2>1. gate[w].step = "commit" /\ Step(w, "delete", "set", "status", "ARCHIVED")
    BY <1>8 DEF DeleteCommit, At
  <2>2. gate'[w].step = "set" /\ gate'[w].seen = "ARCHIVED"
        /\ \A v \in Workers \ {w} : gate'[v] = gate[v]
    BY <1>a, <1>c, <2>1, StepGate, StatusesAssumption
  <2>3. /\ gate'[w].seen = status' /\ UNCHANGED <<cached, override>>
        /\ doubtful' = doubtful \cup Overlap({"status"})
    BY <1>8, <2>2 DEF DeleteCommit
  <2>4. QED
    BY <1>a, <1>c, <2>1, <2>2, <2>3, CommitStep
<1>9. ASSUME gate[w].step = "commit", NEW op \in {"override", "restore"},
             Step(w, op, "del", "features", Absent),
             doubtful' = doubtful \cup Overlap({"features"}), UNCHANGED <<status, cached>>
      PROVE  TenantInv'
  <2>1. gate'[w].step = "del" /\ \A v \in Workers \ {w} : gate'[v] = gate[v]
    BY <1>a, <1>c, <1>9, StepGate
  <2>2. QED
    BY <1>a, <1>c, <1>9, <2>1, CommitStep
<1>10. CASE OverrideCommit(w)
  <2>1. gate[w].step = "commit" /\ UNCHANGED <<status, cached>>
    BY <1>10 DEF OverrideCommit, At
  <2>2. CASE Leave(w) /\ UNCHANGED <<override, doubtful>>
    BY <1>e, <2>1, <2>2
  <2>3. CASE /\ doubtful' = doubtful \cup Overlap({"features"})
             /\ Step(w, "override", "del", "features", Absent)
    BY <1>9, <2>1, <2>3
  <2>4. QED
    BY <1>10, <2>2, <2>3 DEF OverrideCommit
<1>11. CASE RestoreCommit(w)
  BY <1>9, <1>11 DEF RestoreCommit, At
<1>12. CASE PlanCommit(w)
  <2>1. gate[w].step = "commit" /\ Step(w, "plan", "del", "features", Absent)
    BY <1>12 DEF PlanCommit, At
  <2>2. gate'[w].step = "del" /\ \A v \in Workers \ {w} : gate'[v] = gate[v]
    BY <1>a, <1>c, <2>1, StepGate
  <2>3. QED
    BY <1>12, <2>1, <2>2, QuietStep DEF PlanCommit
<1>13. ASSUME NEW k \in Keys, NEW value \in Statuses \cup {"on", "off", Absent}, Store(k, value)
       PROVE  /\ doubtful \subseteq doubtful'
              /\ k \notin doubtful' => cached'[k] = value
              /\ \A j \in Keys \ {k} : cached'[j] = cached[j]
  BY <1>13, <1>a DEF Store
<1>14. CASE SetStatus(w)
  <2>1. /\ gate[w].step = "set" /\ Store("status", gate[w].seen) /\ UNCHANGED <<status, override>>
        /\ IF gate[w].op = "delete" THEN Step(w, "delete", "del", "features", Absent)
                                    ELSE Leave(w)
    BY <1>14 DEF SetStatus
  <2>2. /\ \A v \in Workers \ {w} : gate'[v] = gate[v]
        /\ gate'[w].step \notin {"fill", "set"}
        /\ gate[w].op = "delete" => gate'[w].step = "del"
    BY <1>a, <1>c, <2>1, LeaveGate, StepGate
  <2>3. /\ doubtful \subseteq doubtful'
        /\ "status" \notin doubtful' => cached'["status"] = gate[w].seen
        /\ cached'["features"] = cached["features"]
    BY <1>b, <1>c, <1>13, <2>1 DEF Keys
  <2>4. \A j \in Keys : Truth(j)' = Truth(j)
    BY <2>1 DEF Truth, Entitled
  <2>5. "status" \notin doubtful' => cached'["status"] = Truth("status")'
    BY <2>1, <2>3 DEF TenantInv, TellsAlone, Truth
  <2>6. Telling("features") \subseteq Telling("features")'
    BY <2>1, <2>2 DEF Telling, At
  <2>7. CacheFollowsTenant'
    BY <1>c, <2>3, <2>4, <2>5, <2>6 DEF TenantInv, CacheFollowsTenant, Keys
  <2>8. FillsCurrent'
    <3> SUFFICES ASSUME NEW v \in Workers, gate'[v].op = "request", gate'[v].step = "fill",
                        gate'[v].key \notin doubtful'
                 PROVE  gate'[v].seen = Truth(gate[v].key)'
      BY DEF FillsCurrent, At
    <3>1. v # w /\ gate'[v] = gate[v]
      BY <2>2
    <3>2. gate[v].seen = Truth(gate[v].key)
      BY <2>3, <3>1 DEF TenantInv, FillsCurrent, At
    <3>3. QED
      BY <2>1, <3>1, <3>2 DEF Truth, Entitled
  <2>9. TellsAlone'
    BY <2>1, <2>2, <2>3 DEF TenantInv, TellsAlone
  <2>10. QED
    BY <2>7, <2>8, <2>9 DEF TenantInv
<1>15. CASE DeleteFeatures(w)
  <2>1. /\ gate[w].step = "del" /\ Store("features", Absent) /\ UNCHANGED <<status, override>>
        /\ Leave(w)
    BY <1>15 DEF DeleteFeatures
  <2>2. /\ \A v \in Workers \ {w} : gate'[v] = gate[v]
        /\ gate'[w].step = "none"
    BY <1>a, <2>1, LeaveGate
  <2>3. /\ doubtful \subseteq doubtful'
        /\ "features" \notin doubtful' => cached'["features"] = Absent
        /\ cached'["status"] = cached["status"]
    BY <1>c, <1>13, <2>1 DEF Keys
  <2>4. \A j \in Keys : Truth(j)' = Truth(j)
    BY <2>1 DEF Truth, Entitled
  <2>5. Telling("status") \subseteq Telling("status")'
    BY <2>1, <2>2 DEF Telling, At
  <2>6. CacheFollowsTenant'
    BY <1>c, <2>3, <2>4, <2>5 DEF TenantInv, CacheFollowsTenant, Keys
  <2>7. FillsCurrent'
    <3> SUFFICES ASSUME NEW v \in Workers, gate'[v].op = "request", gate'[v].step = "fill",
                        gate'[v].key \notin doubtful'
                 PROVE  gate'[v].seen = Truth(gate[v].key)'
      BY DEF FillsCurrent, At
    <3>1. v # w /\ gate'[v] = gate[v]
      BY <2>2
    <3>2. gate[v].seen = Truth(gate[v].key)
      BY <2>3, <3>1 DEF TenantInv, FillsCurrent, At
    <3>3. QED
      BY <2>1, <3>1, <3>2 DEF Truth, Entitled
  <2>8. TellsAlone'
    BY <2>1, <2>2, <2>3 DEF TenantInv, TellsAlone
  <2>9. QED
    BY <2>6, <2>7, <2>8 DEF TenantInv
<1>16. CASE DeletionFails(w)
  <2>1. gate[w].op = "delete" /\ DeadlockBroken(w) /\ Leave(w)
        /\ UNCHANGED <<status, override, cached, doubtful>>
    BY <1>16 DEF DeletionFails
  <2>2. req[w].step \in {"tokens", "session"}
    BY <2>1 DEF DeadlockBroken, WaitsFor, Busy
  <2>3. gate[w].step = "commit"
    BY <2>1, <2>2 DEF DeletionsCommitted
  <2>4. QED
    BY <1>e, <2>1, <2>3
<1>17. QED
  BY <1>1, <1>2, <1>3, <1>4, <1>5, <1>6, <1>7, <1>8, <1>10, <1>11, <1>12, <1>14, <1>15,
     <1>16 DEF TenantStep

\* An entry that expires is absent: it differs from no row.
LEMMA ExpiryStep ==
  ASSUME AccessTypes, TenantInv, NEW k \in Keys, EntryExpires(k)
  PROVE  AccessTypes' /\ TenantInv'
<1>a. /\ cached \in [Keys -> Statuses \cup {"on", "off", Absent}] /\ doubtful \subseteq Keys
  BY DEF AccessTypes, AccessTypeOK
<1>b. /\ cached' = [cached EXCEPT ![k] = Absent]
      /\ UNCHANGED <<status, deleted, override, gate, arrivals, changes, failures>>
      /\ \/ doubtful' = doubtful
         \/ Filling(k) \cup Telling(k) = {} /\ doubtful' = doubtful \ {k}
  BY DEF EntryExpires
<1>1. cached' \in [Keys -> Statuses \cup {"on", "off", Absent}] /\ doubtful' \subseteq Keys
  BY <1>a, <1>b
<1>2. AccessTypes'
  BY <1>b, <1>1 DEF AccessTypes, AccessTypeOK, GateShape
<1>3. \A j \in Keys : Truth(j)' = Truth(j) /\ Telling(j)' = Telling(j)
  BY <1>b DEF Truth, Entitled, Telling, At
<1>4. CacheFollowsTenant'
  <2>1. cached'[k] = Absent /\ \A j \in Keys \ {k} : cached'[j] = cached[j]
    BY <1>a, <1>b
  <2>2. QED
    BY <1>b, <1>3, <2>1 DEF TenantInv, CacheFollowsTenant
<1>5. FillsCurrent'
  BY <1>b DEF TenantInv, FillsCurrent, At, Filling, Truth, Entitled
<1>6. TellsAlone'
  <2>1. "status" \notin doubtful' =>
          "status" \notin doubtful \/ \A w \in Workers : gate[w].step # "set"
    BY <1>b DEF Telling
  <2>2. QED
    BY <1>b, <2>1 DEF TenantInv, TellsAlone
<1>7. QED
  BY <1>2, <1>4, <1>5, <1>6 DEF TenantInv

-----------------------------------------------------------------------------
(* The steps that the sessions take, and their types *)

SessionMove(w) ==
  \/ \E scope \in Scopes : CheckedLogin(w, scope)
  \/ LoginIssue(w)
  \/ store.token \in TokenIds /\ RefreshFind(w, store.token)
  \/ RotateTokens(w) \/ RotateCommit(w)
  \/ \E s \in SessionIds : LogoutArrives(w, s)
  \/ CleanupList(w) \/ DeletionArrives(w)
  \/ RevokeSessions(w)
  \/ RevokeCommit(w) /\ (req[w].why = "deletion" => deleted')
  \/ DeadlockBroken(w)
  \/ Finish(w) /\ UNCHANGED <<now, session, token, endedBy, forked, issuedLate>>

\* Every step leaves the sessions alone, or is one of these.
LEMMA SessionMoves ==
  ASSUME Types, [Next]_vars
  PROVE  \/ UNCHANGED sessionVars
         \/ Tick
         \/ \E w \in Workers : SessionMove(w)
<1>a. /\ store.token \in TokenIds \cup {NoToken} /\ flight \in Workers \cup {NoWorker}
      /\ \A c \in Calls : call[c] \in Call
  BY DEF Types, ClientTypeOK
<1>1. CASE UNCHANGED vars
  BY <1>1 DEF vars
<1>2. CASE Environment
  BY <1>2 DEF Environment
<1>3. ASSUME NEW w \in Workers, Others(w) \/ Server(w) \/ Deletion(w) \/ DeletionFails(w)
      PROVE  UNCHANGED sessionVars \/ SessionMove(w)
  <2>1. CASE Others(w)
    BY <2>1 DEF Others, SessionMove
  <2>2. CASE Server(w)
    <3>1. CASE req[w].why # "deletion" /\ SessionStep(w)
      BY <3>1 DEF SessionStep, SessionMove
    <3>2. CASE Answered(w)
      BY <3>2 DEF Answered, SessionMove
    <3>3. QED
      BY <2>2, <3>1, <3>2 DEF Server
  <2>3. CASE Deletion(w)
    BY <2>3 DEF Deletion, DeleteCommit, SessionMove
  <2>4. CASE DeletionFails(w)
    BY <2>4 DEF DeletionFails, SessionMove
  <2>5. QED
    BY <1>3, <2>1, <2>2, <2>3, <2>4
<1>4. ASSUME NEW c \in Calls,
             \/ \E kind \in {"request", "logout"} : Send(c, kind)
             \/ Deny(c) \/ ServeRequest(c) \/ Join(c) \/ Rejected(c) \/ CallLost(c)
      PROVE  UNCHANGED sessionVars
  BY <1>4 DEF Send, Deny, ServeRequest, Join, Rejected, CallLost
<1>5. ASSUME NEW c \in Calls, LoggedOut(c) \/ LoggedIn(c)
      PROVE  \E w \in Workers : SessionMove(w)
  <2>1. call[c].worker \in Workers
    BY <1>5 DEF LoggedOut, LoggedIn, Types, WorkersApart
  <2>2. SessionMove(call[c].worker)
    BY <1>5 DEF LoggedOut, LoggedIn, SessionMove
  <2>3. QED
    BY <2>1, <2>2
<1>6. ASSUME NEW c \in Calls, NEW w \in Workers,
             \/ ServeLogout(c, w) \/ StartRefresh(c, w)
             \/ \E scope \in Offered : StartLogin(c, w, scope)
      PROVE  SessionMove(w)
  <2>1. CASE ServeLogout(c, w)
    <3>1. call[c].bearer \in SessionIds /\ LogoutArrives(w, call[c].bearer)
      BY <1>a, <2>1 DEF ServeLogout, Valid, Call
    <3>2. QED
      BY <3>1 DEF SessionMove
  <2>2. CASE StartRefresh(c, w)
    BY <1>a, <2>2 DEF StartRefresh, SessionMove
  <2>3. CASE \E scope \in Offered : StartLogin(c, w, scope)
    BY <2>3 DEF StartLogin, Login, StaffLogin, PlatformLogin, SessionMove, Scopes
  <2>4. QED
    BY <1>6, <2>1, <2>2, <2>3
<1>7. CASE Refreshed \/ RefreshRefused
  <2>1. flight \in Workers
    BY <1>a, <1>7 DEF Refreshed, RefreshRefused
  <2>2. SessionMove(flight)
    BY <1>7 DEF Refreshed, RefreshRefused, SessionMove
  <2>3. QED
    BY <2>1, <2>2
<1>8. CASE RefreshLost \/ Reload
  BY <1>8 DEF RefreshLost, Reload
<1>9. QED
  BY <1>1, <1>2, <1>3, <1>4, <1>5, <1>6, <1>7, <1>8 DEF Next

\* Tokens stay with their session, and sessions keep their scope.
RowsPersist ==
  /\ \A t \in TokenIds : Exists(t) => token'[t].session = token[t].session
  /\ \A s \in SessionIds : session[s].scope # "none" => session'[s].scope = session[s].scope

\* A request that does not move keeps what it has read.
LEMMA ShapedKept ==
  ASSUME SessionTypes, RowsPersist, NEW v \in Workers, req'[v] = req[v]
  PROVE  Shaped(v)'
<1>1. Shaped(v) /\ req[v] \in Request
  BY DEF SessionTypes, SessionTypeOK, RequestShape
<1>2. req[v].ids \subseteq SessionIds
  BY <1>1 DEF Request
<1>3. req'[v].op = "rotate" =>
        /\ req'[v].token \in TokenIds /\ Exists(req[v].token)'
        /\ req'[v].ids = {token'[req'[v].token].session}
  BY <1>1 DEF Shaped, RowsPersist, Exists
<1>4. req'[v].op = "revoke" => \A s \in req'[v].ids : session'[s].scope # "none"
  BY <1>1, <1>2 DEF Shaped, RowsPersist
<1>5. QED
  BY <1>1, <1>3, <1>4 DEF Shaped, Busy, Exists

\* One worker moves: what is left to show for its request.
LEMMA RequestMove ==
  ASSUME SessionTypes, RowsPersist, NEW w \in Workers, NEW r \in Request,
         req' = [req EXCEPT ![w] = r], Shaped(w)'
  PROVE  /\ req' \in [Workers -> Request] /\ RequestShape'
         /\ req'[w] = r /\ \A v \in Workers \ {w} : req'[v] = req[v]
<1>1. req \in [Workers -> Request]
  BY DEF SessionTypes, SessionTypeOK
<1>2. req' \in [Workers -> Request] /\ \A v \in Workers \ {w} : req'[v] = req[v]
  BY <1>1
<1>3. req'[w] = r
  BY <1>1
<1>4. \A v \in Workers \ {w} : Shaped(v)'
  BY <1>2, ShapedKept
<1>5. QED
  BY <1>2, <1>3, <1>4 DEF RequestShape

\* Requests that issue no token yet leave the fresh ones fresh.
LEMMA FreshKept ==
  ASSUME SessionTypes, RowsPersist, NEW w \in Workers,
         \A v \in Workers \ {w} : req'[v] = req[v],
         \A t \in TokenIds : Exists(t)' => Exists(t),
         req'[w].next = NoToken \/ req'[w].next = req[w].next,
         ~Busy(w, "rotate", "session")'
  PROVE  NextFresh'
<1>1. NextFresh /\ RequestShape
  BY DEF SessionTypes
<1>2. ASSUME NEW v \in Workers, Busy(v, "rotate", "session")'
      PROVE  ~Exists(req[v].next)'
  <2>1. v # w /\ Busy(v, "rotate", "session")
    BY <1>2 DEF Busy
  <2>2. req[v].next \in TokenIds /\ ~Exists(req[v].next)
    BY <1>1, <2>1 DEF RequestShape, Shaped, NextFresh
  <2>3. QED
    BY <1>2, <2>1, <2>2 DEF Exists
<1>3. ASSUME NEW v \in Workers, NEW u \in Workers, req'[v].next # NoToken,
             req'[u].next = req'[v].next
      PROVE  u = v
  BY <1>1, <1>3 DEF NextFresh
<1>4. QED
  BY <1>2, <1>3 DEF NextFresh

\* The sessions, the tokens and their requests keep their types.
LEMMA MoveTypes ==
  ASSUME SessionTypes, NEW w \in Workers, SessionMove(w)
  PROVE  SessionTypes' /\ RowsPersist
<1>a. /\ now \in 0..MaxNow
      /\ session \in [SessionIds -> [scope : Scopes \cup {"none"}, isActive : BOOLEAN,
                                     expiresAt : 0..(MaxNow + RefreshTtl)]]
      /\ token \in [TokenIds -> [session : SessionIds \cup {NoSession}, revoked : BOOLEAN,
                                 expiresAt : 0..(MaxNow + RefreshTtl)]]
      /\ req \in [Workers -> Request]
      /\ endedBy \in [SessionIds -> {"none", "logout", "reuse", "cleanup", "deletion"}]
      /\ forked \subseteq SessionIds /\ issuedLate \subseteq SessionIds
  BY DEF SessionTypes, SessionTypeOK
<1>b. RowsExist /\ RequestShape /\ NextFresh
  BY DEF SessionTypes
<1>c. req[w] \in Request /\ Shaped(w)
  BY <1>a, <1>b DEF RequestShape
<1>d. Served \in Request
  BY DEF Served, Request, Scopes
<1>e. now + RefreshTtl \in 0..(MaxNow + RefreshTtl)
  BY <1>a, TtlAssumption
<1>f. ASSUME UNCHANGED <<session, token>>
      PROVE  RowsPersist
  BY <1>f DEF RowsPersist
<1>1. ASSUME NEW r \in Request, req' = [req EXCEPT ![w] = r],
             UNCHANGED <<now, session, token, endedBy, issuedLate>>,
             forked' \subseteq SessionIds, Shaped(w)', r.next = NoToken \/ r.next = req[w].next,
             ~(r.op = "rotate" /\ r.step = "session")
      PROVE  SessionTypes' /\ RowsPersist
  <2>1. RowsPersist
    BY <1>1, <1>f
  <2>2. /\ req' \in [Workers -> Request] /\ RequestShape'
        /\ req'[w] = r /\ \A v \in Workers \ {w} : req'[v] = req[v]
    BY <1>1, <2>1, RequestMove
  <2>3. \A t \in TokenIds : Exists(t)' => Exists(t)
    BY <1>1 DEF Exists
  <2>4. /\ req'[w].next = NoToken \/ req'[w].next = req[w].next
        /\ ~Busy(w, "rotate", "session")'
    BY <1>1, <2>2 DEF Busy
  <2>5. NextFresh'
    BY <2>1, <2>2, <2>3, <2>4, FreshKept
  <2>6. RowsExist'
    BY <1>1, <1>b DEF RowsExist, Exists
  <2>7. QED
    BY <1>1, <1>a, <2>1, <2>2, <2>5, <2>6 DEF SessionTypes, SessionTypeOK
<1>2. ASSUME NEW scope \in Scopes, CheckedLogin(w, scope)
      PROVE  SessionTypes' /\ RowsPersist
  <2> DEFINE r == [Served EXCEPT !.op = "login", !.step = "issue", !.scope = scope]
  <2>1. r \in Request /\ r.op = "login" /\ r.step = "issue" /\ r.next = NoToken
    BY <1>d DEF Request, Served
  <2>2. req' = [req EXCEPT ![w] = r]
        /\ UNCHANGED <<now, session, token, endedBy, forked, issuedLate>>
    BY <1>2 DEF CheckedLogin
  <2> HIDE DEF r
  <2>3. req'[w] = r
    BY <1>a, <2>2
  <2>4. Shaped(w)'
    BY <2>1, <2>3 DEF Shaped, Busy
  <2>5. QED
    BY <1>1, <1>a, <2>1, <2>2, <2>4
<1>3. ASSUME NEW s \in SessionIds, LogoutArrives(w, s)
      PROVE  SessionTypes' /\ RowsPersist
  <2> DEFINE r == [Served EXCEPT !.op = "revoke", !.step = "session",
                                 !.ids = {s}, !.why = "logout"]
  <2>1. r \in Request /\ r.op = "revoke" /\ r.step = "session" /\ r.next = NoToken
        /\ r.ids = {s} /\ r.why = "logout"
    BY <1>d DEF Request, Served
  <2>2. req' = [req EXCEPT ![w] = r]
        /\ UNCHANGED <<now, session, token, endedBy, forked, issuedLate>>
    BY <1>3 DEF LogoutArrives
  <2>3. session[s].scope # "none"
    BY <1>3 DEF LogoutArrives, Authenticated, TenantAuthenticated, PlatformAuthenticated
  <2> HIDE DEF r
  <2>4. req'[w] = r
    BY <1>a, <2>2
  <2>5. Shaped(w)'
    BY <2>1, <2>2, <2>3, <2>4 DEF Shaped, Busy
  <2>6. QED
    BY <1>1, <1>a, <2>1, <2>2, <2>5
<1>4. CASE CleanupList(w)
  <2> DEFINE open == {s \in SessionIds : session[s].scope = "POS" /\ session[s].isActive}
             r == [Served EXCEPT !.op = "revoke", !.step = "session",
                                 !.ids = open, !.why = "cleanup"]
  <2>1. r \in Request /\ r.op = "revoke" /\ r.step = "session" /\ r.next = NoToken
        /\ r.ids = open /\ r.why = "cleanup"
    BY <1>d DEF Request, Served
  <2>2. req' = [req EXCEPT ![w] = r]
        /\ UNCHANGED <<now, session, token, endedBy, forked, issuedLate>>
    BY <1>4 DEF CleanupList
  <2> HIDE DEF r
  <2>3. req'[w] = r
    BY <1>a, <2>2
  <2>4. Shaped(w)'
    BY <2>1, <2>2, <2>3 DEF Shaped, Busy
  <2>5. QED
    BY <1>1, <1>a, <2>1, <2>2, <2>4
<1>5. CASE DeletionArrives(w)
  <2> DEFINE r == [Served EXCEPT !.op = "revoke", !.step = "session", !.why = "deletion"]
  <2>1. r \in Request /\ r.op = "revoke" /\ r.step = "session" /\ r.next = NoToken
        /\ r.ids = {} /\ r.why = "deletion"
    BY <1>d DEF Request, Served
  <2>2. req' = [req EXCEPT ![w] = r]
        /\ UNCHANGED <<now, session, token, endedBy, forked, issuedLate>>
    BY <1>5 DEF DeletionArrives
  <2> HIDE DEF r
  <2>3. req'[w] = r
    BY <1>a, <2>2
  <2>4. Shaped(w)'
    BY <2>1, <2>3 DEF Shaped, Busy
  <2>5. QED
    BY <1>1, <1>a, <2>1, <2>2, <2>4
<1>6. CASE DeadlockBroken(w)
  <2> DEFINE r == [Served EXCEPT !.op = "failed", !.step = "answer"]
  <2>1. r \in Request /\ r.op = "failed" /\ r.step = "answer" /\ r.next = NoToken
    BY <1>d DEF Request, Served
  <2>2. req' = [req EXCEPT ![w] = r]
        /\ UNCHANGED <<now, session, token, endedBy, forked, issuedLate>>
    BY <1>6 DEF DeadlockBroken
  <2> HIDE DEF r
  <2>3. req'[w] = r
    BY <1>a, <2>2
  <2>4. Shaped(w)'
    BY <2>1, <2>3 DEF Shaped, Busy
  <2>5. QED
    BY <1>1, <1>a, <2>1, <2>2, <2>4
<1>7. CASE Finish(w) /\ UNCHANGED <<now, session, token, endedBy, forked, issuedLate>>
  <2>1. Served.op = "idle" /\ Served.step = "none" /\ Served.next = NoToken
    BY DEF Served
  <2>2. req' = [req EXCEPT ![w] = Served] /\ req'[w] = Served
    BY <1>7, <1>a DEF Finish
  <2>3. Shaped(w)'
    BY <2>1, <2>2 DEF Shaped, Busy
  <2>4. QED
    BY <1>1, <1>7, <1>a, <1>d, <2>1, <2>2, <2>3
<1>8. CASE store.token \in TokenIds /\ RefreshFind(w, store.token)
  <2> DEFINE t == store.token
             s == token[t].session
             op == IF Accepts(t) THEN "rotate" ELSE IF IsReuse(t) THEN "revoke" ELSE "rotate"
             step == IF Accepts(t) THEN "tokens" ELSE IF IsReuse(t) THEN "session" ELSE "answer"
             why == IF ~Accepts(t) /\ IsReuse(t) THEN "reuse" ELSE "none"
             late == endedBy[token[t].session] # "none"
             r == [Served EXCEPT !.op = op, !.step = step, !.why = why,
                                 !.ids = {token[t].session}, !.token = t, !.late = late]
  <2>1. t \in TokenIds /\ Exists(t)
    BY <1>8 DEF RefreshFind
  <2>2. s \in SessionIds /\ session[s].scope # "none"
    BY <1>a, <1>b, <2>1 DEF Exists, RowsExist
  <2>3. r \in Request
    <3>1. /\ op \in {"rotate", "revoke"} /\ step \in {"tokens", "session", "answer"}
          /\ why \in {"reuse", "none"} /\ late \in BOOLEAN
      OBVIOUS
    <3> HIDE DEF op, step, why, late
    <3>2. QED
      BY <1>d, <2>1, <2>2, <3>1 DEF Request, Served
  <2>4. /\ r.op \in {"rotate", "revoke"} /\ r.step \in {"tokens", "session", "answer"}
        /\ r.op = "revoke" => r.why = "reuse"
        /\ r.op = "rotate" => r.step # "session"
        /\ r.ids = {token[t].session} /\ r.token = t /\ r.next = NoToken
    BY DEF Served
  <2>5. req' = [req EXCEPT ![w] = r]
        /\ UNCHANGED <<now, session, token, endedBy, forked, issuedLate>>
    BY <1>8 DEF RefreshFind
  <2> HIDE DEF r
  <2>6. req'[w] = r
    BY <1>a, <2>5
  <2>7. Shaped(w)'
    BY <2>1, <2>2, <2>4, <2>5, <2>6 DEF Shaped, Busy, Exists
  <2>8. QED
    BY <1>1, <1>a, <2>3, <2>4, <2>5, <2>7
<1>9. CASE RevokeSessions(w)
  <2> DEFINE ids == IF req[w].why = "deletion" THEN ActiveOfTenant ELSE req[w].ids
             r == [req[w] EXCEPT !.step = "tokens", !.ids = ids]
  <2>1. ids \subseteq SessionIds /\ \A s \in ids : session[s].scope # "none"
    BY <1>9, <1>c DEF RevokeSessions, Busy, Shaped, Request, ActiveOfTenant, SessionsOfTenant
  <2> HIDE DEF ids
  <2>2. r \in Request
    BY <1>c, <2>1 DEF Request
  <2>3. /\ r.op = "revoke" /\ r.step = "tokens" /\ r.ids = ids /\ r.why = req[w].why
        /\ r.next = req[w].next
    BY <1>c, <1>9 DEF Request, RevokeSessions, Busy
  <2>4. req' = [req EXCEPT ![w] = r]
        /\ UNCHANGED <<now, session, token, endedBy, forked, issuedLate>>
    BY <1>9, <1>a DEF RevokeSessions, ids
  <2> HIDE DEF r
  <2>5. req'[w] = r
    BY <1>a, <2>4
  <2>6. Shaped(w)'
    BY <1>9, <1>c, <2>1, <2>3, <2>4, <2>5 DEF Shaped, Busy, RevokeSessions
  <2>7. QED
    BY <1>1, <1>a, <2>2, <2>3, <2>4, <2>6
<1>10. CASE RevokeCommit(w)
  <2> DEFINE r == [req[w] EXCEPT !.step = "answer", !.next = NoToken]
             ids == req[w].ids
             tokensOf == IF req[w].why = "deletion" THEN SessionsOfTenant ELSE ids
  <2>1. r \in Request /\ r.op = "revoke" /\ r.step = "answer" /\ r.ids = ids
        /\ r.why = req[w].why /\ r.next = NoToken
    BY <1>c, <1>10 DEF Request, RevokeCommit, Busy
  <2>2. /\ req' = [req EXCEPT ![w] = r] /\ session' = SessionsRevoked(ids)
        /\ token' = TokensRevoked(tokensOf) /\ endedBy' = Ended(ids, req[w].why)
        /\ UNCHANGED <<now, forked, issuedLate>>
    BY <1>10, <1>a DEF RevokeCommit
  <2> HIDE DEF r, ids, tokensOf
  <2>3. /\ session' \in [SessionIds -> [scope : Scopes \cup {"none"}, isActive : BOOLEAN,
                                        expiresAt : 0..(MaxNow + RefreshTtl)]]
        /\ \A s \in SessionIds : /\ session'[s].scope = session[s].scope
                                 /\ session'[s].isActive => session[s].isActive
    BY <1>a, <2>2 DEF SessionsRevoked
  <2>4. /\ token' \in [TokenIds -> [session : SessionIds \cup {NoSession}, revoked : BOOLEAN,
                                    expiresAt : 0..(MaxNow + RefreshTtl)]]
        /\ \A t \in TokenIds : token'[t].session = token[t].session
    BY <1>a, <2>2 DEF TokensRevoked
  <2>5. endedBy' \in [SessionIds -> {"none", "logout", "reuse", "cleanup", "deletion"}]
    BY <1>a, <1>c, <2>2 DEF Ended, Request
  <2>6. RowsPersist
    BY <2>3, <2>4 DEF RowsPersist
  <2>7. RowsExist'
    BY <1>a, <1>b, <2>3, <2>4 DEF RowsExist, Exists
  <2>8. req'[w] = r
    BY <1>a, <2>2
  <2>9. Shaped(w)'
    <3>1. ids \subseteq SessionIds /\ \A s \in ids : session[s].scope # "none"
      BY <1>c, <1>10 DEF Shaped, Busy, RevokeCommit, Request, ids
    <3>2. \A s \in ids : session'[s].scope # "none"
      BY <2>3, <3>1
    <3>3. req'[w].ids = ids /\ req'[w].why # "none" /\ req'[w].op = "revoke"
      BY <1>c, <1>10, <2>1, <2>8 DEF Shaped, Busy, RevokeCommit
    <3>4. QED
      BY <3>2, <3>3 DEF Shaped, Busy
  <2>10. /\ req' \in [Workers -> Request] /\ RequestShape'
         /\ \A v \in Workers \ {w} : req'[v] = req[v]
    BY <2>1, <2>2, <2>6, <2>9, RequestMove
  <2>11. NextFresh'
    <3>1. \A t \in TokenIds : Exists(t)' => Exists(t)
      BY <2>4 DEF Exists
    <3>2. req'[w].next = NoToken /\ ~Busy(w, "rotate", "session")'
      BY <2>1, <2>8 DEF Busy
    <3>3. QED
      BY <2>6, <2>10, <3>1, <3>2, FreshKept
  <2>12. QED
    BY <1>a, <2>2, <2>3, <2>4, <2>5, <2>6, <2>7, <2>10, <2>11 DEF SessionTypes, SessionTypeOK
<1>11. CASE LoginIssue(w)
  <2>1. PICK s \in FreshSessions, t \in FreshTokens :
          /\ session' = [session EXCEPT ![s] = [scope |-> req[w].scope, isActive |-> TRUE,
                                                expiresAt |-> now + RefreshTtl]]
          /\ token' = [token EXCEPT ![t] = [session |-> s, revoked |-> FALSE,
                                            expiresAt |-> now + RefreshTtl]]
          /\ req' = [req EXCEPT ![w].step = "answer", ![w].ids = {s}, ![w].next = t]
    BY <1>11 DEF LoginIssue
  <2> DEFINE r == [req[w] EXCEPT !.step = "answer", !.ids = {s}, !.next = t]
  <2>2. UNCHANGED <<now, endedBy, forked, issuedLate>> /\ req[w].op = "login"
    BY <1>11 DEF LoginIssue, Busy
  <2>3. /\ s \in SessionIds /\ session[s].scope = "none"
        /\ t \in TokenIds /\ ~Exists(t) /\ \A v \in Workers : req[v].next # t
    BY DEF FreshSessions, FreshTokens
  <2>4. r \in Request /\ r.op = "login" /\ r.step = "answer" /\ r.ids = {s} /\ r.next = t
    BY <1>c, <2>2, <2>3 DEF Request
  <2>5. req' = [req EXCEPT ![w] = r]
    BY <1>a, <2>1
  <2> HIDE DEF r
  <2>6. /\ session' \in [SessionIds -> [scope : Scopes \cup {"none"}, isActive : BOOLEAN,
                                        expiresAt : 0..(MaxNow + RefreshTtl)]]
        /\ session'[s].scope = req[w].scope /\ req[w].scope \in Scopes
        /\ \A x \in SessionIds \ {s} : session'[x] = session[x]
    BY <1>a, <1>c, <1>e, <2>1, <2>3 DEF Request
  <2>7. /\ token' \in [TokenIds -> [session : SessionIds \cup {NoSession}, revoked : BOOLEAN,
                                    expiresAt : 0..(MaxNow + RefreshTtl)]]
        /\ token'[t].session = s
        /\ \A x \in TokenIds \ {t} : token'[x] = token[x]
    BY <1>a, <1>e, <2>1, <2>3
  <2>8. RowsPersist
    BY <2>3, <2>6, <2>7 DEF RowsPersist
  <2>9. RowsExist'
    <3>1. session'[s].scope # "none"
      BY <2>6 DEF Scopes
    <3>2. QED
      BY <1>a, <1>b, <2>3, <2>6, <2>7, <3>1 DEF RowsExist, Exists
  <2>10. req'[w] = r
    BY <1>a, <2>5
  <2>11. Shaped(w)'
    BY <2>3, <2>4, <2>10 DEF Shaped, Busy
  <2>12. /\ req' \in [Workers -> Request] /\ RequestShape'
         /\ \A v \in Workers \ {w} : req'[v] = req[v]
    BY <2>4, <2>5, <2>8, <2>11, RequestMove
  <2>13. NextFresh'
    <3>1. ASSUME NEW v \in Workers, Busy(v, "rotate", "session")'
          PROVE  ~Exists(req[v].next)'
      <4>1. v # w /\ Busy(v, "rotate", "session") /\ req'[v] = req[v]
        BY <2>4, <2>10, <2>12, <3>1 DEF Busy
      <4>2. req[v].next \in TokenIds \ {t} /\ ~Exists(req[v].next)
        BY <1>b, <2>3, <4>1 DEF RequestShape, Shaped, NextFresh
      <4>3. QED
        BY <2>7, <4>1, <4>2 DEF Exists
    <3>2. ASSUME NEW v \in Workers, NEW u \in Workers, req'[v].next # NoToken,
                 req'[u].next = req'[v].next
          PROVE  u = v
      BY <1>b, <2>3, <2>4, <2>10, <2>12, <3>2 DEF NextFresh
    <3>3. QED
      BY <3>1, <3>2 DEF NextFresh
  <2>14. QED
    BY <1>a, <2>2, <2>6, <2>7, <2>8, <2>9, <2>12, <2>13 DEF SessionTypes, SessionTypeOK
<1>12. CASE RotateTokens(w)
  <2>1. PICK n \in FreshTokens : req' = [req EXCEPT ![w].step = "session", ![w].next = n]
    BY <1>12 DEF RotateTokens
  <2> DEFINE r == [req[w] EXCEPT !.step = "session", !.next = n]
  <2>2. n \in TokenIds /\ ~Exists(n) /\ \A v \in Workers : req[v].next # n
    BY DEF FreshTokens
  <2>3. /\ r \in Request /\ r.op = "rotate" /\ r.step = "session" /\ r.next = n
        /\ r.token = req[w].token /\ r.ids = req[w].ids
    BY <1>c, <1>12, <2>2 DEF Request, RotateTokens, Busy
  <2>4. req' = [req EXCEPT ![w] = r] /\ UNCHANGED <<now, session, token, endedBy, issuedLate>>
    BY <1>a, <1>12, <2>1 DEF RotateTokens
  <2>5. forked' \subseteq SessionIds
    BY <1>a, <1>c, <1>12 DEF RotateTokens, Request
  <2> HIDE DEF r
  <2>6. req'[w] = r
    BY <1>a, <2>4
  <2>7. Shaped(w)'
    BY <1>c, <1>12, <2>2, <2>3, <2>4, <2>6 DEF Shaped, Busy, Exists, RotateTokens
  <2>8. RowsPersist
    BY <1>f, <2>4
  <2>9. /\ req' \in [Workers -> Request] /\ RequestShape'
        /\ \A v \in Workers \ {w} : req'[v] = req[v]
    BY <2>3, <2>4, <2>7, <2>8, RequestMove
  <2>10. NextFresh'
    <3>1. ASSUME NEW v \in Workers, Busy(v, "rotate", "session")'
          PROVE  ~Exists(req[v].next)'
      <4>1. CASE v = w
        BY <2>2, <2>3, <2>4, <2>6, <4>1 DEF Exists
      <4>2. CASE v # w
        BY <1>b, <2>4, <2>9, <3>1, <4>2 DEF Exists, NextFresh, Busy
      <4>3. QED
        BY <4>1, <4>2
    <3>2. ASSUME NEW v \in Workers, NEW u \in Workers, req'[v].next # NoToken,
                 req'[u].next = req'[v].next
          PROVE  u = v
      BY <1>b, <2>2, <2>3, <2>6, <2>9, <3>2 DEF NextFresh
    <3>3. QED
      BY <3>1, <3>2 DEF NextFresh
  <2>11. RowsExist'
    BY <1>b, <2>4 DEF RowsExist, Exists
  <2>12. QED
    BY <1>a, <2>4, <2>5, <2>8, <2>9, <2>10, <2>11 DEF SessionTypes, SessionTypeOK
<1>13. CASE RotateCommit(w)
  <2> DEFINE t == req[w].token
             n == req[w].next
             s == token[t].session
             r == [req[w] EXCEPT !.step = "answer"]
  <2>1. /\ t \in TokenIds /\ Exists(t) /\ req[w].ids = {s}
        /\ n \in TokenIds /\ ~Exists(n) /\ req[w].op = "rotate"
    BY <1>b, <1>c, <1>13 DEF RotateCommit, Shaped, NextFresh, Busy
  <2>2. s \in SessionIds
    BY <1>a, <2>1 DEF Exists
  <2>3. /\ token' = [token EXCEPT ![t].revoked = TRUE,
                       ![n] = [session |-> s, revoked |-> FALSE, expiresAt |-> now + RefreshTtl]]
        /\ session' = [session EXCEPT ![s].expiresAt = now + RefreshTtl]
        /\ issuedLate' \subseteq SessionIds
        /\ UNCHANGED <<now, endedBy, forked>>
    BY <1>a, <1>13, <2>2 DEF RotateCommit, Rotated
  <2>4. /\ r \in Request /\ r.op = "rotate" /\ r.step = "answer" /\ r.next = n
        /\ r.token = t /\ r.ids = req[w].ids
    BY <1>c, <2>1 DEF Request
  <2>5. req' = [req EXCEPT ![w] = r]
    BY <1>a, <1>13 DEF RotateCommit
  <2> HIDE DEF t, n, s, r
  <2>6. /\ session' \in [SessionIds -> [scope : Scopes \cup {"none"}, isActive : BOOLEAN,
                                        expiresAt : 0..(MaxNow + RefreshTtl)]]
        /\ \A x \in SessionIds : /\ session'[x].scope = session[x].scope
                                 /\ session'[x].isActive = session[x].isActive
    BY <1>a, <1>e, <2>2, <2>3
  <2>7. /\ token' \in [TokenIds -> [session : SessionIds \cup {NoSession}, revoked : BOOLEAN,
                                    expiresAt : 0..(MaxNow + RefreshTtl)]]
        /\ token'[n].session = s
        /\ \A x \in TokenIds \ {n} : token'[x].session = token[x].session
    BY <1>a, <1>e, <2>1, <2>2, <2>3
  <2>8. RowsPersist
    BY <2>1, <2>6, <2>7 DEF RowsPersist
  <2>9. RowsExist'
    <3>1. session[s].scope # "none"
      BY <1>b, <2>1 DEF RowsExist, s
    <3>2. QED
      BY <1>a, <1>b, <2>2, <2>6, <2>7, <3>1 DEF RowsExist, Exists
  <2>10. req'[w] = r
    BY <1>a, <2>5
  <2>11. Shaped(w)'
    <3>1. token'[t].session = s /\ s # NoSession
      BY <2>1, <2>8 DEF RowsPersist, Exists, s
    <3>2. QED
      BY <2>1, <2>4, <2>10, <3>1 DEF Shaped, Busy, Exists
  <2>12. /\ req' \in [Workers -> Request] /\ RequestShape'
         /\ \A v \in Workers \ {w} : req'[v] = req[v]
    BY <2>4, <2>5, <2>8, <2>11, RequestMove
  <2>13. NextFresh'
    <3>1. ASSUME NEW v \in Workers, Busy(v, "rotate", "session")'
          PROVE  ~Exists(req[v].next)'
      <4>1. v # w /\ Busy(v, "rotate", "session") /\ req'[v] = req[v]
        BY <2>4, <2>10, <2>12, <3>1 DEF Busy
      <4>2. req[v].next \in TokenIds /\ ~Exists(req[v].next)
        BY <1>b, <4>1 DEF RequestShape, Shaped, NextFresh
      <4>3. req[v].next # n
        BY <1>b, <2>1, <4>1, <4>2, NoTokenAssumption DEF NextFresh, n
      <4>4. QED
        BY <2>7, <4>1, <4>2, <4>3 DEF Exists
    <3>2. ASSUME NEW v \in Workers, NEW u \in Workers, req'[v].next # NoToken,
                 req'[u].next = req'[v].next
          PROVE  u = v
      BY <1>b, <2>4, <2>10, <2>12, <3>2 DEF NextFresh, n
    <3>3. QED
      BY <3>1, <3>2 DEF NextFresh
  <2>14. QED
    BY <1>a, <2>3, <2>6, <2>7, <2>8, <2>9, <2>12, <2>13 DEF SessionTypes, SessionTypeOK
<1>14. QED
  BY <1>2, <1>3, <1>4, <1>5, <1>6, <1>7, <1>8, <1>9, <1>10, <1>11, <1>12, <1>13
     DEF SessionMove

-----------------------------------------------------------------------------
(* The types of the client *)

\* The steps of the server and of other clients.
ServerMove(w) == Others(w) \/ Server(w) \/ Deletion(w) \/ DeletionFails(w)

\* Whoever waits for a worker finds it serving the same operation, or failed.
LEMMA ServerOps ==
  ASSUME Types, NEW w \in Workers, ServerMove(w)
  PROVE  /\ UNCHANGED clientVars
         /\ \A v \in Workers : req[v].op # "idle" /\ Awaited(v) =>
              \/ req'[v].op = req[v].op
              \/ req[v].op \in {"revoke", "rotate"} /\ req'[v].op = "failed"
<1>a. req \in [Workers -> Request]
  BY DEF Types, SessionTypes, SessionTypeOK
<1>b. Served.op = "idle"
  BY DEF Served
<1> DEFINE Ok == \A v \in Workers : req[v].op # "idle" /\ Awaited(v) =>
                   \/ req'[v].op = req[v].op
                   \/ req[v].op \in {"revoke", "rotate"} /\ req'[v].op = "failed"
<1>1. CASE Others(w)
  <2>1. /\ UNCHANGED clientVars /\ req[w] = Served
        /\ \/ UNCHANGED sessionVars
           \/ DeletionArrives(w) \/ CleanupList(w)
    BY <1>1 DEF Others, Idle
  <2>2. \A v \in Workers \ {w} : req'[v] = req[v]
    BY <1>a, <2>1 DEF sessionVars, DeletionArrives, CleanupList
  <2>3. QED
    BY <1>b, <2>1, <2>2
<1>2. ASSUME SessionStep(w) \/ RevokeCommit(w) \/ RevokeSessions(w) \/ DeadlockBroken(w)
      PROVE  Ok
  <2>1. CASE LoginIssue(w)
    BY <1>a, <2>1 DEF LoginIssue, Request
  <2>2. CASE RotateTokens(w) \/ RotateCommit(w)
    BY <1>a, <2>2 DEF RotateTokens, RotateCommit, Request
  <2>3. CASE RevokeSessions(w) \/ RevokeCommit(w)
    BY <1>a, <2>3 DEF RevokeSessions, RevokeCommit, Request
  <2>4. CASE DeadlockBroken(w)
    <3>1. req[w].op \in {"revoke", "rotate"}
      BY <2>4 DEF DeadlockBroken, WaitsFor, Busy
    <3>2. req'[w].op = "failed" /\ \A v \in Workers \ {w} : req'[v] = req[v]
      BY <1>a, <2>4 DEF DeadlockBroken, Served
    <3>3. QED
      BY <3>1, <3>2
  <2>5. QED
    BY <1>2, <2>1, <2>2, <2>3, <2>4 DEF SessionStep
<1>3. CASE Server(w)
  <2>1. UNCHANGED clientVars
    BY <1>3 DEF Server
  <2>2. CASE UNCHANGED sessionVars
    BY <2>1, <2>2 DEF sessionVars
  <2>3. CASE SessionStep(w)
    BY <1>2, <2>1, <2>3
  <2>4. CASE ~Awaited(w) /\ Answered(w)
    <3>1. \A v \in Workers \ {w} : req'[v] = req[v]
      BY <1>a, <2>4 DEF Answered, Finish
    <3>2. QED
      BY <2>1, <2>4, <3>1
  <2>5. QED
    BY <1>3, <2>2, <2>3, <2>4 DEF Server
<1>4. CASE Deletion(w)
  BY <1>2, <1>4 DEF Deletion
<1>5. CASE DeletionFails(w)
  <2>1. DeadlockBroken(w) /\ UNCHANGED clientVars
    BY <1>5 DEF DeletionFails, clientVars
  <2>2. QED
    BY <1>2, <2>1
<1>6. QED
  BY <1>1, <1>3, <1>4, <1>5 DEF ServerMove

\* The steps of the client that no worker begins to serve.
CallMove(c) ==
  \/ \E kind \in {"request", "logout"} : Send(c, kind)
  \/ Deny(c) \/ ServeRequest(c) \/ Join(c) \/ Rejected(c)
  \/ LoggedOut(c) \/ LoggedIn(c) \/ CallLost(c)

ClientMove ==
  \/ \E c \in Calls : CallMove(c)
  \/ Refreshed \/ RefreshRefused \/ RefreshLost \/ Reload

\* The steps by which the client is given a worker.
WorkerTaken(c, w) ==
  \/ ServeLogout(c, w) \/ StartRefresh(c, w)
  \/ \E scope \in Offered : StartLogin(c, w, scope)

LEMMA NextMoves ==
  ASSUME [Next]_vars
  PROVE  \/ UNCHANGED vars
         \/ Environment
         \/ \E w \in Workers : ServerMove(w)
         \/ ClientMove
         \/ \E c \in Calls, w \in Workers : WorkerTaken(c, w)
BY DEF Next, ServerMove, ClientMove, CallMove, WorkerTaken

\* A call that is sent again with another token is still a call.
LEMMA SentAgain ==
  ASSUME NEW r \in Call, NEW b \in SessionIds \cup {NoSession}, NEW u \in 0..(MaxNow + AccessTtl)
  PROVE  [r EXCEPT !.step = "sent", !.again = TRUE, !.bearer = b, !.until = u] \in Call
  BY DEF Call

\* A session record of the store for the token that a worker has issued.
LEMMA TokensTyped ==
  ASSUME Types, NEW w \in Workers, req[w].next \in TokenIds
  PROVE  /\ Tokens(w) \in [session : SessionIds \cup {NoSession}, token : TokenIds \cup {NoToken},
                           until : 0..(MaxNow + AccessTtl)]
         /\ Tokens(w).session \in SessionIds \cup {NoSession}
         /\ Tokens(w).until \in 0..(MaxNow + AccessTtl)
<1>1. now \in 0..MaxNow /\ token[req[w].next].session \in SessionIds \cup {NoSession}
  BY DEF Types, SessionTypes, SessionTypeOK
<1>2. now + AccessTtl \in 0..(MaxNow + AccessTtl)
  BY <1>1, ClientAssumption, TtlAssumption
<1>3. QED
  BY <1>1, <1>2 DEF Tokens

\* The record of a call, the store and the bounds keep their types.
LEMMA ClientTypes ==
  ASSUME Types, ClientMove
  PROVE  ClientTypeOK'
<1>a. /\ store \in [session : SessionIds \cup {NoSession}, token : TokenIds \cup {NoToken},
                    until : 0..(MaxNow + AccessTtl)]
      /\ call \in [Calls -> Call]
      /\ flight \in Workers \cup {NoWorker}
      /\ logins \in 0..MaxLogins /\ losses \in 0..MaxLosses /\ replayed \subseteq SessionIds
  BY DEF Types, ClientTypeOK
<1>b. NoCall \in Call
  BY ClientAssumption, TtlAssumption DEF NoCall, Call
<1>c. Empty \in [session : SessionIds \cup {NoSession}, token : TokenIds \cup {NoToken},
                 until : 0..(MaxNow + AccessTtl)]
  BY ClientAssumption, TtlAssumption DEF Empty
<1>d. ASSUME NEW cs \in SUBSET Calls, NEW kept,
             kept \in [session : SessionIds \cup {NoSession}, token : TokenIds \cup {NoToken},
                       until : 0..(MaxNow + AccessTtl)], Settle(cs, kept)
      PROVE  /\ call' \in [Calls -> Call]
             /\ store' \in [session : SessionIds \cup {NoSession}, token : TokenIds \cup {NoToken},
                            until : 0..(MaxNow + AccessTtl)]
  BY <1>a, <1>b, <1>c, <1>d DEF Settle
<1>e. WaitingCalls \in SUBSET Calls
  BY DEF WaitingCalls
<1>f. FlightOf \subseteq SessionIds
  BY <1>a DEF FlightOf, Types, SessionTypes, SessionTypeOK, Request
<1>1. ASSUME NEW c \in Calls, NEW kind \in {"request", "logout"}, Send(c, kind)
      PROVE  ClientTypeOK'
  <2>1. Execute([NoCall EXCEPT !.kind = kind], FALSE) \in Call
    BY <1>a, <1>b DEF Execute, NoCall, Call
  <2>2. QED
    BY <1>1, <1>a, <2>1 DEF Send, ClientTypeOK
<1>2. ASSUME NEW c \in Calls, Deny(c) \/ ServeRequest(c) \/ Join(c)
      PROVE  ClientTypeOK'
  <2>1. call' \in [Calls -> Call]
    BY <1>2, <1>a, <1>b DEF Deny, ServeRequest, Join, Call
  <2>2. UNCHANGED <<store, flight, logins, losses, replayed>>
    BY <1>2 DEF Deny, ServeRequest, Join
  <2>3. QED
    BY <1>a, <2>1, <2>2 DEF ClientTypeOK
<1>3. ASSUME NEW c \in Calls, Rejected(c) \/ LoggedOut(c) \/ CallLost(c)
      PROVE  ClientTypeOK'
  <2>1. Settle({c}, store) /\ UNCHANGED <<flight, logins, replayed>>
    BY <1>3 DEF Rejected, LoggedOut, CallLost
  <2>2. losses' \in 0..MaxLosses
    BY <1>3, <1>a, ClientAssumption DEF Rejected, LoggedOut, CallLost
  <2>3. QED
    BY <1>a, <1>d, <2>1, <2>2 DEF ClientTypeOK
<1>4. ASSUME NEW c \in Calls, LoggedIn(c)
      PROVE  ClientTypeOK'
  <2>1. call[c].worker \in Workers /\ Busy(call[c].worker, "login", "answer")
    BY <1>4 DEF LoggedIn, Types, WorkersApart, Busy
  <2>2. req[call[c].worker].next \in TokenIds
    BY <2>1 DEF Types, SessionTypes, RequestShape, Shaped
  <2>3. store' = Tokens(call[c].worker) /\ call' = [call EXCEPT ![c] = NoCall]
        /\ UNCHANGED <<flight, logins, losses, replayed>>
    BY <1>4 DEF LoggedIn
  <2>4. QED
    BY <1>a, <1>b, <2>1, <2>2, <2>3, TokensTyped DEF ClientTypeOK
<1>5. CASE Refreshed
  <2>1. flight \in Workers /\ req[flight].next \in TokenIds
    BY <1>5, <1>a DEF Refreshed, Types, SessionTypes, SessionTypeOK, Request
  <2> DEFINE again(c) == [call[c] EXCEPT !.step = "sent", !.again = TRUE,
                            !.bearer = Tokens(flight).session, !.until = Tokens(flight).until]
  <2>s. /\ Tokens(flight).session \in SessionIds \cup {NoSession}
        /\ Tokens(flight).until \in 0..MaxNow + AccessTtl
    BY <1>a, <2>1, TokensTyped
  <2>2. \A c \in Calls : again(c) \in Call
    BY <1>a, <2>s, SentAgain
  <2>3. /\ store' = Tokens(flight) /\ flight' = NoWorker /\ UNCHANGED <<logins, losses, replayed>>
        /\ call' = [c \in Calls |-> IF c \in WaitingCalls THEN again(c) ELSE call[c]]
    BY <1>5 DEF Refreshed
  <2> HIDE DEF again
  <2>4. QED
    BY <1>a, <2>1, <2>2, <2>3, TokensTyped DEF ClientTypeOK
<1>6. CASE RefreshRefused
  <2>1. Settle(WaitingCalls, Empty) /\ flight' = NoWorker /\ UNCHANGED <<logins, losses, replayed>>
    BY <1>6 DEF RefreshRefused
  <2>2. QED
    BY <1>a, <1>c, <1>d, <1>e, <2>1 DEF ClientTypeOK
<1>7. CASE RefreshLost
  <2>1. Settle(WaitingCalls, store) /\ flight' = NoWorker /\ UNCHANGED logins
        /\ replayed' = replayed \cup FlightOf
    BY <1>7 DEF RefreshLost
  <2>2. losses' \in 0..MaxLosses
    BY <1>7, <1>a, ClientAssumption DEF RefreshLost
  <2>3. QED
    BY <1>a, <1>d, <1>e, <1>f, <2>1, <2>2 DEF ClientTypeOK
<1>8. CASE Reload
  <2>1. losses' \in 0..MaxLosses
    BY <1>8, <1>a, ClientAssumption DEF Reload
  <2>2. QED
    BY <1>8, <1>a, <1>b, <1>f, <2>1 DEF Reload, ClientTypeOK
<1>9. QED
  BY <1>1, <1>2, <1>3, <1>4, <1>5, <1>6, <1>7, <1>8 DEF ClientMove, CallMove

LEMMA TakenTypes ==
  ASSUME Types, NEW c \in Calls, NEW w \in Workers, WorkerTaken(c, w)
  PROVE  ClientTypeOK'
<1>a. /\ call \in [Calls -> Call] /\ logins \in 0..MaxLogins
  BY DEF Types, ClientTypeOK
<1>1. CASE ServeLogout(c, w) \/ StartRefresh(c, w)
  <2>1. call' \in [Calls -> Call]
    BY <1>1, <1>a DEF ServeLogout, StartRefresh, Call
  <2>2. flight' \in Workers \cup {NoWorker} /\ UNCHANGED <<store, logins, losses, replayed>>
    BY <1>1 DEF ServeLogout, StartRefresh, Types, ClientTypeOK
  <2>3. QED
    BY <2>1, <2>2 DEF Types, ClientTypeOK
<1>2. ASSUME NEW scope \in Offered, StartLogin(c, w, scope)
      PROVE  ClientTypeOK'
  <2>a. NoCall \in Call
    BY ClientAssumption, TtlAssumption DEF NoCall, Call
  <2>1. [NoCall EXCEPT !.kind = "login", !.step = "working", !.worker = w] \in Call
    BY <2>a DEF NoCall, Call
  <2>2. call' \in [Calls -> Call] /\ logins' \in 0..MaxLogins
    BY <1>2, <1>a, <2>1, ClientAssumption DEF StartLogin
  <2>3. UNCHANGED <<store, flight, losses, replayed>>
    BY <1>2 DEF StartLogin
  <2>4. QED
    BY <2>2, <2>3 DEF Types, ClientTypeOK
<1>3. QED
  BY <1>1, <1>2 DEF WorkerTaken

\* The calls that wait for a worker go on waiting, and find it at their operation.
LEMMA ApartKept ==
  ASSUME Types, flight' = flight \/ flight' = NoWorker,
         flight' # NoWorker => req'[flight].op # "idle",
         \A c \in Calls : call'[c].step = "working" => call'[c] = call[c],
         \A c \in Calls : call'[c].step = "working" =>
           \/ req'[call[c].worker].op = req[call[c].worker].op
           \/ req[call[c].worker].op # "login" /\ req'[call[c].worker].op = "failed"
  PROVE  WorkersApart'
<1>1. WorkersApart
  BY DEF Types
<1>2. ASSUME NEW c \in Calls, call'[c].step = "working"
      PROVE  /\ call'[c].worker \in Workers \ {flight'}
             /\ call'[c].kind = "login" => req'[call'[c].worker].op = "login"
             /\ call'[c].kind # "login" => req'[call'[c].worker].op \in {"revoke", "failed"}
             /\ \A d \in Calls :
                  call'[d].step = "working" /\ call'[d].worker = call'[c].worker => d = c
  <2>1. call'[c] = call[c] /\ call[c].step = "working"
    BY <1>2
  <2>2. call'[c].worker \in Workers \ {flight'}
    BY <1>1, <2>1, NoWorkerAssumption DEF WorkersApart
  <2>3. /\ call'[c].kind = "login" => req'[call'[c].worker].op = "login"
        /\ call'[c].kind # "login" => req'[call'[c].worker].op \in {"revoke", "failed"}
    BY <1>1, <1>2, <2>1 DEF WorkersApart
  <2>4. ASSUME NEW d \in Calls, call'[d].step = "working", call'[d].worker = call'[c].worker
        PROVE  d = c
    BY <1>1, <2>1, <2>4 DEF WorkersApart
  <2>5. QED
    BY <2>2, <2>3, <2>4
<1>3. QED
  BY <1>2 DEF WorkersApart

LEMMA ServerApart ==
  ASSUME Types, NEW w \in Workers, ServerMove(w)
  PROVE  WorkersApart'
<1>1. /\ flight' = flight /\ call' = call
      /\ \A v \in Workers : req[v].op # "idle" /\ Awaited(v) =>
           \/ req'[v].op = req[v].op
           \/ req[v].op \in {"revoke", "rotate"} /\ req'[v].op = "failed"
  BY ServerOps DEF clientVars
<1>2. flight \in Workers \cup {NoWorker} /\ WorkersApart
  BY DEF Types, ClientTypeOK
<1>3. flight # NoWorker => req'[flight].op # "idle"
  BY <1>1, <1>2 DEF Awaited, WorkersApart
<1>4. ASSUME NEW c \in Calls, call[c].step = "working"
      PROVE  \/ req'[call[c].worker].op = req[call[c].worker].op
             \/ req[call[c].worker].op # "login" /\ req'[call[c].worker].op = "failed"
  <2>1. call[c].worker \in Workers /\ req[call[c].worker].op \in {"login", "revoke", "failed"}
    BY <1>2, <1>4 DEF WorkersApart
  <2>2. Awaited(call[c].worker)
    BY DEF Awaited
  <2>3. QED
    BY <1>1, <2>1, <2>2
<1>5. QED
  BY <1>1, <1>3, <1>4, ApartKept

\* A call or the refresh ends: nobody else has waited for its worker.
LEMMA ClientApart ==
  ASSUME Types, ClientMove
  PROVE  WorkersApart'
<1>a. /\ flight \in Workers \cup {NoWorker} /\ call \in [Calls -> Call] /\ WorkersApart
      /\ req \in [Workers -> Request]
  BY DEF Types, ClientTypeOK, SessionTypes, SessionTypeOK
<1>b. NoCall.step = "idle"
  BY DEF NoCall
<1>1. ASSUME UNCHANGED sessionVars, flight' = flight \/ flight' = NoWorker,
             \A c \in Calls : call'[c].step = "working" => call'[c] = call[c]
      PROVE  WorkersApart'
  <2>1. req' = req
    BY <1>1 DEF sessionVars
  <2>2. flight' # NoWorker => req'[flight].op # "idle"
    BY <1>1, <1>a, <2>1 DEF WorkersApart
  <2>3. QED
    BY <1>1, <2>1, <2>2, ApartKept
<1>2. ASSUME NEW cs \in SUBSET Calls, NEW kept, Settle(cs, kept)
      PROVE  \A c \in Calls : call'[c].step = "working" => call'[c] = call[c] /\ c \notin cs
  BY <1>2, <1>b DEF Settle
<1>3. ASSUME NEW c \in Calls, NEW kind \in {"request", "logout"}, Send(c, kind)
      PROVE  WorkersApart'
  <2>1. Execute([NoCall EXCEPT !.kind = kind], FALSE).step = "sent"
    BY DEF Execute, NoCall
  <2>2. \A d \in Calls : call'[d].step = "working" => call'[d] = call[d]
    BY <1>3, <1>a, <2>1 DEF Send
  <2>3. QED
    BY <1>1, <1>3, <2>2 DEF Send
<1>4. ASSUME NEW c \in Calls, Deny(c) \/ ServeRequest(c) \/ Join(c)
      PROVE  WorkersApart'
  <2>1. \A d \in Calls : call'[d].step = "working" => call'[d] = call[d]
    BY <1>4, <1>a, <1>b DEF Deny, ServeRequest, Join, Call
  <2>2. QED
    BY <1>1, <1>4, <2>1 DEF Deny, ServeRequest, Join
<1>5. ASSUME NEW c \in Calls, Rejected(c) \/ CallLost(c)
      PROVE  WorkersApart'
  <2>1. Settle({c}, store) /\ UNCHANGED sessionVars /\ flight' = flight
    BY <1>5 DEF Rejected, CallLost
  <2>2. QED
    BY <1>1, <1>2, <2>1
<1>6. ASSUME NEW c \in Calls, call[c].step = "working", Finish(call[c].worker), flight' = flight,
             \A d \in Calls : call'[d].step = "working" => call'[d] = call[d] /\ d # c
      PROVE  WorkersApart'
  <2>1. /\ call[c].worker \in Workers \ {flight}
        /\ \A d \in Calls \ {c} : call[d].step = "working" =>
             call[d].worker \in Workers \ {call[c].worker}
    BY <1>6, <1>a DEF WorkersApart
  <2>2. \A v \in Workers \ {call[c].worker} : req'[v] = req[v]
    BY <1>6, <1>a DEF Finish
  <2>3. flight' # NoWorker => req'[flight].op # "idle"
    BY <1>6, <1>a, <2>1, <2>2 DEF WorkersApart
  <2>4. \A d \in Calls : call'[d].step = "working" =>
          req'[call[d].worker].op = req[call[d].worker].op
    BY <1>6, <2>1, <2>2
  <2>5. QED
    BY <1>6, <2>3, <2>4, ApartKept
<1>7. ASSUME NEW c \in Calls, LoggedOut(c)
      PROVE  WorkersApart'
  <2>1. Settle({c}, store) /\ flight' = flight /\ Finish(call[c].worker)
        /\ call[c].step = "working"
    BY <1>7 DEF LoggedOut
  <2>2. \A d \in Calls : call'[d].step = "working" => call'[d] = call[d] /\ d # c
    BY <1>2, <2>1
  <2>3. QED
    BY <1>6, <2>1, <2>2
<1>8. ASSUME NEW c \in Calls, LoggedIn(c)
      PROVE  WorkersApart'
  <2>1. call' = [call EXCEPT ![c] = NoCall] /\ flight' = flight /\ Finish(call[c].worker)
        /\ call[c].step = "working"
    BY <1>8 DEF LoggedIn
  <2>2. \A d \in Calls : call'[d].step = "working" => call'[d] = call[d] /\ d # c
    BY <1>a, <1>b, <2>1
  <2>3. QED
    BY <1>6, <2>1, <2>2
<1>9. ASSUME flight # NoWorker, Finish(flight), flight' = NoWorker,
             \A c \in Calls : call'[c].step = "working" => call'[c] = call[c]
      PROVE  WorkersApart'
  <2>1. \A v \in Workers \ {flight} : req'[v] = req[v]
    BY <1>9, <1>a DEF Finish
  <2>2. \A c \in Calls : call'[c].step = "working" =>
          req'[call[c].worker].op = req[call[c].worker].op
    BY <1>9, <1>a, <2>1 DEF WorkersApart
  <2>3. QED
    BY <1>9, <2>2, ApartKept
<1>10. CASE Refreshed
  <2> DEFINE again(c) == [call[c] EXCEPT !.step = "sent", !.again = TRUE,
                            !.bearer = Tokens(flight).session, !.until = Tokens(flight).until]
  <2>1. /\ flight # NoWorker /\ Finish(flight) /\ flight' = NoWorker
        /\ call' = [c \in Calls |-> IF c \in WaitingCalls THEN again(c) ELSE call[c]]
    BY <1>10 DEF Refreshed
  <2>2. \A c \in Calls : again(c).step = "sent"
    BY <1>a DEF Call
  <2> HIDE DEF again
  <2>3. \A c \in Calls : call'[c].step = "working" => call'[c] = call[c]
    BY <2>1, <2>2
  <2>4. QED
    BY <1>9, <2>1, <2>3
<1>11. CASE RefreshRefused
  <2>1. /\ flight # NoWorker /\ Finish(flight) /\ flight' = NoWorker
        /\ Settle(WaitingCalls, Empty) /\ WaitingCalls \in SUBSET Calls
    BY <1>11 DEF RefreshRefused, WaitingCalls
  <2>2. QED
    BY <1>2, <1>9, <2>1
<1>12. CASE RefreshLost
  <2>1. /\ flight' = NoWorker /\ UNCHANGED sessionVars
        /\ Settle(WaitingCalls, store) /\ WaitingCalls \in SUBSET Calls
    BY <1>12 DEF RefreshLost, WaitingCalls
  <2>2. QED
    BY <1>1, <1>2, <2>1
<1>13. CASE Reload
  <2>1. flight' = NoWorker /\ UNCHANGED sessionVars /\ call' = [c \in Calls |-> NoCall]
    BY <1>13 DEF Reload
  <2>2. QED
    BY <1>1, <1>b, <2>1
<1>14. QED
  BY <1>3, <1>4, <1>5, <1>7, <1>8, <1>10, <1>11, <1>12, <1>13 DEF ClientMove, CallMove

\* The worker that the client is given is idle: nobody waits for it.
LEMMA TakenApart ==
  ASSUME Types, NEW c \in Calls, NEW w \in Workers, WorkerTaken(c, w)
  PROVE  WorkersApart'
<1>a. /\ flight \in Workers \cup {NoWorker} /\ call \in [Calls -> Call] /\ WorkersApart
      /\ req \in [Workers -> Request]
  BY DEF Types, ClientTypeOK, SessionTypes, SessionTypeOK
<1>b. /\ req[w].op = "idle" /\ call[c].step # "working"
      /\ \A v \in Workers \ {w} : req'[v] = req[v]
  BY <1>a DEF WorkerTaken, ServeLogout, StartRefresh, StartLogin, Idle, Served,
              LogoutArrives, RefreshFind, Login, StaffLogin, PlatformLogin, CheckedLogin
<1>c. flight # w /\ \A d \in Calls : call[d].step = "working" => call[d].worker \in Workers \ {w}
  BY <1>a, <1>b, NoWorkerAssumption DEF WorkersApart
<1>1. ASSUME flight' = flight, call'[c].worker = w,
             \/ call'[c].kind = "logout" /\ req'[w].op = "revoke"
             \/ call'[c].kind = "login" /\ req'[w].op = "login",
             \A d \in Calls \ {c} : call'[d] = call[d]
      PROVE  WorkersApart'
  <2>1. flight' # NoWorker => req'[flight'].op # "idle"
    BY <1>1, <1>a, <1>b, <1>c DEF WorkersApart
  <2>2. ASSUME NEW d \in Calls, call'[d].step = "working"
        PROVE  /\ call'[d].worker \in Workers \ {flight'}
               /\ call'[d].kind = "login" => req'[call'[d].worker].op = "login"
               /\ call'[d].kind # "login" => req'[call'[d].worker].op \in {"revoke", "failed"}
               /\ \A e \in Calls :
                    call'[e].step = "working" /\ call'[e].worker = call'[d].worker => e = d
    <3>1. CASE d = c
      BY <1>1, <1>c, <3>1
    <3>2. CASE d # c
      <4>1. call'[d] = call[d] /\ call[d].worker \in Workers \ {w}
            /\ req'[call[d].worker] = req[call[d].worker]
        BY <1>1, <1>b, <1>c, <2>2, <3>2
      <4>2. \A e \in Calls :
              call'[e].step = "working" /\ call'[e].worker = call'[d].worker => e = d
        BY <1>1, <1>a, <2>2, <3>2, <4>1 DEF WorkersApart
      <4>3. QED
        BY <1>1, <1>a, <2>2, <4>1, <4>2 DEF WorkersApart
    <3>3. QED
      BY <3>1, <3>2
  <2>3. QED
    BY <2>1, <2>2 DEF WorkersApart
<1>2. CASE ServeLogout(c, w)
  <2>1. call' = [call EXCEPT ![c].step = "working", ![c].worker = w] /\ flight' = flight
        /\ call[c].kind = "logout"
    BY <1>2 DEF ServeLogout
  <2>2. req'[w].op = "revoke"
    BY <1>2, <1>a DEF ServeLogout, LogoutArrives, Served
  <2>3. call'[c].kind = "logout" /\ call'[c].worker = w
        /\ \A d \in Calls \ {c} : call'[d] = call[d]
    BY <1>a, <2>1 DEF Call
  <2>4. QED
    BY <1>1, <2>1, <2>2, <2>3
<1>3. ASSUME NEW scope \in Offered, StartLogin(c, w, scope)
      PROVE  WorkersApart'
  <2>1. /\ call' = [call EXCEPT ![c] = [NoCall EXCEPT !.kind = "login", !.step = "working",
                                                      !.worker = w]]
        /\ flight' = flight
    BY <1>3 DEF StartLogin
  <2>2. req'[w].op = "login"
    BY <1>3, <1>a DEF StartLogin, Login, StaffLogin, PlatformLogin, CheckedLogin, Served
  <2>3. call'[c].kind = "login" /\ call'[c].worker = w
        /\ \A d \in Calls \ {c} : call'[d] = call[d]
    BY <1>a, <2>1 DEF NoCall
  <2>4. QED
    BY <1>1, <2>1, <2>2, <2>3
<1>4. CASE StartRefresh(c, w)
  <2>1. /\ call' = [call EXCEPT ![c].step = "waiting"] /\ flight' = w
        /\ RefreshFind(w, store.token)
    BY <1>4 DEF StartRefresh
  <2>2. req'[w].op \in {"rotate", "revoke"}
    BY <1>a, <2>1 DEF RefreshFind, Served
  <2>3. call'[c].step = "waiting" /\ \A d \in Calls \ {c} : call'[d] = call[d]
    BY <1>a, <2>1 DEF Call
  <2>4. flight' # NoWorker => req'[flight'].op # "idle"
    BY <2>1, <2>2
  <2>5. ASSUME NEW d \in Calls, call'[d].step = "working"
        PROVE  /\ call'[d].worker \in Workers \ {flight'}
               /\ call'[d].kind = "login" => req'[call'[d].worker].op = "login"
               /\ call'[d].kind # "login" => req'[call'[d].worker].op \in {"revoke", "failed"}
               /\ \A e \in Calls :
                    call'[e].step = "working" /\ call'[e].worker = call'[d].worker => e = d
    <3>1. d # c /\ call'[d] = call[d] /\ call[d].worker \in Workers \ {w}
          /\ req'[call[d].worker] = req[call[d].worker]
      BY <1>b, <1>c, <2>3, <2>5
    <3>2. \A e \in Calls :
            call'[e].step = "working" /\ call'[e].worker = call'[d].worker => e = d
      BY <1>a, <2>3, <2>5, <3>1 DEF WorkersApart
    <3>3. QED
      BY <1>a, <2>1, <2>5, <3>1, <3>2 DEF WorkersApart
  <2>6. QED
    BY <2>4, <2>5 DEF WorkersApart
<1>5. QED
  BY <1>2, <1>3, <1>4 DEF WorkerTaken

LEMMA InitTypes == Init => Types
<1> SUFFICES ASSUME Init
             PROVE  Types
  OBVIOUS
<1>1. AccessTypes
  <2>1. AccessTypeOK
    BY MaxAssumption, StatusesAssumption
       DEF Init, AccessInit, AccessTypeOK, Through, Gate, Keys
  <2>2. GateShape
    BY DEF Init, AccessInit, GateShape, Through
  <2>3. QED
    BY <2>1, <2>2 DEF AccessTypes
<1>2. SessionTypes
  <2>1. SessionTypeOK
    BY TtlAssumption DEF Init, SessionInit, SessionTypeOK, NoRow, NoTokenRow, Served, Request, Scopes
  <2>2. RowsExist
    BY DEF Init, SessionInit, RowsExist, NoRow, NoTokenRow, Exists
  <2>3. RequestShape /\ NextFresh
    BY DEF Init, SessionInit, RequestShape, Shaped, NextFresh, Busy, Served
  <2>4. QED
    BY <2>1, <2>2, <2>3 DEF SessionTypes
<1>3. ClientTypeOK
  <2>1. NoCall \in Call
    BY ClientAssumption, TtlAssumption DEF NoCall, Call
  <2>2. QED
    BY <2>1, ClientAssumption, TtlAssumption DEF Init, ClientInit, ClientTypeOK, Empty
<1>4. WorkersApart
  BY DEF Init, ClientInit, WorkersApart, NoCall
<1>5. QED
  BY <1>1, <1>2, <1>3, <1>4 DEF Types

LEMMA NextTypes == Types /\ [Next]_vars => Types'
<1> SUFFICES ASSUME Types, [Next]_vars
             PROVE  Types'
  OBVIOUS
<1>1. AccessTypes'
  <2>1. AccessTypes
    BY DEF Types
  <2>2. CASE UNCHANGED accessVars
    BY <2>1, <2>2 DEF accessVars, AccessTypes, AccessTypeOK, GateShape
  <2>3. CASE \E k \in Keys : EntryExpires(k)
    <3>1. PICK k \in Keys : EntryExpires(k)
      BY <2>3
    <3>2. QED
      BY <2>1, <3>1, <2>3 DEF EntryExpires, AccessTypes, AccessTypeOK, GateShape
  <2>4. CASE \E w \in Workers : TenantStep(w)
    BY <2>1, <2>4, TenantTypes
  <2>5. QED
    BY <2>2, <2>3, <2>4, TenantSteps
<1>2. SessionTypes'
  <2>1. SessionTypes
    BY DEF Types
  <2>2. CASE UNCHANGED sessionVars \/ Tick
    <3>1. now' \in 0..MaxNow /\ UNCHANGED <<session, token, req, endedBy, forked, issuedLate>>
      BY <2>1, <2>2, TtlAssumption DEF Tick, sessionVars, SessionTypes, SessionTypeOK
    <3>2. QED
      BY <2>1, <3>1 DEF SessionTypes, SessionTypeOK, RowsExist, RequestShape, Shaped,
                        NextFresh, Exists, Busy
  <2>3. CASE \E w \in Workers : SessionMove(w)
    BY <2>1, <2>3, MoveTypes
  <2>4. QED
    BY <2>2, <2>3, SessionMoves
<1>3. ClientTypeOK' /\ WorkersApart'
  <2>1. CASE UNCHANGED vars
    BY <2>1 DEF vars, clientVars, sessionVars, Types, ClientTypeOK, WorkersApart
  <2>2. CASE Environment
    <3>1. UNCHANGED clientVars /\ req' = req
      BY <2>2 DEF Environment, Tick, sessionVars
    <3>2. QED
      BY <3>1 DEF clientVars, Types, ClientTypeOK, WorkersApart
  <2>3. ASSUME NEW w \in Workers, ServerMove(w)
        PROVE  ClientTypeOK' /\ WorkersApart'
    <3>1. UNCHANGED clientVars
      BY <2>3, ServerOps
    <3>2. ClientTypeOK'
      BY <3>1 DEF clientVars, Types, ClientTypeOK
    <3>3. QED
      BY <2>3, <3>2, ServerApart
  <2>4. CASE ClientMove
    BY <2>4, ClientTypes, ClientApart
  <2>5. CASE \E c \in Calls, w \in Workers : WorkerTaken(c, w)
    BY <2>5, TakenTypes, TakenApart
  <2>6. QED
    BY <2>1, <2>2, <2>3, <2>4, <2>5, NextMoves
<1>4. QED
  BY <1>1, <1>2, <1>3 DEF Types

\* Every variable of the tenant, the sessions and the client keeps its type, and
\* no two calls ever wait for the answer of one worker.
THEOREM TypeCorrect == Spec => []TypeOK
<1>1. Types => TypeOK
  BY DEF Types, AccessTypes, SessionTypes, TypeOK
<1>2. QED
  BY <1>1, InitTypes, NextTypes, PTL DEF Spec

-----------------------------------------------------------------------------
(* The guards decide with what the tenant has *)

LEMMA NextDeletions == Types /\ DeletionsCommitted /\ [Next]_vars => DeletionsCommitted'
<1> SUFFICES ASSUME Types, DeletionsCommitted, [Next]_vars
             PROVE  DeletionsCommitted'
  OBVIOUS
<1>a. req \in [Workers -> Request] /\ gate \in [Workers -> Gate]
  BY DEF Types, AccessTypes, AccessTypeOK, SessionTypes, SessionTypeOK
<1>b. Served.step = "none" /\ Through.op = "idle" /\ Through.step = "none"
  BY DEF Served, Through
<1>1. ASSUME NEW w \in Workers, gate' = gate,
             \A v \in Workers \ {w} : req'[v] = req[v],
             req'[w].step \in {"none", "answer"} \/ gate[w].op # "delete"
      PROVE  DeletionsCommitted'
  BY <1>1 DEF DeletionsCommitted
<1>2. ASSUME NEW w \in Workers, \A v \in Workers \ {w} : gate'[v] = gate[v] /\ req'[v] = req[v],
             gate'[w].op = "delete" /\ gate'[w].step # "commit" =>
               req'[w].step \in {"none", "answer"}
      PROVE  DeletionsCommitted'
  BY <1>2 DEF DeletionsCommitted
<1>3. CASE UNCHANGED vars
  BY <1>3 DEF vars, accessVars, sessionVars, DeletionsCommitted
<1>4. CASE Environment
  BY <1>4 DEF Environment, Tick, EntryExpires, accessVars, sessionVars, DeletionsCommitted
<1>5. ASSUME NEW w \in Workers, Others(w)
      PROVE  DeletionsCommitted'
  <2>1. gate[w] = Through /\ req[w] = Served
    BY <1>5 DEF Others, Idle
  <2>2. CASE UNCHANGED accessVars /\ CleanupList(w)
    BY <1>1, <1>a, <1>b, <2>1, <2>2 DEF accessVars, CleanupList
  <2>3. ASSUME NEW op, NEW value, ChangeArrives(w, op, value),
               UNCHANGED sessionVars \/ DeletionArrives(w)
        PROVE  DeletionsCommitted'
    <3>1. /\ \A v \in Workers \ {w} : gate'[v] = gate[v]
          /\ gate'[w].step = "commit"
      BY <1>a, <2>3 DEF ChangeArrives, Step
    <3>2. \A v \in Workers \ {w} : req'[v] = req[v]
      BY <1>a, <2>3 DEF DeletionArrives, sessionVars
    <3>3. QED
      BY <1>2, <3>1, <3>2
  <2>4. CASE RequestArrives(w) /\ UNCHANGED sessionVars
    <3>1. /\ \A v \in Workers \ {w} : gate'[v] = gate[v]
          /\ gate'[w].op = "request"
      BY <1>a, <2>4 DEF RequestArrives, Step
    <3>2. req' = req
      BY <2>4 DEF sessionVars
    <3>3. QED
      BY <1>2, <3>1, <3>2
  <2>5. QED
    BY <1>5, <2>2, <2>3, <2>4 DEF Others
<1>6. ASSUME NEW w \in Workers, GateStep(w), UNCHANGED sessionVars
      PROVE  DeletionsCommitted'
  <2>1. req' = req
    BY <1>6 DEF sessionVars
  <2>2. ASSUME NEW k, NEW value, Decide(w, k, value)
        PROVE  \A v \in Workers \ {w} : gate'[v] = gate[v] /\ gate'[w].op # "delete"
    BY <1>a, <1>b, <2>2 DEF Decide, Leave, Step
  <2>3. \A v \in Workers \ {w} : gate'[v] = gate[v]
    BY <1>6, <1>a, <2>2 DEF GateStep, GuardHit, GuardMiss, GuardRead, GuardFill, StatusCommit,
       OverrideCommit, RestoreCommit, PlanCommit, SetStatus, DeleteFeatures, Step, Leave, Decide
  <2>4. gate'[w].op = "delete" => gate[w].op = "delete" /\ gate[w].step = "set"
    <3>1. CASE GuardHit(w) \/ GuardFill(w)
      BY <1>a, <1>b, <3>1 DEF GuardHit, GuardFill, Decide, Step, Leave
    <3>2. CASE GuardMiss(w) \/ GuardRead(w)
      BY <1>a, <1>b, <3>2 DEF GuardMiss, GuardRead, Step, Leave
    <3>3. CASE StatusCommit(w) \/ OverrideCommit(w) \/ RestoreCommit(w) \/ PlanCommit(w)
      BY <1>a, <1>b, <3>3 DEF StatusCommit, OverrideCommit, RestoreCommit, PlanCommit, Step, Leave
    <3>4. CASE SetStatus(w) \/ DeleteFeatures(w)
      BY <1>a, <1>b, <3>4 DEF SetStatus, DeleteFeatures, Step, Leave
    <3>5. QED
      BY <1>6, <3>1, <3>2, <3>3, <3>4 DEF GateStep
  <2>5. QED
    BY <1>2, <2>1, <2>3, <2>4 DEF DeletionsCommitted
<1>7. ASSUME NEW w \in Workers, SessionStep(w) \/ RevokeSessions(w), gate' = gate
      PROVE  DeletionsCommitted'
  <2>1. req[w].step \in {"issue", "tokens", "session"}
    BY <1>7 DEF SessionStep, LoginIssue, RotateTokens, RotateCommit, RevokeSessions, RevokeCommit,
                DeadlockBroken, WaitsFor, Busy
  <2>2. \A v \in Workers \ {w} : req'[v] = req[v]
    BY <1>7, <1>a DEF SessionStep, LoginIssue, RotateTokens, RotateCommit, RevokeSessions,
                      RevokeCommit, DeadlockBroken
  <2>3. QED
    BY <1>2, <1>7, <2>1, <2>2 DEF DeletionsCommitted
<1>8. ASSUME NEW w \in Workers, Server(w)
      PROVE  DeletionsCommitted'
  <2>1. CASE GateStep(w) /\ UNCHANGED sessionVars
    BY <1>6, <2>1
  <2>2. CASE SessionStep(w) /\ UNCHANGED accessVars
    BY <1>7, <2>2 DEF accessVars
  <2>3. CASE Answered(w) /\ UNCHANGED accessVars
    BY <1>1, <1>a, <1>b, <2>3 DEF Answered, Finish, accessVars
  <2>4. QED
    BY <1>8, <2>1, <2>2, <2>3 DEF Server
<1>9. ASSUME NEW w \in Workers, Deletion(w)
      PROVE  DeletionsCommitted'
  <2>1. CASE DeleteCommit(w) /\ RevokeCommit(w)
    <3>1. \A v \in Workers \ {w} : gate'[v] = gate[v] /\ req'[v] = req[v]
      BY <1>a, <2>1 DEF DeleteCommit, RevokeCommit, Step
    <3>2. req'[w].step = "answer"
      BY <1>a, <2>1 DEF RevokeCommit, Request
    <3>3. QED
      BY <1>2, <3>1, <3>2
  <2>2. CASE RevokeSessions(w) /\ UNCHANGED accessVars
    BY <1>7, <2>2 DEF accessVars
  <2>3. QED
    BY <1>9, <2>1, <2>2 DEF Deletion
<1>10. ASSUME NEW w \in Workers, DeletionFails(w)
       PROVE  DeletionsCommitted'
  <2>1. \A v \in Workers \ {w} : gate'[v] = gate[v] /\ req'[v] = req[v]
    BY <1>10, <1>a DEF DeletionFails, Leave, DeadlockBroken
  <2>2. gate'[w].op = "idle"
    BY <1>10, <1>a, <1>b DEF DeletionFails, Leave
  <2>3. QED
    BY <1>2, <2>1, <2>2
<1>11. CASE ClientMove
  <2>1. gate' = gate
    BY <1>11 DEF ClientMove, CallMove, Send, Deny, ServeRequest, Join, Rejected, LoggedOut, LoggedIn,
                 CallLost, Refreshed, RefreshRefused, RefreshLost, Reload, accessVars
  <2>2. req' = req \/ \E w : Finish(w)
    BY <1>11 DEF ClientMove, CallMove, Send, Deny, ServeRequest, Join, Rejected, LoggedOut, LoggedIn,
                 CallLost, Refreshed, RefreshRefused, RefreshLost, Reload, sessionVars
  <2>3. QED
    BY <1>a, <1>b, <2>1, <2>2 DEF Finish, DeletionsCommitted
<1>12. ASSUME NEW c \in Calls, NEW w \in Workers, WorkerTaken(c, w)
       PROVE  DeletionsCommitted'
  <2>1. gate[w] = Through /\ gate' = gate
    BY <1>12 DEF WorkerTaken, ServeLogout, StartRefresh, StartLogin, Idle, accessVars
  <2>2. \A v \in Workers \ {w} : req'[v] = req[v]
    BY <1>12, <1>a DEF WorkerTaken, ServeLogout, StartRefresh, StartLogin, LogoutArrives, RefreshFind,
                       Login, StaffLogin, PlatformLogin, CheckedLogin
  <2>3. QED
    BY <1>1, <1>b, <2>1, <2>2
<1>13. QED
  BY <1>3, <1>4, <1>5, <1>8, <1>9, <1>10, <1>11, <1>12, NextMoves DEF ServerMove

LEMMA InitCache == Init => CacheInv
<1> SUFFICES ASSUME Init
             PROVE  CacheInv
  OBVIOUS
<1>1. CacheFollowsTenant
  BY DEF Init, AccessInit, CacheFollowsTenant
<1>2. FillsCurrent /\ TellsAlone /\ DeletionsCommitted
  BY DEF Init, AccessInit, FillsCurrent, TellsAlone, DeletionsCommitted, At, Through
<1>3. QED
  BY <1>1, <1>2 DEF CacheInv

LEMMA NextCache == Types /\ CacheInv /\ [Next]_vars => CacheInv'
<1> SUFFICES ASSUME Types, CacheInv, [Next]_vars
             PROVE  CacheInv'
  OBVIOUS
<1>1. AccessTypes /\ TenantInv /\ DeletionsCommitted
  BY DEF Types, CacheInv, TenantInv
<1>2. TenantInv'
  <2>1. ASSUME UNCHANGED accessVars
        PROVE  TenantInv'
    BY <1>1, <2>1 DEF accessVars, TenantInv, CacheFollowsTenant, FillsCurrent, TellsAlone, Telling,
                      At, Truth, Entitled
  <2>2. ASSUME NEW k \in Keys, EntryExpires(k)
        PROVE  TenantInv'
    BY <1>1, <2>2, ExpiryStep
  <2>3. ASSUME NEW w \in Workers, TenantStep(w)
        PROVE  TenantInv'
    BY <1>1, <2>3, TenantInvSteps
  <2>4. QED
    BY <2>1, <2>2, <2>3, TenantSteps
<1>3. DeletionsCommitted'
  BY <1>1, NextDeletions
<1>4. QED
  BY <1>2, <1>3 DEF CacheInv, TenantInv

\* The guards decide with what the platform last committed, unless a Redis
\* command failed or a fill or another change overlapped the commit.
THEOREM CacheFollowsTenantHolds == Spec => []CacheFollowsTenant
<1>1. CacheInv => CacheFollowsTenant
  BY DEF CacheInv
<1>2. QED
  BY <1>1, InitTypes, NextTypes, InitCache, NextCache, PTL DEF Spec

-----------------------------------------------------------------------------
(* Sessions that ended *)

LEMMA InitEnded == Init => EndedInv
BY DEF Init, SessionInit, EndedInv, EndedIsInactive, RotatedInTime, EndedSessionsIssueNothing, Served

\* A session is created once, inactive sessions stay inactive, and what ends is
\* among the sessions of the request that revokes.
LEMMA EndedMoves ==
  ASSUME SessionTypes, EndedInv, NEW w \in Workers, SessionMove(w)
  PROVE  EndedInv'
<1>a. /\ req \in [Workers -> Request] /\ session \in [SessionIds ->
           [scope : Scopes \cup {"none"}, isActive : BOOLEAN, expiresAt : 0..(MaxNow + RefreshTtl)]]
      /\ endedBy \in [SessionIds -> {"none", "logout", "reuse", "cleanup", "deletion"}]
      /\ Shaped(w) /\ RowsPersist
  BY MoveTypes DEF SessionTypes, SessionTypeOK, RequestShape
<1>b. EndedIsInactive /\ RotatedInTime /\ issuedLate = {}
  BY DEF EndedInv, EndedSessionsIssueNothing
<1>1. ASSUME UNCHANGED <<session, endedBy, issuedLate>>,
             \A v \in Workers \ {w} : req'[v] = req[v],
             req'[w].op = "rotate" /\ req'[w].step \in {"tokens", "session"} => ~req'[w].late
      PROVE  EndedInv'
  BY <1>1, <1>b DEF EndedInv, EndedIsInactive, RotatedInTime, EndedSessionsIssueNothing
<1>2. CASE \/ \E scope \in Scopes : CheckedLogin(w, scope)
           \/ \E s \in SessionIds : LogoutArrives(w, s)
           \/ CleanupList(w) \/ DeletionArrives(w) \/ RevokeSessions(w) \/ DeadlockBroken(w)
           \/ Finish(w) /\ UNCHANGED <<now, session, token, endedBy, forked, issuedLate>>
  <2>1. UNCHANGED <<session, endedBy, issuedLate>> /\ \A v \in Workers \ {w} : req'[v] = req[v]
    BY <1>2, <1>a DEF CheckedLogin, LogoutArrives, CleanupList, DeletionArrives, RevokeSessions,
                      DeadlockBroken, Finish
  <2>2. req'[w].op # "rotate"
    <3>1. CASE RevokeSessions(w)
      BY <1>a, <3>1 DEF RevokeSessions, Busy, Request
    <3>2. ASSUME NEW scope \in Scopes, CheckedLogin(w, scope)
          PROVE  req'[w].op # "rotate"
      BY <1>a, <3>2 DEF CheckedLogin, Served
    <3>3. ASSUME NEW s \in SessionIds, LogoutArrives(w, s)
          PROVE  req'[w].op # "rotate"
      BY <1>a, <3>3 DEF LogoutArrives, Served
    <3>4. CASE CleanupList(w) \/ DeletionArrives(w)
      BY <1>a, <3>4 DEF CleanupList, DeletionArrives, Served
    <3>5. CASE DeadlockBroken(w)
      BY <1>a, <3>5 DEF DeadlockBroken, Served
    <3>6. CASE Finish(w)
      BY <1>a, <3>6 DEF Finish, Served
    <3>7. QED
      BY <1>2, <3>1, <3>2, <3>3, <3>4, <3>5, <3>6
  <2>3. QED
    BY <1>1, <2>1, <2>2
<1>3. CASE store.token \in TokenIds /\ RefreshFind(w, store.token)
  <2> DEFINE t == store.token
             s == token[t].session
  <2>1. /\ UNCHANGED <<session, endedBy, issuedLate>> /\ Exists(t)
        /\ \A v \in Workers \ {w} : req'[v] = req[v]
    BY <1>3, <1>a DEF RefreshFind
  <2>2. s \in SessionIds
    <3>1. t \in TokenIds /\ token[t].session # NoSession
      BY <1>3, <2>1 DEF Exists
    <3>2. token[t].session \in SessionIds \cup {NoSession}
      BY <3>1 DEF SessionTypes, SessionTypeOK
    <3>3. QED
      BY <3>1, <3>2
  <2>3. Accepts(t) => endedBy[s] = "none"
    BY <1>b, <2>2 DEF Accepts, SessionOf, EndedIsInactive
  <2>4. /\ req'[w].late = (endedBy[s] # "none")
        /\ req'[w].op = "rotate" /\ req'[w].step \in {"tokens", "session"} => Accepts(t)
    BY <1>3, <1>a DEF RefreshFind, Served
  <2>5. QED
    BY <1>1, <2>1, <2>3, <2>4
<1>4. CASE RotateTokens(w)
  <2>1. /\ UNCHANGED <<session, endedBy, issuedLate>> /\ \A v \in Workers \ {w} : req'[v] = req[v]
        /\ req[w].op = "rotate" /\ req[w].step = "tokens" /\ req'[w].late = req[w].late
    BY <1>4, <1>a DEF RotateTokens, Busy, Request
  <2>2. ~req[w].late
    BY <1>b, <2>1 DEF RotatedInTime
  <2>3. QED
    BY <1>1, <2>1, <2>2
<1>5. CASE RotateCommit(w)
  <2>1. req[w].op = "rotate" /\ req[w].step = "session"
    BY <1>5 DEF RotateCommit, Busy
  <2>2. ~req[w].late
    BY <1>b, <2>1 DEF RotatedInTime
  <2>3. issuedLate' = issuedLate /\ endedBy' = endedBy
    BY <1>5, <2>2 DEF RotateCommit
  <2>4. req'[w].step = "answer" /\ \A v \in Workers \ {w} : req'[v] = req[v]
    BY <1>5, <1>a DEF RotateCommit, Request
  <2>5. \A s \in SessionIds : session'[s].scope = session[s].scope
                              /\ session'[s].isActive = session[s].isActive
    BY <1>5, <1>a DEF RotateCommit
  <2>6. QED
    BY <1>b, <2>3, <2>4, <2>5
       DEF EndedInv, EndedIsInactive, RotatedInTime, EndedSessionsIssueNothing
<1>6. CASE RevokeCommit(w)
  <2>1. /\ req[w].op = "revoke" /\ session' = SessionsRevoked(req[w].ids)
        /\ endedBy' = Ended(req[w].ids, req[w].why) /\ issuedLate' = issuedLate
    BY <1>6 DEF RevokeCommit, Busy
  <2>2. req'[w].op = "revoke" /\ \A v \in Workers \ {w} : req'[v] = req[v]
    BY <1>6, <1>a, <2>1 DEF RevokeCommit, Request
  <2>3. ASSUME NEW s \in SessionIds, endedBy'[s] # "none"
        PROVE  session'[s].scope # "none" /\ ~session'[s].isActive
    <3>1. CASE s \in req[w].ids
      <4>1. session[s].scope # "none"
        BY <1>a, <2>1, <3>1 DEF Shaped
      <4>2. session'[s].scope = session[s].scope /\ session'[s].isActive = FALSE
        BY <1>a, <2>1, <3>1 DEF SessionsRevoked
      <4>3. QED
        BY <4>1, <4>2
    <3>2. CASE s \notin req[w].ids
      <4>1. endedBy[s] # "none" /\ session'[s] = session[s]
        BY <2>1, <2>3, <3>2 DEF Ended, SessionsRevoked
      <4>2. QED
        BY <1>b, <4>1 DEF EndedIsInactive
    <3>3. QED
      BY <3>1, <3>2
  <2>4. QED
    BY <1>b, <2>1, <2>2, <2>3
       DEF EndedInv, EndedIsInactive, RotatedInTime, EndedSessionsIssueNothing
<1>7. CASE LoginIssue(w)
  <2>1. PICK s \in FreshSessions, t \in FreshTokens :
          /\ session' = [session EXCEPT ![s] = [scope |-> req[w].scope, isActive |-> TRUE,
                                                expiresAt |-> now + RefreshTtl]]
          /\ req' = [req EXCEPT ![w].step = "answer", ![w].ids = {s}, ![w].next = t]
    BY <1>7 DEF LoginIssue
  <2>2. UNCHANGED <<endedBy, issuedLate>>
    BY <1>7 DEF LoginIssue
  <2>3. req'[w].step = "answer" /\ \A v \in Workers \ {w} : req'[v] = req[v]
    BY <1>a, <2>1 DEF Request
  <2>4. endedBy[s] = "none" /\ \A x \in SessionIds \ {s} : session'[x] = session[x]
    BY <1>a, <1>b, <2>1 DEF FreshSessions, EndedIsInactive
  <2>5. QED
    BY <1>b, <2>2, <2>3, <2>4
       DEF EndedInv, EndedIsInactive, RotatedInTime, EndedSessionsIssueNothing
<1>8. QED
  BY <1>2, <1>3, <1>4, <1>5, <1>6, <1>7 DEF SessionMove

LEMMA NextEnded == Types /\ EndedInv /\ [Next]_vars => EndedInv'
<1> SUFFICES ASSUME Types, EndedInv, [Next]_vars
             PROVE  EndedInv'
  OBVIOUS
<1>1. CASE UNCHANGED sessionVars \/ Tick
  BY <1>1 DEF sessionVars, Tick, EndedInv, EndedIsInactive, RotatedInTime, EndedSessionsIssueNothing
<1>2. ASSUME NEW w \in Workers, SessionMove(w)
      PROVE  EndedInv'
  BY <1>2, EndedMoves DEF Types
<1>3. QED
  BY <1>1, <1>2, SessionMoves

\* No request that comes after a session was revoked is given tokens for it.
THEOREM EndedSessionsIssueNothingHolds == Spec => []EndedSessionsIssueNothing
<1>1. EndedInv => EndedSessionsIssueNothing
  BY DEF EndedInv
<1>2. QED
  BY <1>1, InitTypes, NextTypes, InitEnded, NextEnded, PTL DEF Spec

-----------------------------------------------------------------------------
(* One token of a session is valid *)

LEMMA DeletedStays ==
  ASSUME [Next]_vars, deleted
  PROVE  deleted'
<1>1. CASE UNCHANGED accessVars
  BY <1>1 DEF accessVars
<1>2. ASSUME NEW k \in Keys, EntryExpires(k)
      PROVE  deleted'
  BY <1>2 DEF EntryExpires
<1>3. ASSUME NEW w \in Workers, TenantStep(w)
      PROVE  deleted'
  BY <1>3 DEF TenantStep, RequestArrives, ChangeArrives, GuardHit, GuardMiss, GuardRead, GuardFill,
       StatusCommit, OverrideCommit, RestoreCommit, PlanCommit, SetStatus, DeleteFeatures, DeleteCommit,
       DeletionFails
<1>4. QED
  BY <1>1, <1>2, <1>3, TenantSteps

\* A session that counts after a step counted before: what a step adds to the
\* sessions, it adds to those that are new.
LEMMA CountsBefore ==
  ASSUME NEW s, session'[s].scope = session[s].scope, session'[s].isActive => session[s].isActive,
         forked \subseteq forked', deleted => deleted', Counts(s)'
  PROVE  Counts(s)
BY DEF Counts

\* Which tokens of a session are valid depends on the rows of its tokens.
LEMMA SameLive ==
  ASSUME NEW s,
         \A t \in TokenIds : token[t].session = s \/ token'[t].session = s => token'[t] = token[t]
  PROVE  LiveTokens(s)' = LiveTokens(s)
BY DEF LiveTokens

\* A step that writes no row, and by which nobody comes to hold a token's row.
LEMMA QuietLive ==
  ASSUME LiveInv, NEW w \in Workers, UNCHANGED <<session, token>>, forked \subseteq forked',
         deleted => deleted',
         \A v \in Workers \ {w} : req'[v] = req[v],
         Busy(w, "rotate", "session")' =>
           /\ token'[req'[w].token].session \notin forked' => ~token[req'[w].token].revoked
           /\ \A v \in Workers \ {w} :
                Busy(v, "rotate", "session") => req[v].token # req'[w].token
  PROVE  LiveInv'
<1>a. OneLive /\ RotationsApart
  BY DEF LiveInv
<1>b. \A s \in SessionIds : Counts(s)' => Counts(s)
  BY DEF Counts
<1>1. OneLive'
  BY <1>a, <1>b DEF OneLive, LiveTokens
<1>2. ASSUME NEW v \in Workers, Busy(v, "rotate", "session")'
      PROVE  /\ Counts(token[req[v].token].session)' => ~token'[req'[v].token].revoked
             /\ \A u \in Workers :
                  Busy(u, "rotate", "session")' /\ req'[u].token = req'[v].token => u = v
  <2>1. CASE v = w
    <3>1. Counts(token[req[v].token].session)' => ~token'[req'[v].token].revoked
      BY <1>2, <2>1 DEF Counts
    <3>2. QED
      BY <1>2, <2>1, <3>1 DEF Busy
  <2>2. CASE v # w
    <3>1. req'[v] = req[v] /\ Busy(v, "rotate", "session")
      BY <1>2, <2>2 DEF Busy
    <3>2. Counts(token[req[v].token].session)' => Counts(token[req[v].token].session)
      BY <3>1 DEF Counts
    <3>3. Counts(token[req[v].token].session)' => ~token'[req'[v].token].revoked
      BY <1>a, <3>1, <3>2 DEF RotationsApart
    <3>4. ASSUME NEW u \in Workers, Busy(u, "rotate", "session")', req'[u].token = req'[v].token
          PROVE  u = v
      <4>1. u # w
        BY <3>1, <3>4, <2>2
      <4>2. QED
        BY <1>a, <3>1, <3>4, <4>1 DEF RotationsApart, Busy
    <3>5. QED
      BY <3>3, <3>4
  <2>3. QED
    BY <2>1, <2>2
<1>3. RotationsApart'
  BY <1>2 DEF RotationsApart
<1>4. QED
  BY <1>1, <1>3 DEF LiveInv

LEMMA InitLive == Init => LiveInv
BY DEF Init, SessionInit, LiveInv, OneLive, RotationsApart, Counts, NoRow, Busy, Served

\* A step of a session request leaves each session that counts one valid token.
LEMMA LiveMoves ==
  ASSUME SessionTypes, LiveInv, NEW w \in Workers, SessionMove(w), deleted => deleted'
  PROVE  LiveInv'
<1>a. /\ req \in [Workers -> Request]
      /\ session \in [SessionIds -> [scope : Scopes \cup {"none"}, isActive : BOOLEAN,
                                     expiresAt : 0..(MaxNow + RefreshTtl)]]
      /\ token \in [TokenIds -> [session : SessionIds \cup {NoSession}, revoked : BOOLEAN,
                                 expiresAt : 0..(MaxNow + RefreshTtl)]]
      /\ RowsExist /\ NextFresh /\ RowsPersist
      /\ \A v \in Workers : Shaped(v)
  BY MoveTypes DEF SessionTypes, SessionTypeOK, RequestShape
<1>b. OneLive /\ RotationsApart
  BY DEF LiveInv
<1>c. \A v \in Workers : Busy(v, "rotate", "session") =>
        req[v].token \in TokenIds /\ Exists(req[v].token)
  BY <1>a DEF Shaped, Busy
<1>1. CASE \/ \E scope \in Scopes : CheckedLogin(w, scope)
           \/ \E s \in SessionIds : LogoutArrives(w, s)
           \/ CleanupList(w) \/ DeletionArrives(w) \/ RevokeSessions(w) \/ DeadlockBroken(w)
           \/ store.token \in TokenIds /\ RefreshFind(w, store.token)
           \/ Finish(w) /\ UNCHANGED <<now, session, token, endedBy, forked, issuedLate>>
  <2>1. UNCHANGED <<session, token, forked>> /\ \A v \in Workers \ {w} : req'[v] = req[v]
    BY <1>1, <1>a DEF CheckedLogin, LogoutArrives, CleanupList, DeletionArrives, RevokeSessions,
                      DeadlockBroken, RefreshFind, Finish
  <2>2. ~Busy(w, "rotate", "session")'
    <3>1. CASE RevokeSessions(w)
      BY <1>a, <3>1 DEF RevokeSessions, Busy, Request
    <3>2. ASSUME NEW scope \in Scopes, CheckedLogin(w, scope)
          PROVE  ~Busy(w, "rotate", "session")'
      BY <1>a, <3>2 DEF CheckedLogin, Served, Busy
    <3>3. ASSUME NEW s \in SessionIds, LogoutArrives(w, s)
          PROVE  ~Busy(w, "rotate", "session")'
      BY <1>a, <3>3 DEF LogoutArrives, Served, Busy
    <3>4. CASE CleanupList(w) \/ DeletionArrives(w)
      BY <1>a, <3>4 DEF CleanupList, DeletionArrives, Served, Busy
    <3>5. CASE DeadlockBroken(w)
      BY <1>a, <3>5 DEF DeadlockBroken, Served, Busy
    <3>6. CASE RefreshFind(w, store.token)
      BY <1>a, <3>6 DEF RefreshFind, Served, Busy
    <3>7. CASE Finish(w)
      BY <1>a, <3>7 DEF Finish, Served, Busy
    <3>8. QED
      BY <1>1, <3>1, <3>2, <3>3, <3>4, <3>5, <3>6, <3>7
  <2>3. QED
    BY <2>1, <2>2, QuietLive
<1>2. CASE RotateTokens(w)
  <2>1. PICK n \in FreshTokens : req' = [req EXCEPT ![w].step = "session", ![w].next = n]
    BY <1>2 DEF RotateTokens
  <2>2. /\ UNCHANGED <<session, token>> /\ Busy(w, "rotate", "tokens") /\ ~Waiting(w)
        /\ forked' = IF token[req[w].token].revoked THEN forked \cup req[w].ids ELSE forked
    BY <1>2 DEF RotateTokens
  <2>3. /\ \A v \in Workers \ {w} : req'[v] = req[v]
        /\ req'[w].token = req[w].token
    BY <1>a, <2>1 DEF Request
  <2>4. req[w].token \in TokenIds /\ req[w].ids = {token[req[w].token].session}
    BY <1>a, <2>2 DEF Shaped, Busy
  <2>5. token'[req'[w].token].session \notin forked' => ~token[req'[w].token].revoked
    BY <2>2, <2>3, <2>4
  <2>6. \A v \in Workers \ {w} : Busy(v, "rotate", "session") => req[v].token # req'[w].token
    BY <2>2, <2>3 DEF Waiting, WaitsFor
  <2>7. forked \subseteq forked'
    BY <2>2
  <2>8. QED
    BY <2>2, <2>3, <2>5, <2>6, <2>7, QuietLive
<1>3. CASE RotateCommit(w)
  <2> DEFINE t == req[w].token
             n == req[w].next
             s == token[t].session
             row == [session |-> s, revoked |-> FALSE, expiresAt |-> now + RefreshTtl]
  <2>1. /\ t \in TokenIds /\ Exists(t) /\ n \in TokenIds /\ ~Exists(n) /\ n # t
        /\ Busy(w, "rotate", "session")
    BY <1>a, <1>3 DEF RotateCommit, Shaped, NextFresh, Busy
  <2>2. s \in SessionIds
    BY <1>a, <2>1 DEF Exists
  <2>3. /\ token' = [token EXCEPT ![t].revoked = TRUE, ![n] = row]
        /\ session' = [session EXCEPT ![s].expiresAt = now + RefreshTtl]
        /\ forked' = forked
    BY <1>3 DEF RotateCommit, Rotated
  <2>4. req'[w].step = "answer" /\ \A v \in Workers \ {w} : req'[v] = req[v]
    BY <1>a, <1>3 DEF RotateCommit, Request
  <2>5. \A x \in SessionIds : /\ session'[x].scope = session[x].scope
                              /\ session'[x].isActive = session[x].isActive
    BY <1>a, <2>2, <2>3
  <2>6. /\ token'[n].session = s /\ ~token'[n].revoked
        /\ token'[t].session = s /\ token'[t].revoked
        /\ \A y \in TokenIds \ {t, n} : token'[y] = token[y]
    BY <1>a, <2>1, <2>3
  <2>7. token[n].session = NoSession /\ Counts(s) => ~token[t].revoked
    BY <1>b, <2>1 DEF RotationsApart, Exists
  <2>8. token[n].session # s /\ token[t].session = s /\ t \in TokenIds /\ n \in TokenIds
    BY <2>1, <2>2 DEF Exists
  <2>9. \A v \in Workers \ {w} : Busy(v, "rotate", "session") =>
          /\ req[v].token # t
          /\ req[v].token \in TokenIds /\ req[v].token # n
    BY <1>b, <1>c, <2>1 DEF RotationsApart
  <2>10. token[n].session = NoSession
    BY <2>1 DEF Exists
  <2> HIDE DEF t, n, s, row
  <2>11. \A x \in SessionIds : Counts(x)' => Counts(x)
    BY <2>3, <2>5, CountsBefore
  <2>12. ASSUME NEW x \in SessionIds, Counts(x)'
         PROVE  \E y \in TokenIds : LiveTokens(x)' = {y}
    <3>1. PICK y \in TokenIds : LiveTokens(x) = {y}
      BY <1>b, <2>11, <2>12 DEF OneLive
    <3>2. CASE x = s
      <4>1. t \in LiveTokens(x)
        BY <2>7, <2>8, <2>10, <2>11, <2>12, <3>2 DEF LiveTokens
      <4>2. LiveTokens(x) = {t}
        BY <3>1, <4>1
      <4>3. \A z \in TokenIds \ {t, n} : ~(token'[z].session = x /\ ~token'[z].revoked)
        BY <2>6, <4>2 DEF LiveTokens
      <4>4. LiveTokens(x)' = {n}
        BY <2>6, <2>8, <3>2, <4>3 DEF LiveTokens
      <4>5. QED
        BY <2>8, <4>4
    <3>3. CASE x # s
      <4>1. \A z \in TokenIds : token[z].session = x \/ token'[z].session = x => token'[z] = token[z]
        BY <2>6, <2>8, <2>10, <3>3, NoSessionAssumption
      <4>2. LiveTokens(x)' = {y}
        BY <3>1, <4>1, SameLive
      <4>3. QED
        BY <4>2
    <3>4. QED
      BY <3>2, <3>3
  <2>13. OneLive'
    BY <2>12 DEF OneLive
  <2>14. ASSUME NEW v \in Workers, Busy(v, "rotate", "session")'
         PROVE  /\ Counts(token[req[v].token].session)' => ~token'[req'[v].token].revoked
                /\ \A u \in Workers :
                     Busy(u, "rotate", "session")' /\ req'[u].token = req'[v].token => u = v
    <3>1. v # w /\ req'[v] = req[v] /\ Busy(v, "rotate", "session")
      BY <2>4, <2>14 DEF Busy
    <3>2. token'[req[v].token] = token[req[v].token] /\ Exists(req[v].token)
          /\ token[req[v].token].session \in SessionIds
      BY <1>a, <1>c, <2>6, <2>9, <3>1 DEF Exists
    <3>3. Counts(token[req[v].token].session)' => Counts(token[req[v].token].session)
      <4> DEFINE x == token[req[v].token].session
      <4>1. token'[req'[v].token].session = x /\ x \in SessionIds
        BY <3>1, <3>2
      <4>2. session'[x].scope = session[x].scope /\ session'[x].isActive = session[x].isActive
        BY <2>5, <4>1
      <4>3. QED
        BY <2>3, <4>1, <4>2 DEF Counts
    <3>4. Counts(token[req[v].token].session)' => ~token'[req'[v].token].revoked
      BY <1>b, <3>1, <3>2, <3>3 DEF RotationsApart
    <3>5. ASSUME NEW u \in Workers, Busy(u, "rotate", "session")', req'[u].token = req'[v].token
          PROVE  u = v
      BY <1>b, <2>4, <3>1, <3>5 DEF RotationsApart, Busy
    <3>6. QED
      BY <3>4, <3>5
  <2>15. RotationsApart'
    BY <2>14 DEF RotationsApart
  <2>16. QED
    BY <2>13, <2>15 DEF LiveInv
<1>4. CASE RevokeCommit(w) /\ (req[w].why = "deletion" => deleted')
  <2> DEFINE ids == req[w].ids
             tokensOf == IF req[w].why = "deletion" THEN SessionsOfTenant ELSE ids
  <2>1. /\ session' = SessionsRevoked(ids) /\ token' = TokensRevoked(tokensOf) /\ forked' = forked
        /\ req[w].op = "revoke"
    BY <1>4 DEF RevokeCommit, Busy
  <2>2. req'[w].op = "revoke" /\ \A v \in Workers \ {w} : req'[v] = req[v]
    BY <1>a, <1>4, <2>1 DEF RevokeCommit, Request
  <2>3. \A x \in SessionIds : /\ session'[x].scope = session[x].scope
                              /\ session'[x].isActive => session[x].isActive /\ x \notin ids
    BY <1>a, <2>1 DEF SessionsRevoked
  <2>4. \A x \in SessionIds : Counts(x)' => Counts(x)
    BY <2>1, <2>3, CountsBefore
  <2>5. \A x \in SessionIds : Counts(x)' => x \notin tokensOf
    BY <1>4, <2>1, <2>3 DEF Counts, SessionsOfTenant
  <2> HIDE DEF ids, tokensOf
  <2>6. \A y \in TokenIds : /\ token'[y].session = token[y].session
                            /\ token[y].session \notin tokensOf => token'[y] = token[y]
    BY <1>a, <2>1 DEF TokensRevoked
  <2>7. ASSUME NEW x \in SessionIds, Counts(x)'
        PROVE  \E y \in TokenIds : LiveTokens(x)' = {y}
    <3>1. PICK y \in TokenIds : LiveTokens(x) = {y}
      BY <1>b, <2>4, <2>7 DEF OneLive
    <3>2. \A z \in TokenIds : token[z].session = x \/ token'[z].session = x => token'[z] = token[z]
      BY <2>5, <2>6, <2>7
    <3>3. LiveTokens(x)' = {y}
      BY <3>1, <3>2, SameLive
    <3>4. QED
      BY <3>3
  <2>8. OneLive'
    BY <2>7 DEF OneLive
  <2>9. ASSUME NEW v \in Workers, Busy(v, "rotate", "session")'
        PROVE  /\ Counts(token[req[v].token].session)' => ~token'[req'[v].token].revoked
               /\ \A u \in Workers :
                    Busy(u, "rotate", "session")' /\ req'[u].token = req'[v].token => u = v
    <3> DEFINE x == token[req[v].token].session
    <3>1. v # w /\ req'[v] = req[v] /\ Busy(v, "rotate", "session")
      BY <2>2, <2>9 DEF Busy
    <3>2. x \in SessionIds /\ req[v].token \in TokenIds
      BY <1>a, <1>c, <3>1 DEF Exists
    <3>3. token'[req'[v].token].session = x
      BY <2>6, <3>1, <3>2
    <3>4. ASSUME Counts(token[req[v].token].session)'
          PROVE  ~token'[req'[v].token].revoked
      <4>1. x \notin tokensOf /\ Counts(x)
        BY <2>1, <2>3, <2>5, <3>2, <3>3, <3>4 DEF Counts
      <4>2. token'[req[v].token] = token[req[v].token]
        BY <2>6, <3>2, <4>1
      <4>3. QED
        BY <1>b, <3>1, <4>1, <4>2 DEF RotationsApart
    <3>5. ASSUME NEW u \in Workers, Busy(u, "rotate", "session")', req'[u].token = req'[v].token
          PROVE  u = v
      BY <1>b, <2>2, <3>1, <3>5 DEF RotationsApart, Busy
    <3>6. QED
      BY <3>4, <3>5
  <2>10. RotationsApart'
    BY <2>9 DEF RotationsApart
  <2>11. QED
    BY <2>8, <2>10 DEF LiveInv
<1>5. CASE LoginIssue(w)
  <2>1. PICK s \in FreshSessions, t \in FreshTokens :
          /\ session' = [session EXCEPT ![s] = [scope |-> req[w].scope, isActive |-> TRUE,
                                                expiresAt |-> now + RefreshTtl]]
          /\ token' = [token EXCEPT ![t] = [session |-> s, revoked |-> FALSE,
                                            expiresAt |-> now + RefreshTtl]]
          /\ req' = [req EXCEPT ![w].step = "answer", ![w].ids = {s}, ![w].next = t]
    BY <1>5 DEF LoginIssue
  <2>2. /\ s \in SessionIds /\ session[s].scope = "none"
        /\ t \in TokenIds /\ token[t].session = NoSession
    BY DEF FreshSessions, FreshTokens, Exists
  <2>3. forked' = forked /\ req'[w].step = "answer" /\ \A v \in Workers \ {w} : req'[v] = req[v]
    BY <1>a, <1>5, <2>1 DEF LoginIssue, Request
  <2>4. \A x \in SessionIds \ {s} : session'[x] = session[x]
    BY <1>a, <2>1
  <2>5. /\ token'[t].session = s /\ ~token'[t].revoked
        /\ \A y \in TokenIds \ {t} : token'[y] = token[y]
    BY <1>a, <2>1, <2>2
  <2>6. \A y \in TokenIds : token[y].session # s
    BY <1>a, <2>2, NoSessionAssumption DEF RowsExist, Exists
  <2>7. ASSUME NEW x \in SessionIds, Counts(x)'
        PROVE  \E y \in TokenIds : LiveTokens(x)' = {y}
    <3>1. CASE x = s
      <4>1. LiveTokens(x)' = {t}
        BY <2>2, <2>5, <2>6, <3>1 DEF LiveTokens
      <4>2. QED
        BY <2>2, <4>1
    <3>2. CASE x # s
      <4>1. Counts(x)
        BY <2>3, <2>4, <2>7, <3>2 DEF Counts
      <4>2. PICK y \in TokenIds : LiveTokens(x) = {y}
        BY <1>b, <4>1 DEF OneLive
      <4>3. \A z \in TokenIds : token[z].session = x \/ token'[z].session = x => token'[z] = token[z]
        BY <2>2, <2>5, <3>2, NoSessionAssumption
      <4>4. LiveTokens(x)' = {y}
        BY <4>2, <4>3, SameLive
      <4>5. QED
        BY <4>4
    <3>3. QED
      BY <3>1, <3>2
  <2>8. OneLive'
    BY <2>7 DEF OneLive
  <2>9. ASSUME NEW v \in Workers, Busy(v, "rotate", "session")'
        PROVE  /\ Counts(token[req[v].token].session)' => ~token'[req'[v].token].revoked
               /\ \A u \in Workers :
                    Busy(u, "rotate", "session")' /\ req'[u].token = req'[v].token => u = v
    <3> DEFINE x == token[req[v].token].session
    <3>1. v # w /\ req'[v] = req[v] /\ Busy(v, "rotate", "session")
      BY <2>3, <2>9 DEF Busy
    <3>2. x \in SessionIds /\ req[v].token \in TokenIds /\ req[v].token # t /\ x # s
      BY <1>a, <1>c, <2>2, <2>6, <3>1 DEF Exists
    <3>3. token'[req'[v].token] = token[req[v].token] /\ session'[x] = session[x]
      BY <2>4, <2>5, <3>1, <3>2
    <3>4. Counts(token[req[v].token].session)' => Counts(x)
      BY <2>3, <3>3 DEF Counts
    <3>5. Counts(token[req[v].token].session)' => ~token'[req'[v].token].revoked
      BY <1>b, <3>1, <3>3, <3>4 DEF RotationsApart
    <3>6. ASSUME NEW u \in Workers, Busy(u, "rotate", "session")', req'[u].token = req'[v].token
          PROVE  u = v
      BY <1>b, <2>3, <3>1, <3>6 DEF RotationsApart, Busy
    <3>7. QED
      BY <3>5, <3>6
  <2>10. RotationsApart'
    BY <2>9 DEF RotationsApart
  <2>11. QED
    BY <2>8, <2>10 DEF LiveInv
<1>6. QED
  BY <1>1, <1>2, <1>3, <1>4, <1>5 DEF SessionMove

LEMMA NextLive == Types /\ LiveInv /\ [Next]_vars => LiveInv'
<1> SUFFICES ASSUME Types, LiveInv, [Next]_vars
             PROVE  LiveInv'
  OBVIOUS
<1>1. deleted => deleted'
  BY DeletedStays
<1>2. CASE UNCHANGED sessionVars \/ Tick
  <2>1. UNCHANGED <<session, token, req, forked>>
    BY <1>2 DEF sessionVars, Tick
  <2>2. QED
    BY <1>1, <2>1 DEF LiveInv, OneLive, RotationsApart, Counts, LiveTokens, Busy
<1>3. ASSUME NEW w \in Workers, SessionMove(w)
      PROVE  LiveInv'
  BY <1>1, <1>3, LiveMoves DEF Types
<1>4. QED
  BY <1>2, <1>3, SessionMoves

\* A session that can be used has one token that is not revoked, unless two
\* requests rotated the same token.
THEOREM OneLiveTokenHolds == Spec => []OneLiveToken
<1>1. Types /\ LiveInv => OneLiveToken
  <2> SUFFICES ASSUME Types, LiveInv, NEW s \in SessionIds \ forked,
                      session[s].isActive, Usable(session[s].scope)
               PROVE  Cardinality({t \in TokenIds : token[t].session = s /\ ~token[t].revoked}) = 1
    BY DEF OneLiveToken
  <2>1. Counts(s)
    BY DEF Counts, Usable, TenantUsable
  <2>2. PICK t \in TokenIds : LiveTokens(s) = {t}
    BY <2>1 DEF LiveInv, OneLive
  <2>3. Cardinality({t}) = 1
    BY FS_Singleton
  <2>4. QED
    BY <2>2, <2>3 DEF LiveTokens
<1>2. QED
  BY <1>1, InitTypes, NextTypes, InitLive, NextLive, PTL DEF Spec

-----------------------------------------------------------------------------
(* The detection of reuse *)

\* What excuses a session goes on excusing it.
Grows ==
  /\ replayed \subseteq replayed'
  /\ deleted => deleted'
  /\ \A s \in SessionIds : endedBy[s] # "none" => endedBy'[s] = endedBy[s]

LEMMA SessionOfToken ==
  ASSUME SessionTypes, NEW t \in TokenIds, Exists(t)
  PROVE  token[t].session \in SessionIds /\ session[token[t].session].scope # "none"
BY DEF SessionTypes, SessionTypeOK, RowsExist, Exists

LEMMA SafeKept ==
  ASSUME SessionTypes, RowsPersist, Grows, NEW t \in TokenIds, Exists(t), Safe(t),
         token'[t].revoked => token[t].revoked
  PROVE  Safe(t)'
<1> DEFINE s == token[t].session
<1>1. s \in SessionIds /\ session[s].scope # "none"
  BY SessionOfToken
<1>2. token'[t].session = s /\ session'[s].scope = session[s].scope
  BY <1>1 DEF RowsPersist
<1>3. token'[t].revoked => s \in replayed' \/ endedBy'[s] # "none"
                           \/ (session'[s].scope # "PLATFORM" /\ deleted')
  BY <1>1, <1>2 DEF Safe, Excused, Grows
<1>4. QED
  BY <1>2, <1>3 DEF Safe, Excused

\* What a request keeps while it neither takes a token nor gives one.
Stays(v) ==
  /\ req'[v].op = "rotate" =>
       req[v].op = "rotate" /\ req'[v].token = req[v].token /\ req'[v].ids = req[v].ids
  /\ req'[v].next \in {req[v].next, NoToken}
  /\ Issued(v)' => Issued(v)
  /\ req'[v].op = "revoke" /\ req'[v].why = "reuse" =>
       req[v].op = "revoke" /\ req[v].why = "reuse" /\ req'[v].ids = req[v].ids
  /\ Issued(v) /\ flight' = v => req'[v] = req[v]

\* The refresh ends only when its answer is refused, or lost.
FlightStays ==
  \/ flight' = flight
  \/ /\ flight' = NoWorker
     /\ flight # NoWorker => \/ req[flight].ids \subseteq replayed'
                             \/ store'.token = NoToken /\ req'[flight].op # "rotate"

\* A step that writes no row and hands no token over.
LEMMA QuietReuse ==
  ASSUME Types, ReuseInv, Grows, UNCHANGED <<session, token, endedBy>>,
         store'.token \in {store.token, NoToken}, FlightStays,
         \A v \in Workers : Stays(v)
  PROVE  ReuseInv'
<1>a. /\ SessionTypes /\ RowsPersist
      /\ store.token \in TokenIds \cup {NoToken} /\ flight \in Workers \cup {NoWorker}
  BY DEF Types, ClientTypeOK, RowsPersist
<1>b. \A v \in Workers : Shaped(v)
  BY <1>a DEF SessionTypes, RequestShape
<1>c. \A t \in TokenIds : Exists(t) /\ Safe(t) => Safe(t)'
  BY <1>a, SafeKept
<1>1. IssuedSafe'
  <2> SUFFICES ASSUME NEW v \in Workers, Issued(v)'
               PROVE  Exists(req[v].next)' /\ Safe(req[v].next)'
    BY DEF IssuedSafe
  <2>1. Issued(v) /\ req'[v].next = req[v].next
    BY DEF Stays, Issued
  <2>2. req[v].next \in TokenIds
    BY <1>a, <2>1 DEF Issued, SessionTypes, SessionTypeOK, Request
  <2>3. Exists(req[v].next) /\ Safe(req[v].next)
    BY <2>1 DEF ReuseInv, IssuedSafe
  <2>4. \A t \in TokenIds : t = req[v].next => Safe(t)'
    BY <1>c, <2>3
  <2>5. QED
    BY <2>1, <2>2, <2>3, <2>4 DEF Exists, Safe
<1>2. HandsApart'
  <2> SUFFICES ASSUME NEW v \in Workers, NEW w \in Workers, req'[v].op = "rotate"
               PROVE  req'[v].token # req'[w].next
    BY DEF HandsApart
  <2>1. req[v].op = "rotate" /\ req'[v].token = req[v].token
    BY DEF Stays
  <2>2. req[v].token \in TokenIds /\ req[v].token # req[w].next
    BY <1>b, <2>1 DEF Shaped, ReuseInv, HandsApart
  <2>3. QED
    BY <2>1, <2>2, NoTokenAssumption DEF Stays
<1>3. StoreSafe'
  <2> SUFFICES ASSUME store'.token # NoToken
               PROVE  /\ Exists(store.token)'
                      /\ \A w \in Workers : req'[w].next # store'.token
                      /\ \/ Safe(store.token)'
                         \/ /\ flight' # NoWorker /\ req'[flight'].op = "rotate"
                            /\ Issued(flight)' /\ req'[flight'].token = store'.token
    BY DEF StoreSafe
  <2>1. store'.token = store.token /\ store.token \in TokenIds
    BY <1>a
  <2>2. Exists(store.token)' /\ \A w \in Workers : req'[w].next # store'.token
    BY <2>1 DEF Stays, ReuseInv, StoreSafe, Exists
  <2>3. CASE Safe(store.token)
    <3>1. \A t \in TokenIds : t = store.token => Safe(t)'
      BY <1>c, <2>1, <2>3 DEF ReuseInv, StoreSafe
    <3>2. QED
      BY <2>1, <2>2, <3>1 DEF Safe
  <2>4. CASE /\ flight # NoWorker /\ req[flight].op = "rotate"
             /\ Issued(flight) /\ req[flight].token = store.token
    <3>1. flight \in Workers /\ req[flight].ids = {token[store.token].session}
      BY <1>a, <1>b, <2>4 DEF Shaped
    <3>2. CASE flight' = flight
      BY <2>1, <2>2, <2>4, <3>1, <3>2 DEF Stays, Issued
    <3>3. CASE req[flight].ids \subseteq replayed'
      <4>1. Safe(store.token)'
        BY <2>1, <3>1, <3>3 DEF Safe, Excused
      <4>2. QED
        BY <2>2, <4>1
    <3>4. QED
      BY <2>1, <2>4, <3>2, <3>3 DEF FlightStays
  <2>5. QED
    BY <2>1, <2>3, <2>4 DEF ReuseInv, StoreSafe
<1>4. RotationsAwaited'
  <2> SUFFICES ASSUME NEW v \in Workers, req'[v].op = "rotate"
               PROVE  flight' = v \/ req'[v].ids \subseteq replayed'
    BY DEF RotationsAwaited
  <2>1. req[v].op = "rotate" /\ req'[v].ids = req[v].ids
    BY DEF Stays
  <2>2. CASE flight = v
    BY <2>1, <2>2, NoWorkerAssumption DEF FlightStays
  <2>3. CASE req[v].ids \subseteq replayed
    BY <2>1, <2>3 DEF Grows
  <2>4. QED
    BY <2>1, <2>2, <2>3 DEF ReuseInv, RotationsAwaited
<1>5. ReuseExcused'
  BY DEF ReuseInv, ReuseExcused, Stays, Grows
<1>6. ReuseIsAReplay'
  BY DEF ReuseInv, ReuseIsAReplay, Grows
<1>7. QED
  BY <1>1, <1>2, <1>3, <1>4, <1>5, <1>6 DEF ReuseInv

\* Sessions stay replayed, deleted or ended.
LEMMA NextGrows ==
  ASSUME Types, [Next]_vars
  PROVE  Grows
<1>1. deleted => deleted'
  BY DeletedStays
<1>2. replayed \subseteq replayed'
  <2>1. CASE UNCHANGED vars
    BY <2>1 DEF vars, clientVars
  <2>2. CASE Environment
    BY <2>2 DEF Environment, clientVars
  <2>3. ASSUME NEW w \in Workers, ServerMove(w)
        PROVE  replayed \subseteq replayed'
    BY <2>3, ServerOps DEF clientVars
  <2>4. CASE ClientMove
    BY <2>4 DEF ClientMove, CallMove, Send, Deny, ServeRequest, Join, Rejected, LoggedOut, LoggedIn,
                CallLost, Refreshed, RefreshRefused, RefreshLost, Reload
  <2>5. CASE \E c \in Calls, w \in Workers : WorkerTaken(c, w)
    BY <2>5 DEF WorkerTaken, ServeLogout, StartRefresh, StartLogin
  <2>6. QED
    BY <2>1, <2>2, <2>3, <2>4, <2>5, NextMoves
<1>3. ASSUME NEW s \in SessionIds, endedBy[s] # "none"
      PROVE  endedBy'[s] = endedBy[s]
  <2>1. CASE UNCHANGED sessionVars \/ Tick
    BY <2>1 DEF sessionVars, Tick
  <2>2. ASSUME NEW w \in Workers, SessionMove(w)
        PROVE  endedBy'[s] = endedBy[s]
    <3>1. CASE RevokeCommit(w)
      BY <1>3, <3>1 DEF RevokeCommit, Ended
    <3>2. CASE ~RevokeCommit(w)
      BY <2>2, <3>2 DEF SessionMove, CheckedLogin, LoginIssue, RefreshFind, RotateTokens, RotateCommit,
                  LogoutArrives, CleanupList, DeletionArrives, RevokeSessions, DeadlockBroken
    <3>3. QED
      BY <3>1, <3>2
  <2>3. QED
    BY <2>1, <2>2, SessionMoves
<1>4. QED
  BY <1>1, <1>2, <1>3 DEF Grows

\* A request of the server that writes no row and takes no token stays.
QuietServer(w) ==
  \/ \E scope \in Scopes : CheckedLogin(w, scope)
  \/ \E s \in SessionIds : LogoutArrives(w, s)
  \/ CleanupList(w) \/ DeletionArrives(w) \/ RevokeSessions(w) \/ DeadlockBroken(w)
  \/ Finish(w) /\ ~(flight' = w) /\ UNCHANGED <<now, session, token, endedBy, forked, issuedLate>>

LEMMA QuietStays ==
  ASSUME Types, NEW w \in Workers, QuietServer(w)
  PROVE  /\ UNCHANGED <<session, token, endedBy>>
         /\ \A v \in Workers : Stays(v)
<1>a. req \in [Workers -> Request]
  BY DEF Types, SessionTypes, SessionTypeOK
<1>b. /\ Served.op = "idle" /\ Served.step = "none" /\ Served.next = NoToken
  BY DEF Served
<1>1. /\ UNCHANGED <<session, token, endedBy>>
      /\ \A v \in Workers \ {w} : req'[v] = req[v]
  BY <1>a DEF QuietServer, CheckedLogin, LogoutArrives, CleanupList, DeletionArrives, RevokeSessions,
              DeadlockBroken, Finish
<1>2. \A v \in Workers \ {w} : Stays(v)
  BY <1>1 DEF Stays, Issued
<1>3. Stays(w)
  <2>1. ASSUME NEW scope \in Scopes, CheckedLogin(w, scope)
        PROVE  Stays(w)
    <3>1. /\ req[w] = Served /\ req'[w].op = "login" /\ req'[w].step = "issue"
          /\ req'[w].next = NoToken
      BY <1>a, <2>1 DEF CheckedLogin, Served
    <3>2. QED
      BY <1>b, <3>1 DEF Stays, Issued
  <2>2. ASSUME NEW s \in SessionIds, LogoutArrives(w, s)
        PROVE  Stays(w)
    <3>1. /\ req[w] = Served /\ req'[w].op = "revoke" /\ req'[w].why = "logout"
          /\ req'[w].next = NoToken
      BY <1>a, <2>2 DEF LogoutArrives, Served
    <3>2. QED
      BY <1>b, <3>1 DEF Stays, Issued
  <2>3. CASE CleanupList(w)
    <3>1. /\ req[w] = Served /\ req'[w].op = "revoke" /\ req'[w].why = "cleanup"
          /\ req'[w].next = NoToken
      BY <1>a, <2>3 DEF CleanupList, Served
    <3>2. QED
      BY <1>b, <3>1 DEF Stays, Issued
  <2>4. CASE DeletionArrives(w)
    <3>1. /\ req[w] = Served /\ req'[w].op = "revoke" /\ req'[w].why = "deletion"
          /\ req'[w].next = NoToken
      BY <1>a, <2>4 DEF DeletionArrives, Served
    <3>2. QED
      BY <1>b, <3>1 DEF Stays, Issued
  <2>5. CASE RevokeSessions(w)
    <3>1. /\ req[w].op = "revoke" /\ req'[w].op = "revoke" /\ req'[w].why = req[w].why
          /\ req'[w].next = req[w].next
          /\ req[w].why # "deletion" => req'[w].ids = req[w].ids
      BY <1>a, <2>5 DEF RevokeSessions, Busy, Request
    <3>2. QED
      BY <3>1 DEF Stays, Issued
  <2>6. CASE DeadlockBroken(w)
    <3>1. req[w].step # "answer" /\ req'[w].op = "failed" /\ req'[w].next = NoToken
      BY <1>a, <2>6 DEF DeadlockBroken, WaitsFor, Busy, Served
    <3>2. QED
      BY <3>1 DEF Stays, Issued
  <2>7. CASE Finish(w) /\ ~(flight' = w)
    <3>1. req'[w].op = "idle" /\ req'[w].step = "none" /\ req'[w].next = NoToken
      BY <1>a, <1>b, <2>7 DEF Finish
    <3>2. QED
      BY <2>7, <3>1 DEF Stays, Issued
  <2>8. QED
    BY <2>1, <2>2, <2>3, <2>4, <2>5, <2>6, <2>7 DEF QuietServer
<1>4. QED
  BY <1>1, <1>2, <1>3

\* The rows of a token that may be presented, when a step writes those of T.
KeptSafe(T) ==
  \A t \in TokenIds \ T : Exists(t) /\ Safe(t) => Exists(t)' /\ Safe(t)'

\* A step of one request that may issue a token, and may revoke the one it was given
\* when the client waits for the answer.
LEMMA IssuingReuse ==
  ASSUME Types, ReuseInv, Grows, RowsPersist, UNCHANGED <<store, flight, replayed>>,
         NEW w \in Workers, NEW T,
         \A v \in Workers \ {w} : req'[v] = req[v],
         req'[w].op = req[w].op, req'[w].token = req[w].token, req'[w].why = req[w].why,
         req[w].op # "login" => req'[w].ids = req[w].ids, ~Issued(w),
         req'[w].next # NoToken => ~Exists(req'[w].next),
         Issued(w)' => Exists(req[w].next)' /\ Safe(req[w].next)',
         KeptSafe(T),
         T # {} => /\ T = {req[w].token} /\ req[w].op = "rotate" /\ flight = w
                   /\ Issued(w)',
         ReuseIsAReplay'
  PROVE  ReuseInv'
<1>a. /\ SessionTypes /\ store.token \in TokenIds \cup {NoToken}
      /\ flight \in Workers \cup {NoWorker} /\ \A v \in Workers : req[v] \in Request
  BY DEF Types, ClientTypeOK, SessionTypes, SessionTypeOK
<1>b. \A v \in Workers : Shaped(v)
  BY <1>a DEF SessionTypes, RequestShape
<1>1. IssuedSafe'
  <2> SUFFICES ASSUME NEW v \in Workers, Issued(v)'
               PROVE  Exists(req[v].next)' /\ Safe(req[v].next)'
    BY DEF IssuedSafe
  <2>1. CASE v = w
    BY <2>1
  <2>2. CASE v # w
    <3>1. Issued(v) /\ req'[v] = req[v]
      BY <2>2 DEF Issued
    <3>2. req[v].next \in TokenIds /\ Exists(req[v].next) /\ Safe(req[v].next)
      BY <1>a, <3>1 DEF Issued, Request, ReuseInv, IssuedSafe
    <3>3. req[v].next \notin T
      BY DEF ReuseInv, HandsApart
    <3>4. \A t \in TokenIds : t = req[v].next => Exists(t)' /\ Safe(t)'
      BY <3>2, <3>3 DEF KeptSafe
    <3>5. QED
      BY <3>1, <3>2, <3>4 DEF Exists, Safe
  <2>3. QED
    BY <2>1, <2>2
<1>2. HandsApart'
  <2> SUFFICES ASSUME NEW v \in Workers, NEW u \in Workers, req'[v].op = "rotate"
               PROVE  req'[v].token # req'[u].next
    BY DEF HandsApart
  <2>1. req[v].op = "rotate" /\ req'[v].token = req[v].token
    OBVIOUS
  <2>2. req[v].token \in TokenIds /\ Exists(req[v].token) /\ req[v].token # req[u].next
    BY <1>b, <2>1 DEF Shaped, ReuseInv, HandsApart
  <2>3. QED
    BY <2>1, <2>2, NoTokenAssumption
<1>3. StoreSafe'
  <2> SUFFICES ASSUME store.token # NoToken
               PROVE  /\ Exists(store.token)'
                      /\ \A u \in Workers : req'[u].next # store.token
                      /\ \/ Safe(store.token)'
                         \/ /\ flight # NoWorker /\ req'[flight].op = "rotate"
                            /\ Issued(flight)' /\ req'[flight].token = store.token
    BY DEF StoreSafe
  <2>1. /\ store.token \in TokenIds /\ Exists(store.token)
        /\ \A u \in Workers : req[u].next # store.token
    BY <1>a DEF ReuseInv, StoreSafe
  <2>2. Exists(store.token)' /\ \A u \in Workers : req'[u].next # store.token
    BY <2>1 DEF RowsPersist, Exists
  <2>3. CASE Safe(store.token) /\ store.token \notin T
    <3>1. \A t \in TokenIds : t = store.token => Safe(t)'
      BY <2>1, <2>3 DEF KeptSafe
    <3>2. QED
      BY <2>1, <2>2, <3>1 DEF Safe
  <2>4. CASE store.token \in T
    <3>1. /\ store.token = req[w].token /\ req[w].op = "rotate" /\ flight = w /\ Issued(w)'
      BY <2>4
    <3>2. flight # NoWorker /\ Issued(flight)'
      BY <3>1, NoWorkerAssumption DEF Issued
    <3>3. QED
      BY <2>2, <3>1, <3>2
  <2>5. CASE /\ flight # NoWorker /\ req[flight].op = "rotate"
             /\ Issued(flight) /\ req[flight].token = store.token
    <3>1. flight \in Workers /\ flight # w
      BY <1>a, <2>5
    <3>2. QED
      BY <2>2, <2>5, <3>1 DEF Issued
  <2>6. QED
    BY <2>3, <2>4, <2>5 DEF ReuseInv, StoreSafe
<1>4. RotationsAwaited'
  BY DEF ReuseInv, RotationsAwaited
<1>5. ReuseExcused'
  <2> SUFFICES ASSUME NEW v \in Workers, req'[v].op = "revoke", req'[v].why = "reuse",
                      NEW s \in req'[v].ids
               PROVE  s \in replayed' \/ endedBy'[s] # "none"
    BY DEF ReuseExcused
  <2>1. req[v].op = "revoke" /\ req[v].why = "reuse" /\ s \in req[v].ids
    OBVIOUS
  <2>2. s \in SessionIds
    BY <1>a, <2>1 DEF Request
  <2>3. s \in replayed \/ endedBy[s] # "none"
    BY <2>1 DEF ReuseInv, ReuseExcused
  <2>4. QED
    BY <2>2, <2>3 DEF Grows
<1>6. QED
  BY <1>1, <1>2, <1>3, <1>4, <1>5 DEF ReuseInv

\* The steps that write the rows of sessions and tokens, and the one that takes a
\* new token.
LEMMA RowsReuse ==
  ASSUME Types, ReuseInv, Grows, RowsPersist, UNCHANGED <<store, flight, replayed>>,
         NEW w \in Workers,
         \/ RotateTokens(w) \/ RotateCommit(w) \/ LoginIssue(w)
         \/ RevokeCommit(w) /\ (req[w].why = "deletion" => deleted')
  PROVE  ReuseInv'
<1>a. /\ req \in [Workers -> Request]
      /\ session \in [SessionIds -> [scope : Scopes \cup {"none"}, isActive : BOOLEAN,
                                     expiresAt : 0..(MaxNow + RefreshTtl)]]
      /\ token \in [TokenIds -> [session : SessionIds \cup {NoSession}, revoked : BOOLEAN,
                                 expiresAt : 0..(MaxNow + RefreshTtl)]]
      /\ RowsExist /\ NextFresh /\ SessionTypes
      /\ \A v \in Workers : Shaped(v)
  BY DEF Types, SessionTypes, SessionTypeOK, RequestShape
<1>1. CASE RotateTokens(w)
  <2>1. PICK n \in FreshTokens : req' = [req EXCEPT ![w].step = "session", ![w].next = n]
    BY <1>1 DEF RotateTokens
  <2>2. UNCHANGED <<session, token, endedBy>> /\ Busy(w, "rotate", "tokens")
    BY <1>1 DEF RotateTokens
  <2>3. /\ \A v \in Workers \ {w} : req'[v] = req[v]
        /\ req'[w].op = "rotate" /\ req'[w].step = "session" /\ req'[w].next = n
        /\ req'[w].token = req[w].token /\ req'[w].ids = req[w].ids /\ req'[w].why = req[w].why
    BY <1>a, <2>1, <2>2 DEF Request, Busy
  <2>4. ~Issued(w) /\ ~Issued(w)' /\ ~Exists(req'[w].next)
    BY <2>2, <2>3 DEF Issued, Busy, FreshTokens
  <2>5. KeptSafe({})
    BY <1>a, <2>2, SafeKept DEF KeptSafe, Exists
  <2>6. ReuseIsAReplay'
    BY <2>2 DEF ReuseInv, ReuseIsAReplay
  <2>7. QED
    BY <2>2, <2>3, <2>4, <2>5, <2>6, IssuingReuse DEF Busy
<1>2. CASE RotateCommit(w)
  <2> DEFINE t == req[w].token
             n == req[w].next
             s == token[t].session
             row == [session |-> s, revoked |-> FALSE, expiresAt |-> now + RefreshTtl]
  <2>1. /\ t \in TokenIds /\ Exists(t) /\ n \in TokenIds /\ ~Exists(n)
        /\ Busy(w, "rotate", "session") /\ req[w].ids = {s}
    BY <1>a, <1>2 DEF RotateCommit, Shaped, NextFresh, Busy
  <2>2. token' = [token EXCEPT ![t].revoked = TRUE, ![n] = row] /\ endedBy' = endedBy
    BY <1>2 DEF RotateCommit, Rotated
  <2>3. /\ \A v \in Workers \ {w} : req'[v] = req[v]
        /\ req'[w].op = "rotate" /\ req'[w].step = "answer" /\ req'[w].next = n
        /\ req'[w].token = t /\ req'[w].ids = req[w].ids /\ req'[w].why = req[w].why
    BY <1>a, <1>2, <2>1 DEF RotateCommit, Request, Busy
  <2>4. /\ token'[n].session = s /\ ~token'[n].revoked /\ token'[t].session = s
        /\ \A y \in TokenIds \ {t, n} : token'[y] = token[y]
    BY <1>a, <2>1, <2>2 DEF Exists
  <2>5. s # NoSession /\ s \in SessionIds
    BY <1>a, <2>1 DEF Exists
  <2>6. ~Issued(w) /\ Issued(w)' /\ ~Exists(req'[w].next)
    BY <2>1, <2>3, NoTokenAssumption DEF Issued, Busy
  <2>7. Exists(req[w].next)' /\ Safe(req[w].next)'
    BY <2>3, <2>4, <2>5 DEF Exists, Safe
  <2>8. ReuseIsAReplay'
    BY <2>2 DEF ReuseInv, ReuseIsAReplay
  <2>9. req[w].op = "rotate" /\ req[w].token = t
    BY <2>1 DEF Busy
  <2> HIDE DEF t, n, s, row
  <2>10. ASSUME NEW y \in TokenIds, y # t, Exists(y), Safe(y)
         PROVE  Exists(y)' /\ Safe(y)'
    <3>1. token'[y] = token[y]
      BY <2>1, <2>4, <2>10
    <3>2. Exists(y)' /\ (token'[y].revoked => token[y].revoked)
      BY <2>10, <3>1 DEF Exists
    <3>3. QED
      BY <1>a, <2>10, <3>2, SafeKept
  <2>11. CASE flight = w
    <3>1. KeptSafe({t})
      BY <2>10 DEF KeptSafe
    <3>2. QED
      BY <2>3, <2>6, <2>7, <2>8, <2>9, <2>11, <3>1, IssuingReuse
  <2>12. CASE flight # w
    <3>1. s \in replayed
      BY <2>1, <2>9, <2>12 DEF ReuseInv, RotationsAwaited
    <3>2. ASSUME NEW y \in TokenIds, y = t
          PROVE  Exists(y)' /\ Safe(y)'
      BY <2>4, <2>5, <3>1, <3>2 DEF Exists, Safe, Excused, Grows
    <3>3. KeptSafe({})
      BY <2>10, <3>2 DEF KeptSafe
    <3>4. QED
      BY <2>3, <2>6, <2>7, <2>8, <2>9, <3>3, IssuingReuse
  <2>13. QED
    BY <2>11, <2>12
<1>3. CASE LoginIssue(w)
  <2>1. PICK s \in FreshSessions, t \in FreshTokens :
          /\ token' = [token EXCEPT ![t] = [session |-> s, revoked |-> FALSE,
                                            expiresAt |-> now + RefreshTtl]]
          /\ req' = [req EXCEPT ![w].step = "answer", ![w].ids = {s}, ![w].next = t]
    BY <1>3 DEF LoginIssue
  <2>2. /\ s \in SessionIds /\ t \in TokenIds /\ ~Exists(t)
        /\ Busy(w, "login", "issue") /\ endedBy' = endedBy
    BY <1>3 DEF LoginIssue, FreshSessions, FreshTokens
  <2>3. /\ \A v \in Workers \ {w} : req'[v] = req[v]
        /\ req'[w].op = "login" /\ req'[w].step = "answer" /\ req'[w].next = t
        /\ req'[w].token = req[w].token /\ req'[w].why = req[w].why
    BY <1>a, <2>1, <2>2 DEF Request, Busy
  <2>4. /\ token'[t].session = s /\ ~token'[t].revoked
        /\ \A y \in TokenIds \ {t} : token'[y] = token[y]
    BY <1>a, <2>1, <2>2
  <2>5. ~Issued(w) /\ ~Exists(req'[w].next)
    BY <2>2, <2>3 DEF Issued, Busy
  <2>6. Exists(req[w].next)' /\ Safe(req[w].next)'
    BY <2>2, <2>3, <2>4, NoSessionAssumption DEF Exists, Safe
  <2>7. KeptSafe({})
    <3> SUFFICES ASSUME NEW y \in TokenIds, Exists(y), Safe(y)
                 PROVE  Exists(y)' /\ Safe(y)'
      BY DEF KeptSafe
    <3>1. token'[y] = token[y]
      BY <2>2, <2>4
    <3>2. Exists(y)' /\ (token'[y].revoked => token[y].revoked)
      BY <3>1 DEF Exists
    <3>3. QED
      BY <1>a, <3>2, SafeKept
  <2>8. ReuseIsAReplay'
    BY <2>2 DEF ReuseInv, ReuseIsAReplay
  <2>9. QED
    BY <2>2, <2>3, <2>5, <2>6, <2>7, <2>8, IssuingReuse DEF Busy
<1>4. CASE RevokeCommit(w) /\ (req[w].why = "deletion" => deleted')
  <2> DEFINE ids == req[w].ids
             tokensOf == IF req[w].why = "deletion" THEN SessionsOfTenant ELSE ids
  <2>1. /\ session' = SessionsRevoked(ids) /\ token' = TokensRevoked(tokensOf)
        /\ endedBy' = Ended(ids, req[w].why) /\ Busy(w, "revoke", "tokens")
    BY <1>4 DEF RevokeCommit
  <2>2. /\ \A v \in Workers \ {w} : req'[v] = req[v]
        /\ req'[w].op = "revoke" /\ req'[w].next = NoToken
        /\ req'[w].token = req[w].token /\ req'[w].ids = req[w].ids /\ req'[w].why = req[w].why
    BY <1>a, <1>4, <2>1 DEF RevokeCommit, Request, Busy
  <2>3. req[w].op = "revoke" /\ req[w].why # "none" /\ ids \subseteq SessionIds
    BY <1>a, <2>1 DEF Shaped, Busy, Request
  <2>4. ~Issued(w) /\ ~Issued(w)'
    BY <2>2, <2>3 DEF Issued
  <2>5. \A y \in TokenIds : /\ token'[y].session = token[y].session
                            /\ token[y].session \notin tokensOf => token'[y] = token[y]
    BY <1>a, <2>1 DEF TokensRevoked
  <2>6. \A x \in SessionIds : x \in ids => endedBy'[x] # "none"
    BY <2>1, <2>3 DEF Ended
  <2>7. \A x \in SessionIds : session'[x].scope = session[x].scope
    BY <1>a, <2>1 DEF SessionsRevoked
  <2>8. \A x \in tokensOf : Excused(x)'
    BY <1>4, <2>3, <2>6, <2>7 DEF Excused, SessionsOfTenant
  <2>9. ReuseIsAReplay'
    <3> SUFFICES ASSUME NEW x \in SessionIds, endedBy'[x] = "reuse"
                 PROVE  x \in replayed'
      BY DEF ReuseIsAReplay
    <3>1. endedBy[x] = "reuse" \/ (x \in ids /\ endedBy[x] = "none" /\ req[w].why = "reuse")
      BY <2>1 DEF Ended
    <3>2. QED
      BY <2>3, <3>1 DEF ReuseInv, ReuseIsAReplay, ReuseExcused, Grows
  <2> HIDE DEF ids, tokensOf
  <2>10. KeptSafe({})
    <3> SUFFICES ASSUME NEW y \in TokenIds, Exists(y), Safe(y)
                 PROVE  Exists(y)' /\ Safe(y)'
      BY DEF KeptSafe
    <3>1. Exists(y)'
      BY <2>5 DEF Exists
    <3>2. CASE token[y].session \in tokensOf
      <4>1. \A x : x = token[y].session => Excused(x)'
        BY <2>8, <3>2
      <4>2. QED
        BY <2>5, <3>1, <4>1 DEF Safe, Excused
    <3>3. CASE token[y].session \notin tokensOf
      <4>1. token'[y].revoked => token[y].revoked
        BY <2>5, <3>3
      <4>2. QED
        BY <1>a, <3>1, <4>1, SafeKept
    <3>4. QED
      BY <3>2, <3>3
  <2>11. QED
    BY <2>2, <2>3, <2>4, <2>9, <2>10, IssuingReuse
<1>5. QED
  BY <1>1, <1>2, <1>3, <1>4

\* The client stores the token that a worker has issued, and that worker is free.
LEMMA TokenTaken ==
  ASSUME Types, ReuseInv, Grows, NEW w \in Workers, Issued(w), Finish(w),
         UNCHANGED <<session, token, endedBy, replayed>>,
         store'.token = req[w].next,
         flight' # w, flight' = flight \/ (flight' = NoWorker /\ flight = w)
  PROVE  ReuseInv'
<1>a. /\ SessionTypes /\ RowsPersist /\ NextFresh /\ req \in [Workers -> Request]
      /\ \A v \in Workers : Shaped(v)
  BY DEF Types, SessionTypes, SessionTypeOK, RequestShape, RowsPersist
<1>b. /\ req'[w].op = "idle" /\ req'[w].next = NoToken /\ ~Issued(w)'
      /\ \A v \in Workers \ {w} : req'[v] = req[v]
  BY <1>a DEF Finish, Served, Issued
<1>c. \A t \in TokenIds : Exists(t) /\ Safe(t) => Exists(t)' /\ Safe(t)'
  BY <1>a, SafeKept DEF Exists
<1>d. \A v \in Workers : Issued(v) => req[v].next \in TokenIds /\ Exists(req[v].next) /\ Safe(req[v].next)
  BY <1>a DEF Issued, Request, ReuseInv, IssuedSafe
<1>1. IssuedSafe'
  <2> SUFFICES ASSUME NEW v \in Workers, Issued(v)'
               PROVE  Exists(req[v].next)' /\ Safe(req[v].next)'
    BY DEF IssuedSafe
  <2>1. req'[v] = req[v] /\ Issued(v)
    BY <1>b DEF Issued
  <2>2. \A t \in TokenIds : t = req[v].next => Exists(t)' /\ Safe(t)'
    BY <1>c, <1>d, <2>1
  <2>3. QED
    BY <1>d, <2>1, <2>2 DEF Exists, Safe
<1>2. HandsApart'
  <2> SUFFICES ASSUME NEW v \in Workers, NEW u \in Workers, req'[v].op = "rotate"
               PROVE  req'[v].token # req'[u].next
    BY DEF HandsApart
  <2>1. req'[v] = req[v] /\ req[v].op = "rotate"
    BY <1>b
  <2>2. req[v].token \in TokenIds /\ req[v].token # req[u].next
    BY <1>a, <2>1 DEF Shaped, ReuseInv, HandsApart
  <2>3. QED
    BY <1>b, <2>1, <2>2, NoTokenAssumption
<1>3. StoreSafe'
  <2>1. \A t \in TokenIds : t = req[w].next => Exists(t)' /\ Safe(t)'
    BY <1>c, <1>d
  <2>2. Exists(store.token)' /\ Safe(store.token)'
    BY <1>d, <2>1 DEF Exists, Safe
  <2>3. ASSUME NEW u \in Workers
        PROVE  req'[u].next # store'.token
    BY <1>a, <1>b, <1>d, NoTokenAssumption DEF NextFresh
  <2>4. QED
    BY <2>2, <2>3 DEF StoreSafe
<1>4. RotationsAwaited'
  BY <1>b DEF ReuseInv, RotationsAwaited
<1>5. ReuseExcused'
  BY <1>b DEF ReuseInv, ReuseExcused
<1>6. ReuseIsAReplay'
  BY DEF ReuseInv, ReuseIsAReplay
<1>7. QED
  BY <1>1, <1>2, <1>3, <1>4, <1>5, <1>6 DEF ReuseInv

\* The steps of the client that give it no worker.
LEMMA ClientReuse ==
  ASSUME Types, ReuseInv, Grows, ClientMove
  PROVE  ReuseInv'
<1>a. /\ WorkersApart /\ flight \in Workers \cup {NoWorker} /\ Empty.token = NoToken
      /\ req \in [Workers -> Request] /\ \A v \in Workers : Shaped(v)
  BY DEF Types, ClientTypeOK, SessionTypes, SessionTypeOK, RequestShape, Empty
<1>b. ASSUME UNCHANGED sessionVars, flight' = flight
      PROVE  UNCHANGED <<session, token, endedBy>> /\ \A v \in Workers : Stays(v)
  BY <1>b DEF sessionVars, Stays, Issued
<1>1. ASSUME NEW c \in Calls, \/ \E kind \in {"request", "logout"} : Send(c, kind)
                              \/ Deny(c) \/ ServeRequest(c) \/ Join(c) \/ Rejected(c) \/ CallLost(c)
      PROVE  ReuseInv'
  <2>1. UNCHANGED sessionVars /\ flight' = flight /\ store'.token \in {store.token, NoToken}
    BY <1>1, <1>a DEF Send, Deny, ServeRequest, Join, Rejected, CallLost, Settle
  <2>2. FlightStays
    BY <2>1 DEF FlightStays
  <2>3. QED
    BY <1>b, <2>1, <2>2, QuietReuse
<1>2. ASSUME NEW c \in Calls, LoggedOut(c)
      PROVE  ReuseInv'
  <2>1. call[c].worker \in Workers /\ call[c].worker # flight
    BY <1>a, <1>2 DEF LoggedOut, WorkersApart
  <2>2. /\ flight' = flight /\ store'.token \in {store.token, NoToken}
        /\ QuietServer(call[c].worker)
    BY <1>2, <1>a, <2>1 DEF LoggedOut, Settle, QuietServer
  <2>3. UNCHANGED <<session, token, endedBy>> /\ \A v \in Workers : Stays(v)
    BY <2>1, <2>2, QuietStays
  <2>4. FlightStays
    BY <2>2 DEF FlightStays
  <2>5. QED
    BY <2>2, <2>3, <2>4, QuietReuse
<1>3. ASSUME NEW c \in Calls, LoggedIn(c)
      PROVE  ReuseInv'
  <2>1. /\ call[c].worker \in Workers /\ call[c].worker # flight
        /\ Busy(call[c].worker, "login", "answer")
    BY <1>a, <1>3 DEF LoggedIn, WorkersApart, Busy
  <2>2. Issued(call[c].worker)
    BY <1>a, <2>1, NoTokenAssumption DEF Shaped, Busy, Issued
  <2>3. /\ Finish(call[c].worker) /\ UNCHANGED <<session, token, endedBy, replayed, flight>>
        /\ store'.token = req[call[c].worker].next
    BY <1>3 DEF LoggedIn, Tokens
  <2>4. QED
    BY <2>1, <2>2, <2>3, TokenTaken
<1>4. CASE Refreshed
  <2>1. flight \in Workers /\ Issued(flight)
    BY <1>a, <1>4 DEF Refreshed, Issued
  <2>2. /\ Finish(flight) /\ UNCHANGED <<session, token, endedBy, replayed>>
        /\ store'.token = req[flight].next /\ flight' = NoWorker
    BY <1>4 DEF Refreshed, Tokens
  <2>3. flight' # flight
    BY <2>1, <2>2, NoWorkerAssumption
  <2>4. QED
    BY <2>1, <2>2, <2>3, TokenTaken
<1>5. CASE RefreshRefused
  <2>1. /\ flight \in Workers /\ Finish(flight) /\ flight' = NoWorker /\ store'.token = NoToken
        /\ UNCHANGED <<now, session, token, endedBy, forked, issuedLate>>
    BY <1>5, <1>a DEF RefreshRefused, Settle
  <2>2. QuietServer(flight)
    BY <2>1, NoWorkerAssumption DEF QuietServer
  <2>3. UNCHANGED <<session, token, endedBy>> /\ \A v \in Workers : Stays(v)
    BY <2>1, <2>2, QuietStays
  <2>4. req'[flight].op = "idle"
    BY <1>a, <2>1 DEF Finish, Served
  <2>5. FlightStays
    BY <2>1, <2>4 DEF FlightStays
  <2>6. QED
    BY <2>1, <2>3, <2>5, QuietReuse
<1>6. CASE RefreshLost \/ Reload
  <2>1. /\ UNCHANGED sessionVars /\ flight' = NoWorker /\ replayed' = replayed \cup FlightOf
        /\ store'.token \in {store.token, NoToken}
    BY <1>6, <1>a DEF RefreshLost, Reload, Settle
  <2>2. UNCHANGED <<session, token, endedBy>> /\ \A v \in Workers : Stays(v)
    BY <2>1, NoWorkerAssumption DEF sessionVars, Stays, Issued
  <2>3. FlightStays
    BY <2>1 DEF FlightStays, FlightOf
  <2>4. QED
    BY <2>1, <2>2, <2>3, QuietReuse
<1>7. QED
  BY <1>1, <1>2, <1>3, <1>4, <1>5, <1>6 DEF ClientMove, CallMove

\* A token that may be presented is taken for a theft only with reason.
LEMMA ReuseHasReason ==
  ASSUME Types, NEW t \in TokenIds, Exists(t), Safe(t), IsReuse(t)
  PROVE  token[t].session \in replayed \/ endedBy[token[t].session] # "none"
BY DEF Safe, Excused, IsReuse, Found, TenantFinds, PlatformFinds, TenantUsable, SessionOf

\* The client is given a worker.
LEMMA TakenReuse ==
  ASSUME Types, ReuseInv, Grows, NEW c \in Calls, NEW w \in Workers, WorkerTaken(c, w)
  PROVE  ReuseInv'
<1>a. /\ SessionTypes /\ RequestShape /\ req \in [Workers -> Request]
      /\ call \in [Calls -> Call] /\ flight \in Workers \cup {NoWorker}
      /\ store.token \in TokenIds \cup {NoToken}
  BY DEF Types, ClientTypeOK, SessionTypes, SessionTypeOK
<1>1. ASSUME QuietServer(w), flight' = flight, store' = store
      PROVE  ReuseInv'
  <2>1. UNCHANGED <<session, token, endedBy>> /\ \A v \in Workers : Stays(v)
    BY <1>1, QuietStays
  <2>2. FlightStays
    BY <1>1 DEF FlightStays
  <2>3. QED
    BY <1>1, <2>1, <2>2, QuietReuse
<1>2. CASE ServeLogout(c, w)
  <2>1. call[c].bearer \in SessionIds
    BY <1>a, <1>2 DEF ServeLogout, Valid, Call
  <2>2. QuietServer(w) /\ flight' = flight /\ store' = store
    BY <1>2, <2>1 DEF ServeLogout, QuietServer
  <2>3. QED
    BY <1>1, <2>2
<1>3. ASSUME NEW scope \in Offered, StartLogin(c, w, scope)
      PROVE  ReuseInv'
  <2>1. QuietServer(w) /\ flight' = flight /\ store' = store
    BY <1>3 DEF StartLogin, Login, StaffLogin, PlatformLogin, Scopes, QuietServer
  <2>2. QED
    BY <1>1, <2>1
<1>4. CASE StartRefresh(c, w)
  <2> DEFINE t == store.token
  <2>1. /\ flight = NoWorker /\ flight' = w /\ req[w] = Served /\ RefreshFind(w, t)
        /\ t \in TokenIds /\ Exists(t) /\ UNCHANGED <<store, replayed, session, token, endedBy>>
    BY <1>4, <1>a DEF StartRefresh, RefreshFind, Idle
  <2>2. Safe(t) /\ \A u \in Workers : req[u].next # t
    BY <2>1, NoTokenAssumption DEF ReuseInv, StoreSafe
  <2>3. /\ req'[w].op \in {"rotate", "revoke"}
        /\ req'[w].why = "reuse" => IsReuse(t)
        /\ req'[w].next = NoToken /\ req'[w].token = t /\ req'[w].ids = {token[t].session}
        /\ \A v \in Workers \ {w} : req'[v] = req[v]
    BY <1>a, <2>1 DEF RefreshFind, Served
  <2>4. \A y \in TokenIds : Exists(y) /\ Safe(y) => Exists(y)' /\ Safe(y)'
    <3>1. RowsPersist
      BY <2>1 DEF RowsPersist
    <3>2. QED
      BY <1>a, <2>1, <3>1, SafeKept DEF Exists
  <2>5. IssuedSafe'
    <3> SUFFICES ASSUME NEW v \in Workers, Issued(v)'
                 PROVE  Exists(req[v].next)' /\ Safe(req[v].next)'
      BY DEF IssuedSafe
    <3>1. req'[v] = req[v] /\ Issued(v)
      BY <2>3 DEF Issued
    <3>2. req[v].next \in TokenIds /\ Exists(req[v].next) /\ Safe(req[v].next)
      BY <1>a, <3>1 DEF Issued, Request, ReuseInv, IssuedSafe
    <3>3. \A y \in TokenIds : y = req[v].next => Exists(y)' /\ Safe(y)'
      BY <2>4, <3>2
    <3>4. QED
      BY <3>1, <3>2, <3>3 DEF Exists, Safe
  <2>6. HandsApart'
    <3> SUFFICES ASSUME NEW v \in Workers, NEW u \in Workers, req'[v].op = "rotate"
                 PROVE  req'[v].token # req'[u].next
      BY DEF HandsApart
    <3>1. req'[v].token \in TokenIds
      BY <1>a, <2>1, <2>3 DEF RequestShape, Shaped
    <3>2. req'[v].token # req[u].next
      BY <2>2, <2>3 DEF ReuseInv, HandsApart
    <3>3. QED
      BY <2>3, <3>1, <3>2, NoTokenAssumption
  <2>7. StoreSafe'
    <3>1. \A y \in TokenIds : y = store.token => Exists(y)' /\ Safe(y)'
      BY <2>1, <2>2, <2>4
    <3>2. Exists(store.token)' /\ Safe(store.token)'
      BY <2>1, <3>1 DEF Exists, Safe
    <3>3. \A u \in Workers : req'[u].next # store'.token
      BY <2>1, <2>2, <2>3, NoTokenAssumption
    <3>4. QED
      BY <3>2, <3>3 DEF StoreSafe
  <2>8. RotationsAwaited'
    BY <1>a, <2>1, <2>3, NoWorkerAssumption DEF ReuseInv, RotationsAwaited
  <2>9. ReuseExcused'
    <3>1. IsReuse(t) => token[t].session \in replayed \/ endedBy[token[t].session] # "none"
      BY <2>1, <2>2, ReuseHasReason
    <3>2. QED
      BY <2>1, <2>3, <3>1 DEF ReuseInv, ReuseExcused
  <2>10. ReuseIsAReplay'
    BY <2>1 DEF ReuseInv, ReuseIsAReplay
  <2>11. QED
    BY <2>5, <2>6, <2>7, <2>8, <2>9, <2>10 DEF ReuseInv
<1>5. QED
  BY <1>2, <1>3, <1>4 DEF WorkerTaken

\* The server, for this client and for others.
LEMMA ServerReuse ==
  ASSUME Types, ReuseInv, Grows, NEW w \in Workers, ServerMove(w)
  PROVE  ReuseInv'
<1>a. UNCHANGED <<store, flight, replayed>>
  BY ServerOps DEF clientVars
<1>b. FlightStays /\ store'.token \in {store.token, NoToken}
  BY <1>a DEF FlightStays
<1>1. CASE UNCHANGED sessionVars
  <2>1. UNCHANGED <<session, token, endedBy>> /\ \A v \in Workers : Stays(v)
    BY <1>1 DEF sessionVars, Stays, Issued
  <2>2. QED
    BY <1>b, <2>1, QuietReuse
<1>2. CASE QuietServer(w)
  <2>1. UNCHANGED <<session, token, endedBy>> /\ \A v \in Workers : Stays(v)
    BY <1>2, QuietStays
  <2>2. QED
    BY <1>b, <2>1, QuietReuse
<1>3. ASSUME \/ RotateTokens(w) \/ RotateCommit(w) \/ LoginIssue(w)
             \/ RevokeCommit(w) /\ (req[w].why = "deletion" => deleted')
      PROVE  ReuseInv'
  <2>1. SessionMove(w) /\ SessionTypes
    BY <1>3 DEF SessionMove, Types
  <2>2. RowsPersist
    BY <2>1, MoveTypes
  <2>3. QED
    BY <1>3, <1>a, <2>2, RowsReuse
<1>4. CASE Others(w)
  BY <1>1, <1>2, <1>4 DEF Others, QuietServer
<1>5. CASE Server(w)
  <2>1. CASE req[w].why # "deletion" /\ SessionStep(w)
    BY <1>2, <1>3, <2>1 DEF SessionStep, QuietServer
  <2>2. CASE ~Awaited(w) /\ Answered(w)
    <3>1. QuietServer(w)
      BY <1>a, <2>2 DEF Awaited, Answered, QuietServer
    <3>2. QED
      BY <1>2, <3>1
  <2>3. QED
    BY <1>1, <1>5, <2>1, <2>2 DEF Server
<1>6. CASE Deletion(w)
  BY <1>2, <1>3, <1>6 DEF Deletion, DeleteCommit, QuietServer
<1>7. CASE DeletionFails(w)
  BY <1>2, <1>7 DEF DeletionFails, QuietServer
<1>8. QED
  BY <1>4, <1>5, <1>6, <1>7 DEF ServerMove

\* Nothing is rotated, issued or revoked yet.
LEMMA InitReuse == Init => ReuseInv
<1> SUFFICES ASSUME Init
             PROVE  ReuseInv
  OBVIOUS
<1>1. /\ \A w \in Workers : req[w].op = "idle"
      /\ store.token = NoToken /\ \A s \in SessionIds : endedBy[s] = "none"
  BY DEF Init, SessionInit, ClientInit, Served, Empty
<1>2. QED
  BY <1>1 DEF ReuseInv, IssuedSafe, Issued, HandsApart, StoreSafe, RotationsAwaited, ReuseExcused,
              ReuseIsAReplay

LEMMA NextReuse == Types /\ ReuseInv /\ [Next]_vars => ReuseInv'
<1> SUFFICES ASSUME Types, ReuseInv, [Next]_vars
             PROVE  ReuseInv'
  OBVIOUS
<1>1. Grows
  BY NextGrows
<1>2. CASE UNCHANGED vars \/ Environment
  <2>1. UNCHANGED <<session, token, endedBy, req>> /\ UNCHANGED clientVars
    BY <1>2 DEF vars, Environment, Tick, sessionVars, clientVars
  <2>2. \A v \in Workers : Stays(v)
    BY <2>1 DEF Stays, Issued
  <2>3. FlightStays /\ store'.token \in {store.token, NoToken}
    BY <2>1 DEF clientVars, FlightStays
  <2>4. QED
    BY <1>1, <2>1, <2>2, <2>3, QuietReuse
<1>3. ASSUME NEW w \in Workers, ServerMove(w)
      PROVE  ReuseInv'
  BY <1>1, <1>3, ServerReuse
<1>4. CASE ClientMove
  BY <1>1, <1>4, ClientReuse
<1>5. CASE \E c \in Calls, w \in Workers : WorkerTaken(c, w)
  BY <1>1, <1>5, TakenReuse
<1>6. QED
  BY <1>2, <1>3, <1>4, <1>5, NextMoves

\* However its calls and its refreshes interleave, the client makes the server take
\* it for a thief only when the answer of a refresh was lost.
THEOREM ReuseIsAReplayHolds == Spec => []ReuseIsAReplay
<1>1. ReuseInv => ReuseIsAReplay
  BY DEF ReuseInv
<1>2. QED
  BY <1>1, InitTypes, NextTypes, InitReuse, NextReuse, PTL DEF Spec

=============================================================================
