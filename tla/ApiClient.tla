----------------------------- MODULE ApiClient ------------------------------
(***************************************************************************)
(* One desktop client against the sessions of the server: the store of its *)
(* tokens, its calls, the refresh that they share when the server answers  *)
(* 401, login, logout, and a reload of the window, which keeps the store   *)
(* and forgets the calls.                                                  *)
(* Source: apps/desktop/src/renderer/src/api/index.ts,                     *)
(* stores/auth.store.ts and hooks/auth/useAuth.ts.                         *)
(*                                                                         *)
(* A call and the refresh travel: what the server did is known only when   *)
(* its answer arrives, and an answer may be lost.                          *)
(***************************************************************************)
EXTENDS Sessions

CONSTANTS
  Calls,      \* calls that may be under way at the same time
  NoWorker,
  Offered,    \* the scopes a user may log in with
  AccessTtl,  \* JWT_ACCESS_TTL, in ticks of the clock
  MaxLogins,  \* bound: logins
  MaxLosses   \* bound: answers lost and reloads

ASSUME OfferedAssumption == Offered \subseteq Scopes
ASSUME NoWorkerAssumption == NoWorker \notin Workers
ASSUME ClientAssumption == AccessTtl \in Nat \ {0} /\ MaxLogins \in Nat /\ MaxLosses \in Nat

VARIABLES
  store,    \* what auth.store persists: the session, its tokens
  call,     \* call[c]: how far call c is
  flight,   \* refreshPromise: the worker that serves it, or NoWorker
  logins, losses,   \* how much of the bounds is used up
  (* History, read by no action: *)
  replayed  \* the sessions whose rotation was answered to nobody

clientVars == <<store, call, flight, logins, losses, replayed>>
vars == <<accessVars, sessionVars, clientVars>>

-----------------------------------------------------------------------------
(* Data *)

\* The access token names the session and is valid until a time.
Empty == [session |-> NoSession, token |-> NoToken, until |-> 0]

Call == [kind   : {"request", "logout", "login"},
         step   : {"idle", "sent", "working", "denied", "waiting"},
         bearer : SessionIds \cup {NoSession},
         until  : 0..(MaxNow + AccessTtl),
         again  : BOOLEAN,                \* it was sent again after a refresh
         worker : Workers \cup {NoWorker}]

NoCall == [kind |-> "request", step |-> "idle", bearer |-> NoSession, until |-> 0,
           again |-> FALSE, worker |-> NoWorker]

\* A worker whose answer the client waits for.
Awaited(w) == flight = w \/ \E c \in Calls : call[c].worker = w

Idle(w) == req[w] = Served /\ gate[w] = Through

ClientInit ==
  /\ store = Empty
  /\ call = [c \in Calls |-> NoCall]
  /\ flight = NoWorker
  /\ logins \in 0..MaxLogins
  /\ losses \in 0..MaxLosses
  /\ replayed = {}

\* request(): execute with the access token of the store.
Execute(from, again) ==
  [from EXCEPT !.step = "sent", !.bearer = store.session, !.until = store.until,
               !.again = again]

-----------------------------------------------------------------------------
(* Calls *)

Send(c, kind) ==
  /\ call[c].step = "idle"
  /\ store.session # NoSession
  /\ kind = "logout" => \A d \in Calls : call[d].kind # "logout"
  /\ call' = [call EXCEPT ![c] = Execute([NoCall EXCEPT !.kind = kind], FALSE)]
  /\ UNCHANGED <<accessVars, sessionVars, store, flight, logins, losses, replayed>>

\* The guard: the token verifies, and its session is found.
Valid(c) == call[c].bearer # NoSession /\ call[c].until > now /\ Authenticated(call[c].bearer)

Deny(c) ==
  /\ call[c].step = "sent"
  /\ ~Valid(c)
  /\ call' = [call EXCEPT ![c].step = "denied"]
  /\ UNCHANGED <<accessVars, sessionVars, store, flight, logins, losses, replayed>>

\* A request that is let through ends: its answer changes nothing here.
ServeRequest(c) ==
  /\ call[c].step = "sent" /\ call[c].kind = "request"
  /\ Valid(c)
  /\ call' = [call EXCEPT ![c] = NoCall]
  /\ UNCHANGED <<accessVars, sessionVars, store, flight, logins, losses, replayed>>

ServeLogout(c, w) ==
  /\ call[c].step = "sent" /\ call[c].kind = "logout"
  /\ Valid(c)
  /\ Idle(w)
  /\ LogoutArrives(w, call[c].bearer)
  /\ call' = [call EXCEPT ![c].step = "working", ![c].worker = w]
  /\ UNCHANGED <<accessVars, store, flight, logins, losses, replayed>>

\* refreshSession: a call that is denied joins the refresh under way.
Join(c) ==
  /\ call[c].step = "denied" /\ ~call[c].again
  /\ flight # NoWorker
  /\ call' = [call EXCEPT ![c].step = "waiting"]
  /\ UNCHANGED <<accessVars, sessionVars, store, flight, logins, losses, replayed>>

\* Mutant: every call that is denied refreshes on its own.
RefreshAlone(c, w) ==
  /\ call[c].step = "denied" /\ ~call[c].again
  /\ store.token # NoToken
  /\ Idle(w)
  /\ RefreshFind(w, store.token)
  /\ flight' = w
  /\ call' = [call EXCEPT ![c].step = "waiting"]
  /\ UNCHANGED <<accessVars, store, logins, losses, replayed>>

\* performRefresh with the refresh token of the store.
StartRefresh(c, w) ==
  /\ call[c].step = "denied" /\ ~call[c].again
  /\ flight = NoWorker
  /\ store.token # NoToken
  /\ Idle(w)
  /\ RefreshFind(w, store.token)
  /\ flight' = w
  /\ call' = [call EXCEPT ![c].step = "waiting"]
  /\ UNCHANGED <<accessVars, store, logins, losses, replayed>>

\* The calls in cs end; a logout that ends, however it does, clears the store.
Settle(cs, kept) ==
  /\ call' = [c \in Calls |-> IF c \in cs THEN NoCall ELSE call[c]]
  /\ store' = IF \E c \in cs : call[c].kind = "logout" THEN Empty ELSE kept

\* Denied after a refresh, or with nothing to refresh with.
Rejected(c) ==
  /\ call[c].step = "denied"
  /\ call[c].again \/ (flight = NoWorker /\ store.token = NoToken)
  /\ Settle({c}, store)
  /\ UNCHANGED <<accessVars, sessionVars, flight, logins, losses, replayed>>

\* Logout, or its failure, is answered.
LoggedOut(c) ==
  LET w == call[c].worker IN
  /\ call[c].step = "working" /\ call[c].kind = "logout"
  /\ req[w].step = "answer"
  /\ Settle({c}, store)
  /\ Finish(w)
  /\ UNCHANGED <<accessVars, now, session, token, endedBy, forked, issuedLate, flight, logins, losses,
                 replayed>>

-----------------------------------------------------------------------------
(* Login and the answer of a refresh *)

StartLogin(c, w, scope) ==
  /\ call[c].step = "idle"
  /\ store.session = NoSession
  /\ \A d \in Calls : call[d].kind # "login"
  /\ logins < MaxLogins /\ logins' = logins + 1
  /\ Idle(w)
  /\ \/ scope = "TENANT" /\ Login(w)
     \/ scope = "POS" /\ StaffLogin(w)
     \/ scope = "PLATFORM" /\ PlatformLogin(w)
  /\ call' = [call EXCEPT ![c] = [NoCall EXCEPT !.kind = "login", !.step = "working", !.worker = w]]
  /\ UNCHANGED <<accessVars, store, flight, losses, replayed>>

\* setSession with the tokens that worker w issued.
Tokens(w) ==
  [session |-> token[req[w].next].session, token |-> req[w].next, until |-> now + AccessTtl]

LoggedIn(c) ==
  LET w == call[c].worker IN
  /\ call[c].step = "working" /\ call[c].kind = "login"
  /\ req[w].step = "answer"
  /\ store' = Tokens(w)
  /\ call' = [call EXCEPT ![c] = NoCall]
  /\ Finish(w)
  /\ UNCHANGED <<accessVars, now, session, token, endedBy, forked, issuedLate, flight, logins, losses,
                 replayed>>

WaitingCalls == {c \in Calls : call[c].step = "waiting"}

\* performRefresh stores the new tokens, whatever the store holds by now; the
\* calls that wait are sent again with them.
Refreshed ==
  LET w == flight IN
  /\ flight # NoWorker
  /\ req[w].op = "rotate" /\ req[w].step = "answer" /\ req[w].next # NoToken
  /\ store' = Tokens(w)
  /\ call' = [c \in Calls |->
       IF c \in WaitingCalls
         THEN [call[c] EXCEPT !.step = "sent", !.again = TRUE,
                              !.bearer = Tokens(w).session, !.until = Tokens(w).until]
         ELSE call[c]]
  /\ flight' = NoWorker
  /\ Finish(w)
  /\ UNCHANGED <<accessVars, now, session, token, endedBy, forked, issuedLate, logins, losses, replayed>>

\* Any other answer of the refresh clears the store.
RefreshRefused ==
  LET w == flight IN
  /\ flight # NoWorker
  /\ req[w].step = "answer"
  /\ ~(req[w].op = "rotate" /\ req[w].next # NoToken)
  /\ Settle(WaitingCalls, Empty)
  /\ flight' = NoWorker
  /\ Finish(w)
  /\ UNCHANGED <<accessVars, now, session, token, endedBy, forked, issuedLate, logins, losses, replayed>>

-----------------------------------------------------------------------------
(* Faults: an answer is lost, the window is reloaded.  The server goes on. *)

FlightOf == IF flight = NoWorker THEN {} ELSE req[flight].ids

RefreshLost ==
  /\ flight # NoWorker
  /\ losses < MaxLosses /\ losses' = losses + 1
  /\ Settle(WaitingCalls, store)
  /\ flight' = NoWorker
  /\ replayed' = replayed \cup FlightOf
  /\ UNCHANGED <<accessVars, sessionVars, logins>>

CallLost(c) ==
  /\ call[c].step \in {"sent", "working"}
  /\ losses < MaxLosses /\ losses' = losses + 1
  /\ Settle({c}, store)
  /\ UNCHANGED <<accessVars, sessionVars, flight, logins, replayed>>

Reload ==
  /\ losses < MaxLosses /\ losses' = losses + 1
  /\ flight # NoWorker \/ \E c \in Calls : call[c] # NoCall
  /\ call' = [c \in Calls |-> NoCall]
  /\ flight' = NoWorker
  /\ replayed' = replayed \cup FlightOf
  /\ UNCHANGED <<accessVars, sessionVars, store, logins>>

-----------------------------------------------------------------------------
(* Composition *)

Init == AccessInit /\ SessionInit /\ ClientInit

ServerOnly(A) == A /\ UNCHANGED clientVars

\* Requests of the platform and of other users of the tenant.
Others(w) ==
  /\ Idle(w)
  /\ \/ RequestArrives(w) /\ UNCHANGED sessionVars
     \/ \E s \in Statuses : ChangeArrives(w, "status", s) /\ UNCHANGED sessionVars
     \/ \E f \in {"on", "off"} : ChangeArrives(w, "override", f) /\ UNCHANGED sessionVars
     \/ \E op \in {"restore", "plan"} : ChangeArrives(w, op, Absent) /\ UNCHANGED sessionVars
     \/ ChangeArrives(w, "delete", Absent) /\ DeletionArrives(w)
     \/ CleanupList(w) /\ UNCHANGED accessVars
  /\ UNCHANGED clientVars

\* The deletion commits the tenant, its sessions and their tokens together; if
\* its transaction fails, so does the request.
Deletion(w) ==
  /\ gate[w].op = "delete" /\ req[w].why = "deletion"
  /\ \/ DeleteCommit(w) /\ RevokeCommit(w)
     \/ RevokeSessions(w) /\ UNCHANGED accessVars
  /\ UNCHANGED clientVars

DeletionFails(w) ==
  /\ gate[w].op = "delete"
  /\ DeadlockBroken(w)
  /\ Leave(w)
  /\ UNCHANGED <<status, deleted, override, cached, arrivals, changes, failures, doubtful, clientVars>>

Server(w) ==
  /\ \/ GateStep(w) /\ UNCHANGED sessionVars
     \/ /\ req[w].why # "deletion"
        /\ SessionStep(w) /\ UNCHANGED accessVars
     \/ ~Awaited(w) /\ Answered(w) /\ UNCHANGED accessVars
  /\ UNCHANGED clientVars

Environment ==
  /\ \/ Tick /\ UNCHANGED accessVars
     \/ \E k \in Keys : EntryExpires(k) /\ UNCHANGED sessionVars
  /\ UNCHANGED clientVars

Next ==
  \/ Environment
  \/ \E w \in Workers : Others(w) \/ Server(w) \/ Deletion(w) \/ DeletionFails(w)
  \/ \E c \in Calls :
       \/ \E kind \in {"request", "logout"} : Send(c, kind)
       \/ Deny(c) \/ ServeRequest(c) \/ Join(c) \/ Rejected(c)
       \/ LoggedOut(c) \/ LoggedIn(c) \/ CallLost(c)
       \/ \E w \in Workers :
            \/ ServeLogout(c, w) \/ StartRefresh(c, w)
            \/ \E scope \in Offered : StartLogin(c, w, scope)
  \/ Refreshed \/ RefreshRefused \/ RefreshLost \/ Reload

Spec == Init /\ [][Next]_vars

-----------------------------------------------------------------------------
(* Properties *)

ClientTypeOK ==
  /\ store \in [session : SessionIds \cup {NoSession}, token : TokenIds \cup {NoToken},
                until : 0..(MaxNow + AccessTtl)]
  /\ call \in [Calls -> Call]
  /\ flight \in Workers \cup {NoWorker}
  /\ logins \in 0..MaxLogins
  /\ losses \in 0..MaxLosses
  /\ replayed \subseteq SessionIds

TypeOK == AccessTypeOK /\ SessionTypeOK /\ ClientTypeOK

(* However its calls and its refreshes interleave, the client never makes  *)
(* the server take it for a thief: the detection of reuse ends a session   *)
(* only if the answer of a refresh was lost (api/index.ts:92,              *)
(* auth.service.ts:109).                                                   *)
ReuseIsAReplay == \A s \in SessionIds : endedBy[s] = "reuse" => s \in replayed

=============================================================================
