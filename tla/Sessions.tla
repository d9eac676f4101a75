------------------------------ MODULE Sessions ------------------------------
(***************************************************************************)
(* The sessions of users and their refresh tokens: login, the rotation of  *)
(* a token by a refresh, the detection of a token that is used again,      *)
(* logout, and the hourly job that closes the sessions of the POS.         *)
(* Source: apps/api/src/modules/auth (application, infrastructure and      *)
(* guards); the sessions of the platform, in tables of their own, follow   *)
(* the same protocol in platform.service.ts and platform.repository.ts.    *)
(*                                                                         *)
(* A transaction runs at READ COMMITTED and keeps the rows it wrote locked *)
(* until it commits.  A rotation writes the token and then the session, a  *)
(* revocation the sessions and then their tokens: two workers may wait for *)
(* each other, and PostgreSQL then fails one of them.                      *)
(***************************************************************************)
EXTENDS TenantAccess, FiniteSets

CONSTANTS
  SessionIds,   \* ids of sessions
  TokenIds,     \* ids of refresh tokens
  NoSession, NoToken,
  RefreshTtl,   \* JWT_REFRESH_TTL, in ticks of the clock
  MaxNow        \* bound: ticks of the clock

ASSUME NoSessionAssumption == NoSession \notin SessionIds
ASSUME NoTokenAssumption == NoToken \notin TokenIds
ASSUME TtlAssumption == RefreshTtl \in Nat \ {0} /\ MaxNow \in Nat

VARIABLES
  now,
  session,    \* session[s]: its row; a scope "none" is a row not created
  token,      \* token[t]: its row; NoSession is a row not created
  req,        \* req[w]: the session request that w is serving
  (* History, read by no action: *)
  endedBy,    \* endedBy[s]: what revoked session s first
  forked,     \* the sessions of which two requests rotated one token
  issuedLate  \* the sessions that gave tokens to a request made after they ended

sessionVars == <<now, session, token, req, endedBy, forked, issuedLate>>

-----------------------------------------------------------------------------
(* Data *)

Scopes == {"TENANT", "POS", "PLATFORM"}

\* revokedAt of a session is set exactly when isActive is cleared.
NoRow == [scope |-> "none", isActive |-> FALSE, expiresAt |-> 0]
NoTokenRow == [session |-> NoSession, revoked |-> FALSE, expiresAt |-> 0]

Request == [op    : {"idle", "login", "rotate", "revoke", "failed"},
            step  : {"none", "issue", "tokens", "session", "answer"},
            scope : Scopes,
            ids   : SUBSET SessionIds,         \* the sessions it is about
            token : TokenIds \cup {NoToken},   \* the token it was given
            next  : TokenIds \cup {NoToken},   \* the token it issues
            why   : {"none", "logout", "reuse", "cleanup", "deletion"},
            late  : BOOLEAN]                   \* it arrived after its session ended

Served == [op |-> "idle", step |-> "none", scope |-> "TENANT", ids |-> {},
           token |-> NoToken, next |-> NoToken, why |-> "none", late |-> FALSE]

Busy(w, op, step) == req[w].op = op /\ req[w].step = step

Exists(t) == token[t].session # NoSession
SessionOf(t) == session[token[t].session]
IsPast(time) == time <= now

\* A user of the tenant counts only while the tenant is active and not deleted.
TenantUsable == IsActive(status) /\ ~deleted
Usable(scope) == scope = "PLATFORM" \/ TenantUsable

Lives(s) == session[s].isActive /\ ~IsPast(session[s].expiresAt)

\* What the guard of every request asks: findAuthenticatedUserBySession and
\* findAuthenticatedPlatformUserBySession.
TenantAuthenticated(s) == session[s].scope \in {"TENANT", "POS"} /\ Lives(s) /\ TenantUsable
PlatformAuthenticated(s) == session[s].scope = "PLATFORM" /\ Lives(s)
Authenticated(s) == TenantAuthenticated(s) \/ PlatformAuthenticated(s)

\* Rows that no transaction has claimed.
FreshSessions == {s \in SessionIds : session[s].scope = "none"}
FreshTokens == {t \in TokenIds : ~Exists(t) /\ \A w \in Workers : req[w].next # t}

SessionInit ==
  /\ now \in 0..MaxNow
  /\ session = [s \in SessionIds |-> NoRow]
  /\ token = [t \in TokenIds |-> NoTokenRow]
  /\ req = [w \in Workers |-> Served]
  /\ endedBy = [s \in SessionIds |-> "none"]
  /\ forked = {}
  /\ issuedLate = {}

Tick ==
  /\ now < MaxNow
  /\ now' = now + 1
  /\ UNCHANGED <<session, token, req, endedBy, forked, issuedLate>>

Finish(w) == req' = [req EXCEPT ![w] = Served]

-----------------------------------------------------------------------------
(* Locks *)

\* w waits for a row that v has written and not yet committed.
WaitsFor(w, v) ==
  /\ v # w
  /\ \/ /\ Busy(w, "revoke", "session")             \* another revocation has the session
        /\ Busy(v, "revoke", "tokens") /\ req[w].ids \cap req[v].ids # {}
     \/ /\ Busy(w, "revoke", "tokens")              \* a rotation has the old token
        /\ Busy(v, "rotate", "session") /\ req[v].ids \subseteq req[w].ids
     \/ /\ Busy(w, "rotate", "session")             \* a revocation has the session
        /\ Busy(v, "revoke", "tokens") /\ req[w].ids \subseteq req[v].ids
     \/ /\ Busy(w, "rotate", "tokens")              \* another rotation has the token
        /\ Busy(v, "rotate", "session") /\ req[v].token = req[w].token

Waiting(w) == \E v \in Workers : WaitsFor(w, v)

\* Two workers wait for each other: the transaction of one of them fails.
DeadlockBroken(w) ==
  /\ \E v \in Workers : WaitsFor(w, v) /\ WaitsFor(v, w)
  /\ req' = [req EXCEPT ![w] = [Served EXCEPT !.op = "failed", !.step = "answer"]]
  /\ UNCHANGED <<now, session, token, endedBy, forked, issuedLate>>

-----------------------------------------------------------------------------
(* Login: find the user and check the password or the document, then issue. *)

CheckedLogin(w, scope) ==
  /\ req[w] = Served
  /\ req' = [req EXCEPT ![w] = [Served EXCEPT !.op = "login", !.step = "issue", !.scope = scope]]
  /\ UNCHANGED <<now, session, token, endedBy, forked, issuedLate>>

\* By password, by the document of an employee, and of a user of the platform.
Login(w) == TenantUsable /\ CheckedLogin(w, "TENANT")
StaffLogin(w) == TenantUsable /\ CheckedLogin(w, "POS")
PlatformLogin(w) == CheckedLogin(w, "PLATFORM")

\* issueSession: the session and its first token in one transaction.
LoginIssue(w) ==
  /\ Busy(w, "login", "issue")
  /\ \E s \in FreshSessions, t \in FreshTokens :
       /\ session' = [session EXCEPT ![s] = [scope |-> req[w].scope, isActive |-> TRUE,
                                             expiresAt |-> now + RefreshTtl]]
       /\ token' = [token EXCEPT ![t] = [session |-> s, revoked |-> FALSE,
                                         expiresAt |-> now + RefreshTtl]]
       /\ req' = [req EXCEPT ![w].step = "answer", ![w].ids = {s}, ![w].next = t]
  /\ UNCHANGED <<now, endedBy, forked, issuedLate>>

-----------------------------------------------------------------------------
(* Refresh: read the token and its session, check them, rotate. *)

\* findRefreshTokenById finds the token of an active user of a usable tenant,
\* findPlatformRefreshTokenById that of an active user.
TenantFinds(t) == Exists(t) /\ SessionOf(t).scope \in {"TENANT", "POS"} /\ TenantUsable
PlatformFinds(t) == Exists(t) /\ SessionOf(t).scope = "PLATFORM"
Found(t) == TenantFinds(t) \/ PlatformFinds(t)

\* Mutant: the session of the token is not checked.
AcceptsAnySession(t) == Found(t) /\ ~IsPast(token[t].expiresAt) /\ ~token[t].revoked

Accepts(t) ==
  /\ Found(t)
  /\ ~IsPast(token[t].expiresAt)
  /\ ~token[t].revoked
  /\ SessionOf(t).isActive
  /\ ~IsPast(SessionOf(t).expiresAt)

IsReuse(t) == Found(t) /\ ~IsPast(token[t].expiresAt) /\ token[t].revoked

RefreshFind(w, t) ==
  /\ req[w] = Served
  /\ Exists(t)
  /\ req' = [req EXCEPT ![w] =
       [Served EXCEPT
         !.op = IF Accepts(t) THEN "rotate" ELSE IF IsReuse(t) THEN "revoke" ELSE "rotate",
         !.step = IF Accepts(t) THEN "tokens" ELSE IF IsReuse(t) THEN "session" ELSE "answer",
         !.why = IF ~Accepts(t) /\ IsReuse(t) THEN "reuse" ELSE "none",
         !.ids = {token[t].session}, !.token = t,
         !.late = endedBy[token[t].session] # "none"]]
  /\ UNCHANGED <<now, session, token, endedBy, forked, issuedLate>>

\* rotateRefreshToken inserts the new token and revokes the old one; both show
\* when it commits.
RotateTokens(w) ==
  /\ Busy(w, "rotate", "tokens") /\ ~Waiting(w)
  /\ \E n \in FreshTokens : req' = [req EXCEPT ![w].step = "session", ![w].next = n]
  /\ forked' = IF token[req[w].token].revoked THEN forked \cup req[w].ids ELSE forked
  /\ UNCHANGED <<now, session, token, endedBy, issuedLate>>

\* Mutant: the presented token stays valid.
RotatedKeepsOld(t, n) ==
  [token EXCEPT ![n] = [session |-> token[t].session, revoked |-> FALSE,
                        expiresAt |-> now + RefreshTtl]]

\* Mutant: the lifetime of the new token is added to that of the old one.
RotatedExtends(t, n) ==
  [token EXCEPT ![t].revoked = TRUE,
                ![n] = [session |-> token[t].session, revoked |-> FALSE,
                        expiresAt |-> token[t].expiresAt + RefreshTtl]]

Rotated(t, n) ==
  [token EXCEPT ![t].revoked = TRUE,
                ![n] = [session |-> token[t].session, revoked |-> FALSE,
                        expiresAt |-> now + RefreshTtl]]

\* It extends the session, whatever became of it since it was read.
RotateCommit(w) ==
  LET s == token[req[w].token].session IN
  /\ Busy(w, "rotate", "session") /\ ~Waiting(w)
  /\ token' = Rotated(req[w].token, req[w].next)
  /\ session' = [session EXCEPT ![s].expiresAt = now + RefreshTtl]
  /\ issuedLate' = IF req[w].late THEN issuedLate \cup {s} ELSE issuedLate
  /\ req' = [req EXCEPT ![w].step = "answer"]
  /\ UNCHANGED <<now, endedBy, forked>>

-----------------------------------------------------------------------------
(* Revocation: the sessions, then their tokens, in one transaction. *)

LogoutArrives(w, s) ==
  /\ req[w] = Served
  /\ Authenticated(s)
  /\ req' = [req EXCEPT ![w] = [Served EXCEPT !.op = "revoke", !.step = "session",
                                              !.ids = {s}, !.why = "logout"]]
  /\ UNCHANGED <<now, session, token, endedBy, forked, issuedLate>>

\* revokeActivePosSessionsForTenant lists the sessions, inside its transaction;
\* the job acts on the tenants that are active.
CleanupList(w) ==
  LET open == {s \in SessionIds : session[s].scope = "POS" /\ session[s].isActive} IN
  /\ req[w] = Served
  /\ TenantUsable
  /\ open # {}
  /\ req' = [req EXCEPT ![w] = [Served EXCEPT !.op = "revoke", !.step = "session",
                                              !.ids = open, !.why = "cleanup"]]
  /\ UNCHANGED <<now, session, token, endedBy, forked, issuedLate>>

\* archiveTenant revokes the sessions of the tenant in the transaction that
\* archives it.
DeletionArrives(w) ==
  /\ req[w] = Served
  /\ req' = [req EXCEPT ![w] = [Served EXCEPT !.op = "revoke", !.step = "session",
                                              !.why = "deletion"]]
  /\ UNCHANGED <<now, session, token, endedBy, forked, issuedLate>>

SessionsOfTenant == {s \in SessionIds : session[s].scope \in {"TENANT", "POS"}}
ActiveOfTenant == {s \in SessionsOfTenant : session[s].isActive}

\* The update of the sessions; a deletion finds the active ones only now.
RevokeSessions(w) ==
  LET ids == IF req[w].why = "deletion" THEN ActiveOfTenant ELSE req[w].ids IN
  /\ Busy(w, "revoke", "session")
  /\ \A v \in Workers : Busy(v, "revoke", "tokens") => req[v].ids \cap ids = {}
  /\ req' = [req EXCEPT ![w].step = "tokens", ![w].ids = ids]
  /\ UNCHANGED <<now, session, token, endedBy, forked, issuedLate>>

\* The rows of the sessions in ids and of their tokens once these are revoked.
SessionsRevoked(ids) ==
  [s \in SessionIds |-> IF s \in ids THEN [session[s] EXCEPT !.isActive = FALSE] ELSE session[s]]
TokensRevoked(ids) ==
  [t \in TokenIds |-> IF token[t].session \in ids THEN [token[t] EXCEPT !.revoked = TRUE]
                                                  ELSE token[t]]
Ended(ids, why) ==
  [s \in SessionIds |-> IF s \in ids /\ endedBy[s] = "none" THEN why ELSE endedBy[s]]

RevokeCommit(w) ==
  /\ Busy(w, "revoke", "tokens") /\ ~Waiting(w)
  /\ session' = SessionsRevoked(req[w].ids)
  /\ token' = TokensRevoked(IF req[w].why = "deletion" THEN SessionsOfTenant ELSE req[w].ids)
  /\ endedBy' = Ended(req[w].ids, req[w].why)
  /\ req' = [req EXCEPT ![w].step = "answer", ![w].next = NoToken]
  /\ UNCHANGED <<now, forked, issuedLate>>

\* The answer reaches nobody: its caller is not the device that is modelled.
Answered(w) ==
  /\ req[w].step = "answer"
  /\ Finish(w)
  /\ UNCHANGED <<now, session, token, endedBy, forked, issuedLate>>

SessionStep(w) ==
  \/ LoginIssue(w)
  \/ RotateTokens(w) \/ RotateCommit(w)
  \/ RevokeSessions(w) \/ RevokeCommit(w)
  \/ DeadlockBroken(w)

-----------------------------------------------------------------------------
(* Properties *)

SessionTypeOK ==
  /\ now \in 0..MaxNow
  /\ session \in [SessionIds -> [scope : Scopes \cup {"none"}, isActive : BOOLEAN,
                                 expiresAt : 0..(MaxNow + RefreshTtl)]]
  /\ token \in [TokenIds -> [session : SessionIds \cup {NoSession}, revoked : BOOLEAN,
                             expiresAt : 0..(MaxNow + RefreshTtl)]]
  /\ req \in [Workers -> Request]
  /\ endedBy \in [SessionIds -> {"none", "logout", "reuse", "cleanup", "deletion"}]
  /\ forked \subseteq SessionIds
  /\ issuedLate \subseteq SessionIds

(* A session that was revoked gives no more tokens to a request that comes *)
(* after, though a refresh that was under way when it ended may still have *)
(* left it a token that nobody revoked (auth.service.ts:124,               *)
(* auth.repository.ts:138).                                                *)
EndedSessionsIssueNothing == issuedLate = {}

(* A session that can be used has one token that is not revoked, so that a *)
(* copied token cannot outlive its next use; the exception is a session of *)
(* which two requests rotated the same token (auth.service.ts:109).        *)
OneLiveToken ==
  \A s \in SessionIds \ forked :
    session[s].isActive /\ Usable(session[s].scope) =>
      Cardinality({t \in TokenIds : token[t].session = s /\ ~token[t].revoked}) = 1

=============================================================================
