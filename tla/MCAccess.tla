----------------------------- MODULE MCAccess -----------------------------
(* An instance of ApiClient, with the sessions and the tenant, for TLC. *)
EXTENDS ApiClient, TLC

CONSTANTS w1, w2, c1, c2, s1, s2, t1, t2, t3

MCStatuses == {"ACTIVE", "SUSPENDED", "ARCHIVED"}

\* The bounds are spent on one part at a time: the tenant and its guards; a client
\* that logs in twice; a client that outlives its tokens; or a client whose tenant
\* is deleted.
MCInit ==
  /\ Init
  /\ failures = 0
  /\ \/ arrivals = 0 /\ changes = 0 /\ logins = MaxLogins /\ losses = MaxLosses /\ now = MaxNow
     \/ /\ arrivals = MaxArrivals /\ changes = MaxChanges /\ losses = 0
        /\ \/ logins = 0 /\ now = MaxNow - 1
           \/ logins = MaxLogins - 1 /\ now = 0
     \/ /\ arrivals = MaxArrivals /\ changes = MaxChanges - 1
        /\ logins = MaxLogins - 1 /\ losses = MaxLosses /\ now = MaxNow - 1

MCSpec == MCInit /\ [][Next]_vars

MCOffered == {"TENANT", "POS", "PLATFORM"}

MCSymmetry ==
  Permutations(Workers) \cup Permutations(Calls) \cup Permutations(SessionIds)
    \cup Permutations(TokenIds)

=============================================================================
