---------------------------- MODULE TenantAccess ----------------------------
(***************************************************************************)
(* Whether a tenant may operate, and with which feature: the rows that the *)
(* platform administration changes, the copies of them that Redis keeps    *)
(* for the guards, and the requests that read and refill these copies.     *)
(* Source: apps/api/src/common/access/tenant-access-cache.service.ts,      *)
(* modules/auth/presentation/guards/{tenant-status,feature}.guard.ts and   *)
(* modules/platform/platform.{service,repository}.ts.                      *)
(*                                                                         *)
(* A worker passes a gate: the guards of a tenant request, or a request of *)
(* the platform that changes the tenant.  Every access to the database or  *)
(* to Redis is a step.  A Redis command may fail; the service swallows the *)
(* error, and a failed read is a miss.                                     *)
(***************************************************************************)
EXTENDS Integers

CONSTANTS
  Workers,      \* request handlers that may run at the same time
  Statuses,     \* the statuses that the platform sets
  Absent,       \* no entry in the cache, or no override
  MaxArrivals,  \* bound: tenant requests that pass the guards
  MaxChanges,   \* bound: requests of the platform that change the tenant
  MaxFailures   \* bound: Redis commands that fail

ASSUME StatusesAssumption == {"ACTIVE", "ARCHIVED"} \subseteq Statuses
ASSUME AbsentAssumption == Absent \notin Statuses \cup {"on", "off"}
ASSUME MaxAssumption == MaxArrivals \in Nat /\ MaxChanges \in Nat /\ MaxFailures \in Nat

VARIABLES
  status,     \* tenant.status
  deleted,    \* tenant.deletedAt is set
  override,   \* the tenant's override of the feature: Absent, TRUE or FALSE
  cached,     \* cached[k]: the entry of Redis for k
  gate,       \* gate[w]: how far worker w is
  arrivals, changes, failures,   \* how much of the bounds is used up
  (* History, read by no action: *)
  doubtful    \* the entries that a failure or an overlap may have left stale

accessVars == <<status, deleted, override, cached, gate, arrivals, changes, failures, doubtful>>

-----------------------------------------------------------------------------
(* Data *)

Keys == {"status", "features"}

BlockedStatuses == {"SUSPENDED", "CANCELLED", "ARCHIVED"}

\* tenant.isActive, written only together with the status.
IsActive(s) == s \notin {"CANCELLED", "ARCHIVED"}

\* The feature as the tenant has it: the BASIC plan includes it.
PlanFeature == "on"
Entitled == IF override = Absent THEN PlanFeature ELSE override

\* What an up to date entry holds.
Truth(k) == IF k = "status" THEN status ELSE Entitled

Gate == [op   : {"idle", "request", "status", "delete", "override", "restore", "plan"},
         step : {"none", "get", "read", "fill", "commit", "set", "del"},
         key  : Keys,
         seen : Statuses \cup {"on", "off", Absent}]

Through == [op |-> "idle", step |-> "none", key |-> "status", seen |-> Absent]

At(w, op, step) == gate[w].op = op /\ gate[w].step = step

\* A request holds a value of k that it will write to the cache.
Filling(k) == {w \in Workers : At(w, "request", "fill") /\ gate[w].key = k}

\* The requests of the platform that have committed and not yet told the cache.
Telling(k) ==
  {w \in Workers : \/ gate[w].step = "set" /\ k = "status"
                   \/ gate[w].step = "del" /\ k = "features"
                   \/ At(w, "delete", "set")}

AccessInit ==
  /\ status = "ACTIVE"
  /\ deleted = FALSE
  /\ override = Absent
  /\ cached = [k \in Keys |-> Absent]
  /\ gate = [w \in Workers |-> Through]
  /\ arrivals \in 0..MaxArrivals
  /\ changes \in 0..MaxChanges
  /\ failures \in 0..MaxFailures
  /\ doubtful = {}

Step(w, op, step, key, seen) ==
  gate' = [gate EXCEPT ![w] = [op |-> op, step |-> step, key |-> key, seen |-> seen]]

Leave(w) == gate' = [gate EXCEPT ![w] = Through]

-----------------------------------------------------------------------------
(* The guards of a tenant request: the status, then the feature it needs. *)

RequestArrives(w) ==
  /\ gate[w] = Through
  /\ arrivals < MaxArrivals /\ arrivals' = arrivals + 1
  /\ Step(w, "request", "get", "status", Absent)
  /\ UNCHANGED <<status, deleted, override, cached, changes, failures, doubtful>>

Allows(k, value) == IF k = "status" THEN value \notin BlockedStatuses ELSE value = "on"

\* The guard of k lets the request through with this value, or refuses it.
Decide(w, k, value) ==
  IF Allows(k, value) /\ k = "status"
    THEN Step(w, "request", "get", "features", Absent)
    ELSE Leave(w)

GuardHit(w) ==
  LET k == gate[w].key IN
  /\ At(w, "request", "get")
  /\ cached[k] # Absent
  /\ Decide(w, k, cached[k])
  /\ UNCHANGED <<status, deleted, override, cached, arrivals, changes, failures, doubtful>>

\* An entry is absent, or Redis does not answer.
GuardMiss(w) ==
  LET k == gate[w].key IN
  /\ At(w, "request", "get")
  /\ \/ cached[k] = Absent /\ UNCHANGED failures
     \/ cached[k] # Absent /\ failures < MaxFailures /\ failures' = failures + 1
  /\ Step(w, "request", "read", k, Absent)
  /\ UNCHANGED <<status, deleted, override, cached, arrivals, changes, doubtful>>

GuardRead(w) ==
  LET k == gate[w].key IN
  /\ At(w, "request", "read")
  /\ IF deleted THEN Leave(w) ELSE Step(w, "request", "fill", k, Truth(k))
  /\ UNCHANGED <<status, deleted, override, cached, arrivals, changes, failures, doubtful>>

GuardFill(w) ==
  LET k == gate[w].key IN
  /\ At(w, "request", "fill")
  /\ \/ cached' = [cached EXCEPT ![k] = gate[w].seen] /\ UNCHANGED <<failures, doubtful>>
     \/ /\ failures < MaxFailures /\ failures' = failures + 1
        /\ doubtful' = IF cached[k] = Absent THEN doubtful ELSE doubtful \cup {k}
        /\ UNCHANGED cached
  /\ Decide(w, k, gate[w].seen)
  /\ UNCHANGED <<status, deleted, override, arrivals, changes>>

\* The entry reaches its time to live.
EntryExpires(k) ==
  /\ cached[k] # Absent
  /\ cached' = [cached EXCEPT ![k] = Absent]
  /\ doubtful' = IF Filling(k) \cup Telling(k) = {} THEN doubtful \ {k} ELSE doubtful
  /\ UNCHANGED <<status, deleted, override, gate, arrivals, changes, failures>>

-----------------------------------------------------------------------------
(* The requests of the platform: find the tenant, commit, tell the cache. *)

ChangeArrives(w, op, value) ==
  /\ gate[w] = Through
  /\ changes < MaxChanges
  /\ changes' = changes + 1
  /\ \/ op \in {"status", "delete", "restore", "plan"} /\ ~deleted
     \/ op = "override"
  /\ Step(w, op, "commit", IF op \in {"status", "delete"} THEN "status" ELSE "features", value)
  /\ UNCHANGED <<status, deleted, override, cached, arrivals, failures, doubtful>>

\* A commit that overlaps a fill, or another change that has not told the cache.
Overlap(ks) == {k \in ks : Filling(k) \cup Telling(k) # {}}

StatusCommit(w) ==
  /\ At(w, "status", "commit")
  /\ status' = gate[w].seen
  /\ doubtful' = doubtful \cup Overlap({"status"})
  /\ Step(w, "status", "set", "status", gate[w].seen)
  /\ UNCHANGED <<deleted, override, cached, arrivals, changes, failures>>

\* archiveTenant; the sessions of the tenant are revoked in the same transaction.
DeleteCommit(w) ==
  /\ At(w, "delete", "commit")
  /\ status' = "ARCHIVED"
  /\ deleted' = TRUE
  /\ doubtful' = doubtful \cup Overlap({"status"})
  /\ Step(w, "delete", "set", "status", "ARCHIVED")
  /\ UNCHANGED <<override, cached, arrivals, changes, failures>>

OverrideCommit(w) ==
  /\ At(w, "override", "commit")
  /\ IF deleted
       THEN Leave(w) /\ UNCHANGED <<override, doubtful>>
       ELSE /\ override' = gate[w].seen
            /\ doubtful' = doubtful \cup Overlap({"features"})
            /\ Step(w, "override", "del", "features", Absent)
  /\ UNCHANGED <<status, deleted, cached, arrivals, changes, failures>>

RestoreCommit(w) ==
  /\ At(w, "restore", "commit")
  /\ override' = Absent
  /\ doubtful' = doubtful \cup Overlap({"features"})
  /\ Step(w, "restore", "del", "features", Absent)
  /\ UNCHANGED <<status, deleted, cached, arrivals, changes, failures>>

\* BASIC is the only plan that is ever assigned.
PlanCommit(w) ==
  /\ At(w, "plan", "commit")
  /\ Step(w, "plan", "del", "features", Absent)
  /\ UNCHANGED <<status, deleted, override, cached, arrivals, changes, failures, doubtful>>

\* A write of Redis, or its failure.
Store(k, value) ==
  \/ cached' = [cached EXCEPT ![k] = value] /\ UNCHANGED <<failures, doubtful>>
  \/ /\ failures < MaxFailures /\ failures' = failures + 1
     /\ doubtful' = doubtful \cup {k}
     /\ UNCHANGED cached

\* Mutant: only a deletion is told to the cache.
SetStatusOfDeletion(w) ==
  /\ gate[w].step = "set"
  /\ IF gate[w].op = "delete"
       THEN Store("status", gate[w].seen) /\ Step(w, "delete", "del", "features", Absent)
       ELSE Leave(w) /\ UNCHANGED <<cached, failures, doubtful>>
  /\ UNCHANGED <<status, deleted, override, arrivals, changes>>

SetStatus(w) ==
  /\ gate[w].step = "set"
  /\ Store("status", gate[w].seen)
  /\ IF gate[w].op = "delete" THEN Step(w, "delete", "del", "features", Absent) ELSE Leave(w)
  /\ UNCHANGED <<status, deleted, override, arrivals, changes>>

DeleteFeatures(w) ==
  /\ gate[w].step = "del"
  /\ Store("features", Absent)
  /\ Leave(w)
  /\ UNCHANGED <<status, deleted, override, arrivals, changes>>

GateStep(w) ==
  \/ GuardHit(w) \/ GuardMiss(w) \/ GuardRead(w) \/ GuardFill(w)
  \/ StatusCommit(w) \/ OverrideCommit(w) \/ RestoreCommit(w) \/ PlanCommit(w)
  \/ SetStatus(w) \/ DeleteFeatures(w)

-----------------------------------------------------------------------------
(* Properties *)

AccessTypeOK ==
  /\ status \in Statuses
  /\ deleted \in BOOLEAN
  /\ override \in {"on", "off", Absent}
  /\ cached \in [Keys -> Statuses \cup {"on", "off", Absent}]
  /\ gate \in [Workers -> Gate]
  /\ arrivals \in 0..MaxArrivals
  /\ changes \in 0..MaxChanges
  /\ failures \in 0..MaxFailures
  /\ doubtful \subseteq Keys

(* The guards decide with what the platform last committed: an entry of    *)
(* the cache that differs from its row is about to be overwritten or       *)
(* removed by the request that changed the row, unless a Redis command     *)
(* failed, or a guard was refilling the entry or another change was under  *)
(* way when the row changed (tenant-access-cache.service.ts:20, :86 and    *)
(* platform.service.ts:274).                                               *)
CacheFollowsTenant ==
  \A k \in Keys \ doubtful :
    cached[k] \in {Absent, Truth(k)} \/ Telling(k) # {}

=============================================================================
