----------------------------- MODULE CashDrawer -----------------------------
(***************************************************************************)
(* What a cash register promises of each of its sessions: money moves only *)
(* while the session is open, closing it records the total of everything   *)
(* that moved, and a closed session is final.  A session may at any time   *)
(* while open drop out of the promise (state "out").                       *)
(***************************************************************************)
EXTENDS Integers

CONSTANT Sessions

VARIABLES
  state,      \* state[s] \in {"none", "OPEN", "CLOSED", "out"}
  total,      \* total[s]: the money booked on s
  expected    \* expected[s]: the total recorded when s was closed

vars == <<state, total, expected>>

Init ==
  /\ state = [s \in Sessions |-> "none"]
  /\ total = [s \in Sessions |-> 0]
  /\ expected = [s \in Sessions |-> 0]

Open(s) ==
  /\ state[s] = "none"
  /\ state' = [state EXCEPT ![s] = "OPEN"]
  /\ total'[s] \in Nat
  /\ total' = [total EXCEPT ![s] = total'[s]]
  /\ UNCHANGED expected

Move(s) ==
  /\ state[s] = "OPEN"
  /\ total'[s] \in Int
  /\ total' = [total EXCEPT ![s] = total'[s]]
  /\ UNCHANGED <<state, expected>>

Close(s) ==
  /\ state[s] = "OPEN"
  /\ state' = [state EXCEPT ![s] = "CLOSED"]
  /\ expected' = [expected EXCEPT ![s] = total[s]]
  /\ UNCHANGED total

DropOut(s) ==
  /\ state[s] = "OPEN"
  /\ state' = [state EXCEPT ![s] = "out"]
  /\ total' = [total EXCEPT ![s] = 0]
  /\ UNCHANGED expected

Next == \E s \in Sessions : Open(s) \/ Move(s) \/ Close(s) \/ DropOut(s)

Spec == Init /\ [][Next]_vars

=============================================================================
