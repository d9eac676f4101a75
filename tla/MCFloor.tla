------------------------------- MODULE MCFloor -------------------------------
(***************************************************************************)
(* A small branch for TLC: one zone with one table at first, ids for one   *)
(* more of each, one product.  A behaviour is about one    *)
(* thing: a manager who changes the floor alone, with a failure; with      *)
(* another one; others by themselves; or a waiter.                         *)
(***************************************************************************)
EXTENDS PosScreen, TLC

PriceOf == [p \in Products |-> IF p = "coffee" THEN 2 ELSE 3]

NoSales == [x \in Sales |-> NoSale]
OneLine == [status |-> "DRAFT",
            lines |-> [NoLines EXCEPT !["coffee"] = [id |-> 1, quantity |-> 1]]]

MCInit ==
  /\ zone = [z \in Zones |-> IF z = 1 THEN ZoneRow(1) ELSE NoRow]
  /\ table = [t \in Tables |-> IF t = TheTable THEN TableRow(1, 1, 4) ELSE NoRow]
  /\ \/ /\ page = "floor" /\ taps = MaxTaps
        /\ \/ used = [edits |-> 0, others |-> MaxOthers, faults |-> MaxFaults - 1]
           \/ used = [edits |-> 1, others |-> MaxOthers - 1, faults |-> MaxFaults]
           \/ used = [edits |-> MaxEdits, others |-> 0, faults |-> MaxFaults]
     \/ /\ page = "pos" /\ taps = 0
        /\ \/ used = [edits |-> MaxEdits - 1, others |-> MaxOthers, faults |-> MaxFaults]
           \/ used = [edits |-> MaxEdits, others |-> MaxOthers, faults |-> MaxFaults - 1]
     \/ /\ page = "pos" /\ taps = 1
        /\ used = [edits |-> MaxEdits, others |-> MaxOthers - 1, faults |-> MaxFaults]
  /\ \/ sale = NoSales /\ made = 0
     \/ page = "pos" /\ made = 1 /\ sale = [NoSales EXCEPT ![21] = OneLine]
  /\ Init

\* Requests and calls are interchangeable; the properties are invariants.
Alike == Permutations(Workers) \cup Permutations(Calls)

MCSpec == MCInit /\ [][Next]_vars

=============================================================================
