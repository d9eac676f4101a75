--------------------------- MODULE MCCashRegister ---------------------------
(* Instances of CashRegister for TLC. *)
EXTENDS CashRegister, TLC

CONSTANTS w1, w2, s1, s2, x1, x2

MCDue == [x \in Sales |-> 1]

MCSymmetry == Permutations(Workers) \cup Permutations(Sessions)
              \cup Permutations(Sales)

=============================================================================
