-------------------------- MODULE MCTableAccounts --------------------------
(* Instances of TableAccounts for TLC. *)
EXTENDS TableAccounts, TLC

CONSTANTS w1, w2, w3, t1, t2, x1, x2, p1, p2, l1, l2, l3

MCPrice == [p \in Products |-> 1]

\* Any two workers, tables, sales, products and lines can be told apart by
\* their state only.
MCSymmetry == Permutations(Workers) \cup Permutations(Tables) \cup Permutations(Sales)
              \cup Permutations(Products) \cup Permutations(Lines)

=============================================================================
