--------------------------- MODULE MCStockLedger ---------------------------
(* Instances of StockLedger for TLC. *)
EXTENDS StockLedger, TLC

CONSTANTS w1, w2, w3, b1, b2, p1, p2

Of(b, n) == [balance |-> b, quantity |-> n]

\* p1 brings two items, one of them on two lines; p2 brings one.
MCItems == [p \in Purchases |->
             IF p = p1 THEN <<Of(b1, 1), Of(b2, 1), Of(b2, 1)>> ELSE <<Of(b2, 1)>>]

\* Sales that take the two items in either order, and one item twice.
MCOppositeOrders == {<<Of(b1, 1), Of(b2, 1)>>, <<Of(b2, 1), Of(b1, 1)>>}
MCOrders == MCOppositeOrders \cup {<<Of(b1, 1), Of(b1, 1)>>}

MCInitial == {0, 2}
MCAdjustments == {-1, 1}

MCSymmetry == Permutations(Workers)

=============================================================================
