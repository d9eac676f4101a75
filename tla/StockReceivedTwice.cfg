SPECIFICATION Spec

CONSTANTS
  w1 = w1
  w2 = w2
  w3 = w3
  b1 = b1
  b2 = b2
  p1 = p1
  p2 = p2
  Workers = {w1, w2}
  Balances = {b2}
  Purchases = {p2}
  Items <- MCItems
  Orders = {}
  Initial = {}
  Adjustments = {}
  Edited = {}
  MaxMovements = 2
  NoPurchase = NoPurchase

INVARIANTS
  ReceivedAtMostOnce
