SPECIFICATION FairSpec

CONSTANTS
  w1 = w1
  w2 = w2
  w3 = w3
  b1 = b1
  b2 = b2
  p1 = p1
  p2 = p2
  Workers = {w1, w2, w3}
  Balances = {b1, b2}
  Purchases = {p1}
  Items <- MCItems
  Orders <- MCOppositeOrders
  Initial = {2}
  Adjustments = {}
  Edited = {}
  MaxMovements = 3
  NoPurchase = NoPurchase


PROPERTIES
  RequestsAnswered
