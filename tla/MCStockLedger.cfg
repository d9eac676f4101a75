SPECIFICATION Spec

CONSTANTS
  w1 = w1
  w2 = w2
  w3 = w3
  b1 = b1
  b2 = b2
  p1 = p1
  p2 = p2
  Workers = {w1, w2}
  Balances = {b1, b2}
  Purchases = {p1}
  Items <- MCItems
  Orders <- MCOrders
  Initial <- MCInitial
  Adjustments <- MCAdjustments
  Edited = {b1}
  MaxMovements = 2
  NoPurchase = NoPurchase

SYMMETRY MCSymmetry

INVARIANTS
  TypeOK
  KardexClosed
  KardexUnbroken
  NeverNegative
  ReceivingAtomic
  ReceivedOnce

PROPERTIES
  PurchaseFinal
