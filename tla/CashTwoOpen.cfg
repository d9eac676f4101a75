SPECIFICATION Spec

CONSTANTS
  w1 = w1
  w2 = w2
  s1 = s1
  s2 = s2
  x1 = x1
  x2 = x2
  Workers = {w1, w2}
  Sessions = {s1, s2}
  Sales = {x1, x2}
  Amounts = {1}
  Counted = {2}
  Methods = {"CASH", "CARD"}
  Due <- MCDue
  MaxBooked = 1
  NoSession = NoSession
  NoSale = NoSale

SYMMETRY MCSymmetry

INVARIANTS
  BranchHasOneOpenSession
