SPECIFICATION Spec

CONSTANTS
  w1 = w1
  w2 = w2
  w3 = w3
  t1 = t1
  t2 = t2
  x1 = x1
  x2 = x2
  p1 = p1
  p2 = p2
  l1 = l1
  l2 = l2
  l3 = l3
  Workers = {w1, w2}
  Tables = {t1}
  Sales = {x1, x2}
  Products = {p1, p2}
  Lines = {l1, l2}
  Quantities = {0, 1}
  MaxQuantity = 3
  HandStatuses = {"FREE"}
  Price <- MCPrice
  NoSale = NoSale
  NoTable = NoTable
  NoProduct = NoProduct
  NoLine = NoLine

SYMMETRY MCSymmetry

INVARIANTS
  ChargedAtMostOnce
