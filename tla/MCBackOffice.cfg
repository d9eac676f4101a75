CONSTANTS
  Ids = {1, 2, 3}
  NoId = 0
  Workers = {w1, w2}
  Nobody = nobody
  Ingredients = {"g1"}
  MaxLines = 2
  MaxOpens = 2
  MaxEdits = 5
  MaxOthers = 1
  Starts <- MCStarts
SPECIFICATION MCSpec
CHECK_DEADLOCK FALSE
INVARIANTS
  TypeOK
  PinsUnique
  ReadyAsTested
PROPERTY StoredAsEntered
