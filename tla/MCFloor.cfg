CONSTANTS
  Workers = {w1, w2}
  Zones = {1, 2}
  Tables = {11, 12}
  NoId = 0
  Names = {1, 2}
  MaxEdits = 3
  MaxOthers = 2
  MaxFaults = 1
  TheTable = 11
  Sales = {21, 22}
  Products = {"coffee", "soup"}
  Price <- PriceOf
  Calls = {c1, c2}
  Nothing = "nothing"
  MaxTaps = 3
  MaxLine = 2
  MaxQuantity = 3
SPECIFICATION MCSpec
SYMMETRY Alike
CHECK_DEADLOCK FALSE
INVARIANTS
  TypeOK
  RoomInOrder
  ScreenSettles
