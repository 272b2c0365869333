\* One order of two lines, one lane, one report, no disturbance.
SPECIFICATION HistorySpec
CONSTANTS
  o1 = o1  i1 = i1  i2 = i2  s1 = s1  c1 = c1  c2 = c2  l1 = l1  l2 = l2  e1 = e1  e2 = e2
  Orders = {o1}
  Items = {i1, i2}
  Skus = {s1}
  Codes = {c1, c2}
  Events = {e1}
  Lanes = {l1}
  NoOrder = NoOrder
  NoCode = NoCode
  MaxTrouble = 0
  MaxTime = 3
  MaxLost = 0
  MaxReports = 1
  OrderOf <- TwoLines
  Position <- Lines
  SkuOf <- OneSku
  InitialStock <- OneInStock
  EventOrder <- OnePaid
  EventKind <- ItIsPaid
INVARIANTS
  ClosedReportsHold
CHECK_DEADLOCK FALSE
