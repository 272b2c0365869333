\* One order of one line, one lane, one crash.
SPECIFICATION HistorySpec
CONSTANTS
  o1 = o1  i1 = i1  i2 = i2  s1 = s1  c1 = c1  c2 = c2  l1 = l1  l2 = l2  e1 = e1  e2 = e2
  Orders = {o1}
  Items = {i1}
  Skus = {s1}
  Codes = {c1}
  Events = {e1}
  Lanes = {l1}
  NoOrder = NoOrder
  NoCode = NoCode
  MaxTrouble = 1
  MaxTime = 1
  MaxLost = 1
  MaxReports = 0
  OrderOf <- OneLine
  Position <- FirstLine
  SkuOf <- SkuOfLine
  InitialStock <- OneInStock
  EventOrder <- OnePaid
  EventKind <- ItIsPaid
INVARIANTS
  HistoryIsComplete
CHECK_DEADLOCK FALSE
