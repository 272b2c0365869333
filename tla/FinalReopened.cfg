\* The sweep against a lane that finishes its order.
SPECIFICATION Spec
CONSTANTS
  o1 = o1  o2 = o2
  i1 = i1  i2 = i2  i3 = i3
  s1 = s1  c1 = c1  c2 = c2  l1 = l1  l2 = l2
  e1 = e1  e2 = e2  e3 = e3  e4 = e4
  Orders = {o1}
  Items = {i1}
  Skus = {s1}
  Codes = {c1, c2}
  Events = {e1}
  Lanes = {l1}
  NoOrder = NoOrder
  NoCode = NoCode
  MaxTrouble = 1
  OrderOf <- OneLine
  Position <- FirstLine
  SkuOf <- SkuOfLine
  InitialStock <- OneInStock
  EventOrder <- OnePaid
  EventKind <- ItIsPaid
PROPERTY FinalStaysFinal
CHECK_DEADLOCK FALSE
