\* Two lanes and fairness: every paid order is settled.
SPECIFICATION FairSpec
CONSTANTS
  o1 = o1  o2 = o2
  i1 = i1  i2 = i2  i3 = i3
  s1 = s1  c1 = c1  c2 = c2  l1 = l1  l2 = l2
  e1 = e1  e2 = e2  e3 = e3  e4 = e4
  Orders = {o1, o2}
  Items = {i1, i2}
  Skus = {s1}
  Codes = {c1, c2}
  Events = {e1, e2}
  Lanes = {l1, l2}
  NoOrder = NoOrder
  NoCode = NoCode
  MaxTrouble = 2
  OrderOf <- OneLineEach
  Position <- FirstLines
  SkuOf <- SameSku
  InitialStock <- OneInStock
  EventOrder <- OnePaidEach
  EventKind <- AllPaid
PROPERTIES
  PaidIsSettled
  PromiseComesTrue
  VerdictStands
CHECK_DEADLOCK FALSE
