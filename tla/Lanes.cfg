\* Two lanes, two orders of two lines and one, payments of every kind in any order.
SPECIFICATION Spec
CONSTANTS
  o1 = o1  o2 = o2
  i1 = i1  i2 = i2  i3 = i3
  s1 = s1  c1 = c1  c2 = c2  l1 = l1  l2 = l2
  e1 = e1  e2 = e2  e3 = e3  e4 = e4
  Orders = {o1, o2}
  Items = {i1, i2, i3}
  Skus = {s1}
  Codes = {c1, c2}
  Events = {e1, e2, e3, e4}
  Lanes = {l1, l2}
  NoOrder = NoOrder
  NoCode = NoCode
  MaxTrouble = 2
  OrderOf <- ThreeLines
  Position <- Lines
  SkuOf <- OneSku
  InitialStock <- OneInStock
  EventOrder <- TwoEventsEach
  EventKind <- ManyKinds
SYMMETRY SymmetryOfLanesAndCodes
INVARIANTS
  NeverCodeAndMoney
  FinalMeansSettled
  BooksBalance
  UnpaidUntouched
  Inv
PROPERTIES
  DecisionsStand
  KeepsPromise
CHECK_DEADLOCK FALSE
