\* One order of one line, one lane, one reader, no disturbance.
SPECIFICATION ReadersSpec
CONSTANTS
  o1 = o1  i1 = i1  s1 = s1  s2 = s2  s3 = s3
  c1 = c1  l1 = l1  l2 = l2  e1 = e1  e2 = e2  e3 = e3  e4 = e4
  Orders = {o1}
  Items = {i1}
  Skus = {s1, s2, s3}
  Codes = {c1}
  Events = {e1, e2, e3}
  Lanes = {l1}
  NoOrder = NoOrder
  NoCode = NoCode
  Canonical = {e1, e2}
  ListCap = 1
  MaxTrouble = 0
  PageLimit = 1
  Levels = {0, 1}
  MaxSets = 2
  OrderOf <- OneLine
  Position <- FirstLine
  SkuOf <- SkuOfLine
  InitialStock <- OneOfEach
  EventOrder <- OneOrder
  EventKind <- PaidOrFailed
  Rank <- Alphabet
INVARIANTS
  ViewAddsUp
CHECK_DEADLOCK FALSE
