\* Two units, every disturbance.
SPECIFICATION FairSpec
CONSTANTS
  i1 = i1  i2 = i2  sa = sa  sb = sb
  c1 = c1  c2 = c2  c3 = c3  c4 = c4
  Items = {i1, i2}
  Suppliers = {sa, sb}
  Codes = {c1, c2, c3}
  NoCode = NoCode
  NoSupplier = NoSupplier
  MaxRounds = 2
  MaxAttempts = 2
  MaxTrouble = 3
  Preferred <- OneStocksBoth
  KeysOf <- FewKeys
  Faults <- FaultKinds
INVARIANTS
  TypeOK
  OneHolderWhileTraced
  DeliveredAsBooked
  OpenComesFirst
PROPERTIES
  EveryItemDecided
  BuysAsPromised
  EveryPassEnds
CHECK_DEADLOCK FALSE
