\* One unit, one audit, no disturbance.
SPECIFICATION AuditSpec
CONSTANTS
  i1 = i1  i2 = i2  sa = sa  sb = sb
  c1 = c1  c2 = c2  c3 = c3
  a1 = a1  a2 = a2
  Items = {i1}
  Suppliers = {sa, sb}
  Codes = {c1, c2}
  NoCode = NoCode
  NoSupplier = NoSupplier
  NoItem = NoItem
  MaxRounds = 1
  MaxAttempts = 1
  MaxTrouble = 0
  MaxMishaps = 0
  Auditors = {a1}
  Preferred <- OneStocks
  KeysOf <- OneKeyEach
  Faults <- NoFaults
INVARIANTS
  UnknownWasNeverSent
CHECK_DEADLOCK FALSE
