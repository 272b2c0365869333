\* One unit, one fair audit, a supplier that answers 5xx once and forges one entry.
SPECIFICATION FairAuditSpec
CONSTANTS
  i1 = i1  i2 = i2  sa = sa  sb = sb
  c1 = c1  c2 = c2  c3 = c3
  a1 = a1  a2 = a2
  Items = {i1}
  Suppliers = {sa, sb}
  Codes = {c1, c2}
  NoCode = NoCode
  NoSupplier = NoSupplier
  NoItem = NoItem
  MaxRounds = 1
  MaxAttempts = 1
  MaxTrouble = 1
  MaxMishaps = 1
  Auditors = {a1}
  Preferred <- OneStocks
  KeysOf <- OneKeyEach
  Faults <- ErrorFaults
PROPERTIES
  ChangedBookIsCaught
CHECK_DEADLOCK FALSE
