\* One unit; a connection breaks while the supplier works.
SPECIFICATION Spec
CONSTANTS
  i1 = i1  i2 = i2  sa = sa  sb = sb
  c1 = c1  c2 = c2  c3 = c3  c4 = c4
  Items = {i1}
  Suppliers = {sa, sb}
  Codes = {c1, c2}
  NoCode = NoCode
  NoSupplier = NoSupplier
  MaxRounds = 2
  MaxAttempts = 1
  MaxTrouble = 2
  Preferred <- OneStocks
  KeysOf <- OneKeyEach
  Faults <- BrokenFaults
INVARIANTS
  OneHolder
CHECK_DEADLOCK FALSE
