\* Calls later than the safety margin of their stamps.
SPECIFICATION Spec
CONSTANTS
  Callers = {p1, p2}
  Limit = 2
  Window = 3
  Safety = 1
  MaxTime = 8
INVARIANTS
  WithinLimit
CHECK_DEADLOCK FALSE
