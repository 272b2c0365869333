\* Two callers over several windows; any wait for the lock and any way to the supplier.
SPECIFICATION Spec
CONSTANTS
  Callers = {p1, p2}
  Limit = 3
  Window = 2
  Safety = 2
  MaxTime = 5
INVARIANTS
  TypeOK
  TimelyWithinLimit
  NotHeldUp
SYMMETRY SymmetryOfCallers
CHECK_DEADLOCK FALSE
