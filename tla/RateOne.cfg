\* A limit of one: the lookup has no slot of its own.
SPECIFICATION Spec
CONSTANTS
  Callers = {p1, p2}
  Limit = 1
  Window = 3
  Safety = 1
  MaxTime = 8
INVARIANTS
  PromptCallsWithinLimit
CHECK_DEADLOCK FALSE
