\* Calls in time, lookups that come after slow answers.
SPECIFICATION Spec
CONSTANTS
  Callers = {p1, p2}
  Limit = 2
  Window = 3
  Safety = 1
  MaxTime = 8
INVARIANTS
  PromptCallsWithinLimit
CHECK_DEADLOCK FALSE
