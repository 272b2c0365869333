\* A second payment event has an order's row while the lane looks for it.
SPECIFICATION Spec
CONSTANTS
  Orders = {o1}
  Lanes = {l1}
  MaxTrouble = 1
INVARIANTS
  StartsWithoutPoll
