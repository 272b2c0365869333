\* A lane on a long delivery, another that has ended, an order paid now.
SPECIFICATION Spec
CONSTANTS
  Orders = {o1, o2}
  Lanes = {l1, l2}
  MaxTrouble = 0
INVARIANTS
  NoIdleLane
