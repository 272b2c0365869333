\* More orders than lanes, restarts and deliveries that settle nothing; fair.
SPECIFICATION FairSpec
CONSTANTS
  Orders = {o1, o2, o3}
  Lanes = {l1, l2}
  MaxTrouble = 2
INVARIANTS
  TypeOK
  NoWakeLost
  StopsCleanly
PROPERTIES
  EveryOrderClaimed
