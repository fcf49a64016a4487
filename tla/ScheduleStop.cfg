SPECIFICATION FairSpec
CONSTANTS
  Worker = {w1, w2}
  Owner = main
  Task = {t1, t2}
  NoTask = none
  Ends = {"stop"}
INVARIANTS
  NeverAborts
CHECK_DEADLOCK FALSE
