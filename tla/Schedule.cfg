SPECIFICATION FairSpec
CONSTANTS
  Worker = {w1, w2}
  Owner = main
  Task = {t1, t2, t3}
  NoTask = none
  Ends = {"destroy", "stop"}
INVARIANTS
  TypeOK
  Accounting
  ReturnedDrained
  OnlyStopAborts
  DestroyedAllRan
PROPERTIES
  DestroyReturns
  ImplementsPool
  AcceptedRuns
CHECK_DEADLOCK FALSE
