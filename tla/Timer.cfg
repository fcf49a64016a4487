SPECIFICATION FairSpec
CONSTANTS
  Timers = {a, b}
  Recurring = {b}
  Thread = {p, q}
  Gaps = {1, 2}
  StartTime = 2
  MaxTime = 3
  Wrap = 6
  Ops = {"cancel", "refresh", "reset", "regap"}
  None = none
  Stale = stale
INVARIANTS
  TypeOK
  HandedOnce
  EmptyOnlyAfterReset
  OnePlace
  NothingVanishes
PROPERTIES
  Fires
CHECK_DEADLOCK FALSE
