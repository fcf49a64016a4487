SPECIFICATION Spec
CONSTANTS
  Timers = {a, b}
  Recurring = {}
  Thread = {p}
  Gaps = {1, 2}
  StartTime = 2
  MaxTime = 4
  Wrap = 8
  Ops = {"cancel"}
  None = none
  Stale = stale
PROPERTIES
  CancelRemovesSelf
CHECK_DEADLOCK FALSE
