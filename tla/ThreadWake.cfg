SPECIFICATION FairSpec
CONSTANTS
  Owner = {o1, o2}
  T = {t1, t2, t3}
  Wrap = 3
  NoOwner = noowner
  NoThread = nothread
PROPERTIES
  NotifiedGoesOn
CHECK_DEADLOCK FALSE
