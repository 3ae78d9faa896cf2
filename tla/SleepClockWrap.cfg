CONSTANTS
  Threads = {t1, t2, t3}
  Sleeps = {0, 1, 3}
  Width = 3
  MaxTicks = 9
SPECIFICATION Spec
CHECK_DEADLOCK FALSE
PROPERTIES WokenOnlyWhenDue
