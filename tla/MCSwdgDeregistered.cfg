CONSTANTS
  Tids = {t1, t2}
  None = None
  Thresholds = {1}
  MaxTime = 3
SPECIFICATION Spec
PROPERTY AlarmsAreForThreads
CHECK_DEADLOCK FALSE
