CONSTANTS
  MaxRetry = 2
  SntpTasks = {t1, t2}
SPECIFICATION Spec
INVARIANT SetClockIsSynced
CHECK_DEADLOCK FALSE
