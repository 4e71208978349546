CONSTANTS
  MaxRetry = 2
  SntpTasks = {t1, t2}
SPECIFICATION Spec
INVARIANTS
  TypeOK
  SyncFlagOwned
  TimeSyncedSound
  StatusTracksLink
  NotAbandonedEarly
PROPERTIES
  BootSettles
  SyncEnds
CHECK_DEADLOCK FALSE
