SPECIFICATION FairSpec
CONSTANTS
  Threads = {t1, t2, t3}
  Orders = {20, 30, 40}
  Attempts = 2
  MayNest <- ConfigdNesting
  NoThread = NoThread
INVARIANTS TypeOK RecordSound NoFalseAlarm NoWaitCycle
PROPERTIES AbstractSpec LockReturns
CHECK_DEADLOCK FALSE
