SPECIFICATION FairSpec
CONSTANTS
  t1 = t1
  t2 = t2
  t3 = t3
  NoThread = NoThread
  Thread <- TwoThreads
  Object <- InterruptObjects
  Kind <- MCKind
  Limit <- LimitOne
  LongMax = 1
  Request <- InterruptRequests
  BoostEvent = {}
  Interrupted <- OneThread
  MaxApcs = 1
INVARIANT NoMissedInterrupt
PROPERTIES
  AlertConsumedOnce
  TimedWaitReturns
CHECK_DEADLOCK FALSE
