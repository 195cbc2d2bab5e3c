SPECIFICATION Spec
CONSTANTS
  t1 = t1
  t2 = t2
  t3 = t3
  NoThread = NoThread
  Thread <- ThreeThreads
  Object <- AllObjects
  Kind <- MCKind
  Limit <- LimitTwo
  LongMax = 3
  Request <- AllRequests
  BoostEvent <- OnlySync2
  Interrupted = {}
  MaxApcs = 0
CONSTRAINT FamiliesApart
SYMMETRY SymmetryThree
INVARIANTS
  WaitListsMatchThreads
  NoLostWakeup
  SignalInRange
  MutantOwnership
PROPERTIES
  WakeupsInOrder
  NoSignalDuplicated
  AllOrNothing
  AbandonReported
CHECK_DEADLOCK FALSE
