SPECIFICATION FairSpec
CONSTANTS
  t1 = t1
  t2 = t2
  t3 = t3
  Thread <- ThreeThreads
  Free = Free
  Apc = Apc
  MaxApcs = 1
  MaxAcquires <- Once
  Unguarded <- TwoThreads
INVARIANTS
  MutualExclusion
  WakesAgree
PROPERTIES
  GateImplementsContract
  AcquireReturns
CHECK_DEADLOCK FALSE
