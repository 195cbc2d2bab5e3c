SPECIFICATION FairSpec
CONSTANTS
  t1 = t1
  t2 = t2
  t3 = t3
  t4 = t4
  Thread <- Threads
  Null = Null
  MaxAcquires <- OneThreadTwice
CONSTRAINT ThreeOrFour
INVARIANTS
  MutualExclusion
  ChainIsSafe
  NoForgottenWaiters
PROPERTY AcquireSucceeds
