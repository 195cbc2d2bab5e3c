SPECIFICATION FairSpecCacheAware
CONSTANTS
  Thread = {t1, t2, t3}
  Ref = {r1, r2, r3}
  Number = 2
  Width = 5
  MaxMarking = 3
INVARIANTS
  WordsConsistent
PROPERTIES
  ImplementsContractCacheAware
  TeardownEndsCacheAware
