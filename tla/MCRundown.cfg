SPECIFICATION FairSpec
CONSTANTS
  Thread = {t1, t2, t3}
  Ref = {r1, r2, r3}
INVARIANTS
  TeardownSafe
PROPERTIES
  ImplementsContract
  TeardownEnds
