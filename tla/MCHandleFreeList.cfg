SPECIFICATION FairSpec
CONSTANTS
  Thread = {t1, t2}
  NoThread = NoThread
  Locks = 2
  PageEntries = 3
  MaxPages = 2
  EnoughFree = 2
INVARIANTS
  NoABA
  EveryHandleOnce
PROPERTY SomebodyFinishes
