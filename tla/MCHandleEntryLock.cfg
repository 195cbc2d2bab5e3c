SPECIFICATION FairSpecEntryLock
CONSTANTS
  t1 = t1
  t2 = t2
  t3 = t3
  Thread <- ThreeThreads
  TableEntry = {e1, e2}
  NoEntry = NoEntry
  MaxCalls <- OneThreadTwice
INVARIANTS
  EntriesConsistent
PROPERTY LockReturns
