SPECIFICATION FairSpec
CONSTANTS
  a1 = a1
  a2 = a2
  t1 = t1
  t2 = t2
  Nobody = Nobody
  Never = Never
  Thread <- Threads
  Timer <- Timers
  TableSize = 4
  TickLength = 2
  StartTick = 5
  MaxTime = 12
  Intervals <- NextTimes
  Period <- PeriodOfT2
  MaxCalls <- Calls
INVARIANTS
  TableConsistent
PROPERTIES
  ImplementsContract
  
CHECK_DEADLOCK FALSE
