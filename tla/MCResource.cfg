SPECIFICATION FairSpec
CONSTANTS
  t1 = t1
  t2 = t2
  t3 = t3
  t4 = t4
  p1 = p1
  Thread <- Threads
  Pointer <- Pointers
  Nobody = Nobody
  Granted = Granted
  MaxCalls <- Calls
  MaxHeld = 2
INVARIANTS
  
  WaitersHaveACause
 
CHECK_DEADLOCK FALSE
