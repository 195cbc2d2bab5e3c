SPECIFICATION FairSpecHive
CONSTANTS
  Sectors = 2
  Unreadable = Unreadable
  MaxChanges = 3
  MaxFailures = 2
  MaxCrashes = 2
INVARIANT Recoverable
 
CHECK_DEADLOCK FALSE
