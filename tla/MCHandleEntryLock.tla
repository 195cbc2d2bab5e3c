------------------------- MODULE MCHandleEntryLock -------------------------
(* Instances of HandleEntryLock for TLC: threads and entries are model     *)
(* values; one thread makes a second call, after the others have blocked.  *)
EXTENDS HandleEntryLock, TLC
CONSTANTS t1, t2, t3

ThreeThreads == {t1, t2, t3}
OneThreadTwice == [t \in Thread |-> IF t = t1 THEN 2 ELSE 1]
=============================================================================
