--------------------------- MODULE MCGuardedMutex ---------------------------
(* An instance of GuardedMutex for TLC: threads are model values.          *)
EXTENDS GuardedMutex
CONSTANTS t1, t2, t3

ThreeThreads == {t1, t2, t3}
TwoThreads == {t1, t2}
Once == [t \in Thread |-> 1]
OneThreadTwice == [t \in Thread |-> IF t = t1 THEN 2 ELSE 1]
=============================================================================
