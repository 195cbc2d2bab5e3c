----------------------------- MODULE MCPushLock -----------------------------
(* An instance of PushLock for TLC: either three threads, of which t1      *)
(* acquires twice, so that it can meet waiters that were queued while it   *)
(* held the lock, and join them again while they are being woken; or four  *)
(* threads with one call each, where t4 comes when t1 holds the lock and   *)
(* the others wait, t3 exclusive, so that there are chains long enough for *)
(* a waker to search; there t1 comes back when all others are done.        *)
EXTENDS PushLock
CONSTANTS t1, t2, t3, t4

Threads == {t1, t2, t3, t4}
OneThreadTwice == [t \in Thread |-> IF t = t1 THEN 2 ELSE 1]

Waits(t) == pc[t] \notin {"Idle", "Acquire"}
ThreeOrFour ==
  acquires[t4] > 0 =>
    /\ acquires[t1] = 1 \/ \A t \in Threads \ {t1} : pc[t] = "Idle" /\ holds[t] = "None"
    /\ pc[t4] = "Acquire" /\ next[t4] = Null =>
         holds[t1] # "None" /\ Waits(t2) /\ Waits(t3) /\ exclusive[t3]
=============================================================================
