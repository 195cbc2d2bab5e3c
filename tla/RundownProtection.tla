------------------------- MODULE RundownProtection -------------------------
(***************************************************************************)
(* Rundown protection of one structure (base/ntos/ex/rundown.c and its     *)
(* inline halves in inc/ex.h): threads acquire and release references with *)
(* interlocked operations on one word; a single teardown thread turns the  *)
(* word into a pointer to a wait block on its own stack and waits there    *)
(* until the last reference is gone.                                       *)
(*                                                                         *)
(* One action is one interlocked operation, or one read of the word.  The  *)
(* inline functions try the first round of the loop that the functions of  *)
(* rundown.c repeat, so both are the same actions here.                    *)
(*                                                                         *)
(* Operators whose name ends in _<Fault> are faulty variants of the one    *)
(* that follows them; no specification uses them.                          *)
(***************************************************************************)
EXTENDS Rundown

VARIABLES
  runRef,        (* the word, see Word                                     *)
  value,         (* the local copy of the word of each thread              *)
  teardownValue  (* that of the teardown thread                            *)

threadVars == <<pc, batch, value>>
blockVars  == <<blockCount, wakeEvent>>
tearVars   == <<teardown, teardownValue>>
vars       == <<runRef, blockVars, held, threadVars, tearVars>>

(***************************************************************************)
(* The word: bottom bit clear, a count of references (times 2); bottom bit *)
(* set, a pointer to the wait block, which is NULL once rundown is marked  *)
(* complete.                                                               *)
(***************************************************************************)
Word == [active : BOOLEAN, count : Nat, block : BOOLEAN]
Counting(n) == [active |-> FALSE, count |-> n, block |-> FALSE]
ToBlock     == [active |-> TRUE,  count |-> 0, block |-> TRUE]
Completed   == [active |-> TRUE,  count |-> 0, block |-> FALSE]

Return(t) ==
  /\ pc' = [pc EXCEPT ![t] = "Idle"]
  /\ batch' = [batch EXCEPT ![t] = {}]
-----------------------------------------------------------------------------
(* A call of ExAcquireRundownProtection(Ex) or ExReleaseRundownProtection(Ex) *)
(* for the references of S begins by reading the word.                     *)
Begin(t, S, where) ==
  /\ pc[t] = "Idle"
  /\ S # {} /\ S \intersect InProgress = {}
  /\ pc' = [pc EXCEPT ![t] = where]
  /\ batch' = [batch EXCEPT ![t] = S]
  /\ value' = [value EXCEPT ![t] = runRef]
  /\ UNCHANGED <<runRef, blockVars, held, tearVars>>

BeginAcquire(t) == \E S \in SUBSET (Ref \ held) : Begin(t, S, "Acquire")
BeginRelease(t) == \E S \in SUBSET held : Begin(t, S, "Release")

(* A failed compare-exchange returns the word and the loop starts again.   *)
Retry(t) ==
  /\ runRef # value[t]
  /\ value' = [value EXCEPT ![t] = runRef]
  /\ UNCHANGED <<runRef, blockVars, held, pc, batch, tearVars>>

AcquireFails(t) ==
  /\ pc[t] = "Acquire" /\ value[t].active
  /\ Return(t)
  /\ UNCHANGED <<runRef, blockVars, held, value, tearVars>>

AcquireSwaps_IgnoresActive(t) ==
  /\ pc[t] = "Acquire"
  /\ \/ /\ runRef = value[t]
        /\ runRef' = [value[t] EXCEPT !.count = @ + Cardinality(batch[t])]
        /\ held' = held \union batch[t]
        /\ Return(t)
        /\ UNCHANGED <<blockVars, value, tearVars>>
     \/ Retry(t)

AcquireSwaps(t) ==
  /\ pc[t] = "Acquire" /\ ~value[t].active
  /\ \/ /\ runRef = value[t]
        /\ runRef' = Counting(value[t].count + Cardinality(batch[t]))
        /\ held' = held \union batch[t]
        /\ Return(t)
        /\ UNCHANGED <<blockVars, value, tearVars>>
     \/ Retry(t)

ReleaseSwaps(t) ==
  /\ pc[t] = "Release" /\ ~value[t].active
  /\ \/ /\ runRef = value[t]
        /\ runRef' = Counting(value[t].count - Cardinality(batch[t]))
        /\ held' = held \ batch[t]
        /\ Return(t)
        /\ UNCHANGED <<blockVars, value, tearVars>>
     \/ Retry(t)

ReleaseDecrements_WakesAtLast(t) ==
  /\ pc[t] = "Release" /\ value[t].active
  /\ blockCount' = blockCount - Cardinality(batch[t])
  /\ held' = held \ batch[t]
  /\ IF blockCount = 1
     THEN pc' = [pc EXCEPT ![t] = "Wake"] /\ UNCHANGED batch
     ELSE Return(t)
  /\ UNCHANGED <<runRef, wakeEvent, value, tearVars>>

(* Rundown is active: the thread follows the pointer it read and counts    *)
(* its references out of the wait block; the last one wakes the waiter.    *)
ReleaseDecrements(t) ==
  /\ pc[t] = "Release" /\ value[t].active
  /\ blockCount' = blockCount - Cardinality(batch[t])
  /\ held' = held \ batch[t]
  /\ IF blockCount = Cardinality(batch[t])
     THEN pc' = [pc EXCEPT ![t] = "Wake"] /\ UNCHANGED batch
     ELSE Return(t)
  /\ UNCHANGED <<runRef, wakeEvent, value, tearVars>>

(* KeSetEvent on the event of the wait block. *)
Wake(t) ==
  /\ pc[t] = "Wake"
  /\ wakeEvent' = TRUE
  /\ Return(t)
  /\ UNCHANGED <<runRef, blockCount, held, value, tearVars>>
-----------------------------------------------------------------------------
(* ExWaitForRundownProtectionRelease, first half: with no references the   *)
(* word becomes EX_RUNDOWN_ACTIVE and the call returns.                    *)
WaitFast ==
  /\ teardown = "Idle"
  /\ IF runRef = Counting(0)
     THEN /\ runRef' = Completed
          /\ teardown' = "Done"
          /\ UNCHANGED teardownValue
     ELSE /\ teardown' = "Swap"
          /\ teardownValue' = runRef
          /\ UNCHANGED runRef
  /\ UNCHANGED <<blockVars, held, threadVars>>

WaitSwaps_Exchange ==
  /\ teardown = "Swap"
  /\ runRef' = ToBlock
  /\ blockCount' = teardownValue.count
  /\ wakeEvent' = FALSE
  /\ teardown' = IF teardownValue.count > 0 THEN "Blocked" ELSE "Done"
  /\ UNCHANGED <<held, threadVars, teardownValue>>

(* The wait block gets the count and the word a pointer to it, if the word *)
(* has not changed since it was read.                                      *)
WaitSwaps ==
  /\ teardown = "Swap"
  /\ IF runRef = teardownValue
     THEN /\ runRef' = ToBlock
          /\ blockCount' = teardownValue.count
          /\ wakeEvent' = FALSE
          /\ teardown' = IF teardownValue.count > 0 THEN "Blocked" ELSE "Done"
          /\ UNCHANGED teardownValue
     ELSE /\ teardownValue' = runRef
          /\ UNCHANGED <<runRef, blockVars, teardown>>
  /\ UNCHANGED <<held, threadVars>>

(* KeWaitForSingleObject on the event; its return frees the wait block.    *)
WaitReturns ==
  /\ teardown = "Blocked" /\ wakeEvent
  /\ wakeEvent' = FALSE
  /\ teardown' = "Done"
  /\ UNCHANGED <<runRef, blockCount, held, threadVars, teardownValue>>

(* ExRundownCompleted, after which a second wait returns at once. *)
RundownCompleted ==
  /\ teardown = "Done"
  /\ runRef' = Completed
  /\ UNCHANGED <<blockVars, held, threadVars, tearVars>>

(* ExReInitializeRundownProtection. *)
ReInitialize ==
  /\ teardown = "Done"
  /\ runRef' = Counting(0)
  /\ teardown' = "Idle"
  /\ UNCHANGED <<blockVars, held, threadVars, teardownValue>>
-----------------------------------------------------------------------------
Init ==
  /\ runRef = Counting(0)
  /\ blockCount = 0 /\ wakeEvent = FALSE
  /\ held = {}
  /\ pc = [t \in Thread |-> "Idle"]
  /\ batch = [t \in Thread |-> {}]
  /\ value = [t \in Thread |-> Counting(0)]
  /\ teardown = "Idle" /\ teardownValue = Counting(0)

Step(t) ==
  \/ AcquireFails(t) \/ AcquireSwaps(t)
  \/ ReleaseSwaps(t) \/ ReleaseDecrements(t) \/ Wake(t)

Teardown == WaitFast \/ WaitSwaps \/ WaitReturns \/ RundownCompleted \/ ReInitialize

Next ==
  \/ \E t \in Thread : BeginAcquire(t) \/ BeginRelease(t) \/ Step(t)
  \/ Teardown

Spec == Init /\ [][Next]_vars

(* Threads run, holders of references release them in the end, and a       *)
(* thread whose event is set returns from its wait.                        *)
FairSpec ==
  /\ Spec
  /\ \A t \in Thread : WF_vars(Step(t))
  /\ WF_vars(\E t \in Thread : BeginRelease(t))
  /\ WF_vars(WaitReturns)
-----------------------------------------------------------------------------
TypeOK ==
  /\ runRef \in Word
  /\ blockCount \in Int
  /\ wakeEvent \in BOOLEAN
  /\ held \in SUBSET Ref
  /\ pc \in [Thread -> {"Idle", "Acquire", "Release", "Wake"}]
  /\ batch \in [Thread -> SUBSET Ref]
  /\ value \in [Thread -> Word]
  /\ teardown \in {"Idle", "Swap", "Blocked", "Done"}
  /\ teardownValue \in Word

(* The wait returns only when every reference granted before the teardown  *)
(* has been released, and none is granted after it.                        *)
DrainedBeforeReturn == teardown = "Done" => held = {}

(* The wait block is on the stack of the teardown thread: a thread about   *)
(* to follow its pointer, or to set its event, finds it still there.       *)
WaitBlockInUse ==
  \A t \in Thread :
    (pc[t] = "Release" /\ value[t].active) \/ pc[t] = "Wake"
      => teardown = "Blocked"

(* Somebody is left to wake the teardown thread: a holder of a reference,  *)
(* or exactly one thread that is about to set the event, or the event.     *)
WakeupPending ==
  teardown = "Blocked" =>
    LET wakers == {t \in Thread : pc[t] = "Wake"}
    IN  IF held # {} THEN wakers = {} /\ ~wakeEvent
        ELSE IF wakeEvent THEN wakers = {} ELSE \E t \in Thread : wakers = {t}

(* The teardown waits for every reference, somebody is left to wake it,    *)
(* and nobody touches its wait block later.                                *)
TeardownSafe == DrainedBeforeReturn /\ WaitBlockInUse /\ WakeupPending

(* The word and the wait block count what the contract grants. *)
Contract == INSTANCE RundownContract WITH
  granted <- held,
  phase   <- IF ~runRef.active THEN "Open"
             ELSE IF teardown = "Done" THEN "Closed" ELSE "Closing"

ImplementsContract == Contract!Spec

(* A teardown that found references outstanding ends once their holders    *)
(* have released them.                                                     *)
TeardownEnds == teardown = "Blocked" ~> teardown = "Done"
=============================================================================
