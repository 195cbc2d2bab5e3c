------------------------- MODULE RundownCacheAware -------------------------
(***************************************************************************)
(* Cache-aware rundown protection (base/ntos/ex/rundown.c): one word per   *)
(* processor.  A thread uses the word of the processor it runs on, and may *)
(* release on another processor than it acquired on, so the count in one   *)
(* word may be negative; the words are machine words and wrap around.  The *)
(* teardown takes the words one after the other while threads go on.       *)
(*                                                                         *)
(* A compare-exchange loop is one action, that of the exchange that        *)
(* succeeds; a releasing thread that finds the word taken reads the        *)
(* pointer and decrements the wait block in two.                           *)
(*                                                                         *)
(* Operators whose name ends in _<Fault> are faulty variants of the one    *)
(* that follows them; no specification uses them.                          *)
(***************************************************************************)
EXTENDS Rundown

CONSTANTS
  Number,        (* number of per-processor words                          *)
  Width,         (* bits of a ULONG_PTR                                    *)
  MaxMarking     (* bound: references acquired while the words are taken   *)

(* A reference acquired on a word not yet taken and released through the   *)
(* wait block stays in the word's count: a word, which counts in twos, is  *)
(* wide enough for all that happens while the teardown takes them.         *)
ASSUME CacheAwareAssumption ==
  /\ Number \in Nat \ {0}
  /\ Width \in Nat
  /\ Ref # {}
  /\ MaxMarking \in Nat
  /\ 2 * (Cardinality(Ref) + MaxMarking) < 2^Width

Processor == 1..Number

VARIABLES
  runRefs,       (* the word of each processor                             *)
  index,         (* the processor it comes to next                         *)
  total,         (* its TotalCount                                         *)
  acquired       (* references acquired while it takes the words           *)

threadVarsCacheAware == <<pc, batch>>
tearVarsCacheAware   == <<teardown, index, total, acquired>>
varsCacheAware       == <<runRefs, blockCount, wakeEvent, held,
                          threadVarsCacheAware, tearVarsCacheAware>>

Wrap(n) == n % (2^Width)

(* count is the value of the word: twice a number of references, or        *)
(* EX_RUNDOWN_ACTIVE alone; a pointer to the wait block has no count.      *)
WordCacheAware == [active : BOOLEAN, count : 0..(2^Width - 1)]
CountingCacheAware(n) == [active |-> FALSE, count |-> Wrap(n)]
ToBlockCacheAware     == [active |-> TRUE,  count |-> 0]
CompletedCacheAware   == [active |-> TRUE,  count |-> 1]
-----------------------------------------------------------------------------
(* ExAcquireRundownProtectionCacheAware(Ex) on processor p; it fails, and  *)
(* changes nothing, when the word is taken.  Callers use the words again    *)
(* only when ExReInitializeRundownProtectionCacheAware has returned.       *)
Acquire(t, p, S) ==
  /\ pc[t] = "Idle"
  /\ ~runRefs[p].active
  /\ S # {} /\ S \intersect (held \union InProgress) = {}
  /\ runRefs' = [runRefs EXCEPT ![p] = CountingCacheAware(@.count + 2 * Cardinality(S))]
  /\ held' = held \union S
  /\ teardown # "Reopening"
  /\ acquired' = acquired + (IF teardown = "Marking" THEN Cardinality(S) ELSE 0)
  /\ acquired' <= MaxMarking
  /\ UNCHANGED <<blockCount, wakeEvent, threadVarsCacheAware, teardown, index, total>>

Release(t, p, S) ==
  /\ pc[t] = "Idle"
  /\ S # {} /\ S \subseteq held \ InProgress
  /\ IF runRefs[p].active
     THEN /\ pc' = [pc EXCEPT ![t] = "Decrement"]
          /\ batch' = [batch EXCEPT ![t] = S]
          /\ UNCHANGED <<runRefs, held>>
     ELSE /\ runRefs' = [runRefs EXCEPT ![p] = CountingCacheAware(@.count - 2 * Cardinality(S))]
          /\ held' = held \ S
          /\ UNCHANGED threadVarsCacheAware
  /\ UNCHANGED <<blockCount, wakeEvent, tearVarsCacheAware>>

Decrement_NotPositive(t) ==
  LET remaining == Wrap(blockCount - Cardinality(batch[t]))
      awake == remaining = 0 \/ remaining >= 2^(Width - 1)
  IN  /\ pc[t] = "Decrement"
      /\ blockCount' = remaining
      /\ held' = held \ batch[t]
      /\ pc' = [pc EXCEPT ![t] = IF awake THEN "Wake" ELSE "Idle"]
      /\ batch' = [batch EXCEPT ![t] = {}]
      /\ UNCHANGED <<runRefs, wakeEvent, tearVarsCacheAware>>

(* The wait block loses the references; who takes its count to 0 wakes the *)
(* waiter.                                                                 *)
Decrement(t) ==
  /\ pc[t] = "Decrement"
  /\ blockCount' = Wrap(blockCount - Cardinality(batch[t]))
  /\ held' = held \ batch[t]
  /\ pc' = [pc EXCEPT ![t] = IF blockCount' = 0 THEN "Wake" ELSE "Idle"]
  /\ batch' = [batch EXCEPT ![t] = {}]
  /\ UNCHANGED <<runRefs, wakeEvent, tearVarsCacheAware>>

WakeCacheAware(t) ==
  /\ pc[t] = "Wake"
  /\ wakeEvent' = TRUE
  /\ pc' = [pc EXCEPT ![t] = "Idle"]
  /\ UNCHANGED <<runRefs, blockCount, held, batch, tearVarsCacheAware>>
-----------------------------------------------------------------------------
(* ExWaitForRundownProtectionReleaseCacheAware is called, once before the   *)
(* words are initialized again.                                            *)
BeginWait ==
  /\ teardown = "Idle"
  /\ teardown' = "Marking"
  /\ index' = 1 /\ total' = 0 /\ acquired' = 0
  /\ blockCount' = 0 /\ wakeEvent' = FALSE
  /\ UNCHANGED <<runRefs, held, threadVarsCacheAware>>

MarkActive_CountsOnlyLast ==
  /\ teardown = "Marking"
  /\ runRefs' = [runRefs EXCEPT ![index] = ToBlockCacheAware]
  /\ total' = runRefs[index].count
  /\ index' = index + 1
  /\ teardown' = IF index < Number THEN "Marking"
                 ELSE IF total' # 0 THEN "Publish" ELSE "Done"
  /\ UNCHANGED <<blockCount, wakeEvent, held, threadVarsCacheAware, acquired>>

(* One round of its loop: the word of the next processor becomes a pointer *)
(* to the wait block, and its value is added to the total.                 *)
MarkActive ==
  /\ teardown = "Marking"
  /\ runRefs' = [runRefs EXCEPT ![index] = ToBlockCacheAware]
  /\ total' = Wrap(total + runRefs[index].count)
  /\ index' = index + 1
  /\ teardown' = IF index < Number THEN "Marking"
                 ELSE IF total' # 0 THEN "Publish" ELSE "Done"
  /\ UNCHANGED <<blockCount, wakeEvent, held, threadVarsCacheAware, acquired>>

AddTotal_Assigns ==
  /\ teardown = "Publish"
  /\ blockCount' = total \div 2
  /\ teardown' = IF blockCount # Wrap(-(total \div 2)) THEN "Blocked" ELSE "Done"
  /\ UNCHANGED <<runRefs, wakeEvent, held, threadVarsCacheAware, index, total, acquired>>

(* The total is added to the count of the wait block, which releases have  *)
(* already made negative; it waits unless that comes to 0.                 *)
AddTotal ==
  LET waitCount == total \div 2
  IN  /\ teardown = "Publish"
      /\ blockCount' = Wrap(blockCount + waitCount)
      /\ teardown' = IF blockCount # Wrap(-waitCount) THEN "Blocked" ELSE "Done"
      /\ UNCHANGED <<runRefs, wakeEvent, held, threadVarsCacheAware, index, total, acquired>>

WaitReturnsCacheAware ==
  /\ teardown = "Blocked" /\ wakeEvent
  /\ wakeEvent' = FALSE
  /\ teardown' = "Done"
  /\ UNCHANGED <<runRefs, blockCount, held, threadVarsCacheAware, index, total, acquired>>

(* ExReInitializeRundownProtectionCacheAware and                           *)
(* ExRundownCompletedCacheAware go through the words one by one.           *)
BeginReset(to) ==
  /\ teardown = "Done" \/ (to = "Reopening" /\ teardown = "Completed")
  /\ teardown' = to
  /\ index' = 1
  /\ UNCHANGED <<runRefs, blockCount, wakeEvent, held, threadVarsCacheAware, total, acquired>>

ResetWord ==
  /\ teardown \in {"Reopening", "Completing"}
  /\ runRefs' = [runRefs EXCEPT ![index] =
                   IF teardown = "Reopening" THEN CountingCacheAware(0) ELSE CompletedCacheAware]
  /\ index' = index + 1
  /\ teardown' = IF index < Number THEN teardown
                 ELSE IF teardown = "Reopening" THEN "Idle" ELSE "Completed"
  /\ UNCHANGED <<blockCount, wakeEvent, held, threadVarsCacheAware, total, acquired>>
-----------------------------------------------------------------------------
InitCacheAware ==
  /\ runRefs = [p \in Processor |-> CountingCacheAware(0)]
  /\ blockCount = 0 /\ wakeEvent = FALSE
  /\ held = {}
  /\ pc = [t \in Thread |-> "Idle"]
  /\ batch = [t \in Thread |-> {}]
  /\ teardown = "Idle" /\ index = 1 /\ total = 0 /\ acquired = 0

TeardownCacheAware ==
  \/ BeginWait \/ MarkActive \/ AddTotal \/ WaitReturnsCacheAware
  \/ \E to \in {"Reopening", "Completing"} : BeginReset(to)
  \/ ResetWord

NextCacheAware ==
  \/ \E t \in Thread :
       \/ \E p \in Processor, S \in SUBSET Ref : Acquire(t, p, S) \/ Release(t, p, S)
       \/ Decrement(t) \/ WakeCacheAware(t)
  \/ TeardownCacheAware

SpecCacheAware == InitCacheAware /\ [][NextCacheAware]_varsCacheAware

(* Threads run, and holders release their references in the end. *)
FairSpecCacheAware ==
  /\ SpecCacheAware
  /\ \A t \in Thread : WF_varsCacheAware(Decrement(t)) /\ WF_varsCacheAware(WakeCacheAware(t))
  /\ WF_varsCacheAware(\E t \in Thread, p \in Processor, S \in SUBSET Ref : Release(t, p, S))
  /\ WF_varsCacheAware(MarkActive) /\ WF_varsCacheAware(AddTotal)
  /\ WF_varsCacheAware(WaitReturnsCacheAware)
-----------------------------------------------------------------------------
TypeOKCacheAware ==
  /\ runRefs \in [Processor -> WordCacheAware]
  /\ blockCount \in 0..(2^Width - 1)
  /\ wakeEvent \in BOOLEAN
  /\ held \subseteq Ref
  /\ pc \in [Thread -> {"Idle", "Decrement", "Wake"}]
  /\ batch \in [Thread -> SUBSET Ref]
  /\ teardown \in {"Idle", "Marking", "Publish", "Blocked", "Done",
                   "Reopening", "Completing", "Completed"}
  /\ index \in 1..(Number + 1)
  /\ total \in 0..(2^Width - 1)
  /\ acquired \in 0..MaxMarking

(* What is counted in the words not taken, by the teardown, and in the    *)
(* wait block while it is in use.                                          *)
Sum(f) ==
  LET sum[n \in 0..Number] == IF n = 0 THEN 0 ELSE sum[n - 1] + f[n] IN sum[Number]
Counted(p) == IF runRefs[p].active THEN 0 ELSE runRefs[p].count
InWords == Sum([p \in Processor |-> Counted(p)])
Taken   == IF teardown \in {"Marking", "Publish"} THEN total ELSE 0
InBlock == IF teardown \in {"Marking", "Publish", "Blocked"} THEN blockCount ELSE 0

(* No reference is lost when it is released on another processor, or while *)
(* the words are being taken: the counts that are left in the words, the   *)
(* total and the wait block always add up to the references held.          *)
CountsAddUp == Wrap(InWords + Taken + 2 * InBlock) = 2 * Cardinality(held)

(* The wait block is still in use by the teardown thread when a releasing  *)
(* thread counts itself out of it or sets its event.                       *)
WaitBlockInUseCacheAware ==
  \A t \in Thread :
    /\ pc[t] = "Decrement" => teardown \in {"Marking", "Publish", "Blocked"}
    /\ pc[t] = "Wake" => teardown = "Blocked"

(* Counts and wait block agree with the references at every point of the   *)
(* teardown.                                                               *)
WordsConsistent == TypeOKCacheAware /\ CountsAddUp /\ WaitBlockInUseCacheAware

ContractCacheAware == INSTANCE RundownContract WITH
  granted <- held,
  phase   <- IF \E p \in Processor : ~runRefs[p].active THEN "Open"
             ELSE IF teardown \in {"Publish", "Blocked"} THEN "Closing" ELSE "Closed"

ImplementsContractCacheAware == ContractCacheAware!Spec

(* The teardown ends once the references that it found are released. *)
TeardownEndsCacheAware == teardown = "Publish" ~> teardown = "Done"
=============================================================================
