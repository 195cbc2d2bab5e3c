---------------------------- MODULE GuardedMutex ----------------------------
(***************************************************************************)
(* One guarded mutex (inc/kx.h, ke/wait.c) over its gate.  Fast mutexes    *)
(* are the same algorithm on all processors but x86 (inc/ex.h).  Count is  *)
(* a word with the lock bit, which is 1 when the mutex is free, the woken  *)
(* bit and the number of waiters above it.  A release wakes one waiter     *)
(* unless one is already on its way; the woken waiter competes for the     *)
(* mutex with newcomers, and clears the woken bit when it gets it or       *)
(* counts itself as a waiter again.                                        *)
(*                                                                         *)
(* guarded becomes TRUE in the variants that enter a guarded region or     *)
(* raise IRQL to APC_LEVEL, and stays FALSE in the unsafe fast mutex       *)
(* variants used in a critical region, which leaves them enabled.          *)
(*                                                                         *)
(* A compare-exchange whose new value depends on the word only is the      *)
(* action of the exchange that succeeds; the one of a release compares     *)
(* with a value that it computed before, which is kept in old.             *)
(***************************************************************************)
EXTENDS Gate

CONSTANTS
  Unguarded,     (* threads that use the unsafe variants in a critical region *)
  MaxAcquires    (* bound: acquires and tries, for each thread             *)

ASSUME GuardedMutexAssumption ==
  Unguarded \subseteq Thread /\ MaxAcquires \in [Thread -> Nat]

VARIABLES
  count,         (* Count, see Count                                       *)
  owner,         (* Owner                                                  *)
  pc,            (* where each thread is                                   *)
  old,           (* OldValue of a thread that releases the mutex           *)
  beenWoken,     (* it was woken before: BitsToChange and WaitIncrement    *)
  acquires       (* calls each thread has made                             *)

mutexVars == <<count, owner, pc, old, beenWoken, acquires>>
vars == <<gateVars, mutexVars>>

Count == [free : BOOLEAN, woken : BOOLEAN, waiters : Nat]
Initial == [free |-> TRUE, woken |-> FALSE, waiters |-> 0]

Goto(t, where) == pc' = [pc EXCEPT ![t] = where]
-----------------------------------------------------------------------------
(***************************************************************************)
(* KiAcquireGuardedMutex: the values that the two exchanges install.       *)
(***************************************************************************)
(* OldValue ^ BitsToChange, where the lock bit is set. *)
Grabbed(c, again) ==
  [c EXCEPT !.free = FALSE, !.woken = IF again THEN ~@ ELSE @]

(* OldValue + WaitIncrement: adding the woken bit to itself clears it and  *)
(* carries into the waiters.                                               *)
Queued_KeepsWoken(c, again) == [c EXCEPT !.waiters = @ + 1]
Queued(c, again) ==
  IF again /\ ~c.woken
  THEN [c EXCEPT !.woken = TRUE]
  ELSE [c EXCEPT !.waiters = @ + 1, !.woken = @ /\ ~again]

(* InterlockedBitTestAndReset succeeds. *)
AcquireFast(t) ==
  /\ pc[t] = "Idle" /\ acquires[t] < MaxAcquires[t]
  /\ count.free
  /\ count' = [count EXCEPT !.free = FALSE]
  /\ owner' = t
  /\ guarded' = [guarded EXCEPT ![t] = t \notin Unguarded]
  /\ acquires' = [acquires EXCEPT ![t] = @ + 1]
  /\ Goto(t, "Owns")
  /\ UNCHANGED <<signalState, waitList, lockVars, waitVars, kernelApcPending,
                 gpc, apcVars, old, beenWoken>>

AcquireSlow(t) ==
  /\ pc[t] = "Idle" /\ acquires[t] < MaxAcquires[t]
  /\ ~count.free
  /\ guarded' = [guarded EXCEPT ![t] = t \notin Unguarded]
  /\ beenWoken' = [beenWoken EXCEPT ![t] = FALSE]
  /\ acquires' = [acquires EXCEPT ![t] = @ + 1]
  /\ Goto(t, "Compete")
  /\ UNCHANGED <<signalState, waitList, lockVars, waitVars, kernelApcPending,
                 gpc, apcVars, count, owner, old>>

(* KeTryToAcquireGuardedMutex leaves the guarded region when it fails; its *)
(* success is AcquireFast.                                                 *)
TryFails(t) ==
  /\ pc[t] = "Idle" /\ acquires[t] < MaxAcquires[t]
  /\ ~count.free
  /\ acquires' = [acquires EXCEPT ![t] = @ + 1]
  /\ UNCHANGED <<gateVars, count, owner, pc, old, beenWoken>>

(* At the top of the loop, also after the gate has let the thread pass.    *)
Grab(t) ==
  /\ pc[t] = "Compete" /\ gpc[t] = "Idle"
  /\ count.free
  /\ count' = Grabbed(count, beenWoken[t])
  /\ owner' = t
  /\ Goto(t, "Owns")
  /\ UNCHANGED <<gateVars, old, beenWoken, acquires>>

WaitForGate(t) ==
  /\ pc[t] = "Compete" /\ gpc[t] = "Idle"
  /\ ~count.free
  /\ count' = Queued(count, beenWoken[t])
  /\ beenWoken' = [beenWoken EXCEPT ![t] = TRUE]
  /\ GateGoto(t, "Wait")
  /\ UNCHANGED <<signalState, waitList, lockVars, waitVars, kernelApcPending,
                 guarded, apcVars, owner, pc, old, acquires>>
-----------------------------------------------------------------------------
(***************************************************************************)
(* KeReleaseGuardedMutex.                                                  *)
(***************************************************************************)
Freed(c) == [c EXCEPT !.free = TRUE]

NeedsWake(c) == c.waiters > 0 /\ ~c.woken

(* The exchange-add; OldValue becomes the value that it left. *)
Release(t) ==
  /\ pc[t] = "Owns"
  /\ owner' = Free
  /\ count' = Freed(count)
  /\ old' = [old EXCEPT ![t] = count']
  /\ Goto(t, IF NeedsWake(count) THEN "Wake" ELSE "Leave")
  /\ UNCHANGED <<gateVars, beenWoken, acquires>>

WokenValue(c) == [c EXCEPT !.woken = TRUE, !.waiters = @ - 1]

ElectWaker_NoCompare(t) ==
  /\ pc[t] = "Wake"
  /\ count' = WokenValue(old[t]) /\ GateGoto(t, "Signal")
  /\ Goto(t, "Leave")
  /\ UNCHANGED <<signalState, waitList, lockVars, waitVars, kernelApcPending,
                 guarded, apcVars, owner, old, beenWoken, acquires>>
(* The exchange that elects one waker; if it fails, another thread owns    *)
(* the mutex now or has elected itself.                                    *)
ElectWaker(t) ==
  /\ pc[t] = "Wake"
  /\ IF count = old[t]
     THEN count' = WokenValue(count) /\ GateGoto(t, "Signal")
     ELSE UNCHANGED <<count, gpc>>
  /\ Goto(t, "Leave")
  /\ UNCHANGED <<signalState, waitList, lockVars, waitVars, kernelApcPending,
                 guarded, apcVars, owner, old, beenWoken, acquires>>

(* KeLeaveGuardedRegion, or lowering of IRQL. *)
Leave(t) ==
  /\ pc[t] = "Leave" /\ gpc[t] = "Idle"
  /\ guarded' = [guarded EXCEPT ![t] = FALSE]
  /\ Goto(t, "Idle")
  /\ UNCHANGED <<signalState, waitList, lockVars, waitVars, kernelApcPending,
                 gpc, apcVars, count, owner, old, beenWoken, acquires>>
-----------------------------------------------------------------------------
Init ==
  /\ GateInit
  /\ count = Initial /\ owner = Free
  /\ pc = [t \in Thread |-> "Idle"]
  /\ old = [t \in Thread |-> Initial]
  /\ beenWoken = [t \in Thread |-> FALSE]
  /\ acquires = [t \in Thread |-> 0]

Acquire(t) == TryFails(t) \/ AcquireFast(t) \/ AcquireSlow(t)
Step(t) == Grab(t) \/ WaitForGate(t) \/ Release(t) \/ ElectWaker(t) \/ Leave(t)

Next ==
  \/ \E t \in Thread : Acquire(t) \/ Step(t)
  \/ GateNext /\ UNCHANGED mutexVars

Spec == Init /\ [][Next]_vars
(* Threads run, and owners release the mutex in the end.  A signaler may   *)
(* take and drop the gate lock again and again while the processor that    *)
(* inserts an APC holds the thread's lock and spins for the gate lock: it  *)
(* gets the lock in the end.                                               *)
FairSpec ==
  /\ Spec
  /\ \A t \in Thread : WF_vars(Step(t) \/ (GateStep(t) /\ UNCHANGED mutexVars))
  /\ SF_vars(ApcStep /\ UNCHANGED mutexVars)
-----------------------------------------------------------------------------
TypeOK ==
  /\ GateTypeOK
  /\ count \in Count
  /\ owner \in Thread \union {Free}
  /\ pc \in [Thread -> {"Idle", "Compete", "Owns", "Wake", "Leave"}]
  /\ old \in [Thread -> Count]
  /\ beenWoken \in [Thread -> BOOLEAN]
  /\ acquires \in [Thread -> Nat]

(* One owner, and the Owner field names it: the assertion at the start of  *)
(* every release.                                                          *)
MutualExclusion == \A t \in Thread : pc[t] = "Owns" => owner = t /\ ~count.free

(* t carries a wake: it is about to signal the gate, has been taken off    *)
(* its list, or has been let pass and has not yet exchanged the count.     *)
CarriesWake(t) ==
  \/ gpc[t] \in {"Signal", "Signaling"}
  \/ HandedOver(t)
  \/ pc[t] = "Compete" /\ beenWoken[t] /\ gpc[t] = "Idle"

(* The woken bit is set exactly while one wake is on its way, whether with *)
(* a thread or in the gate, so that a release that finds it set may leave  *)
(* the waiters alone.                                                      *)
WokenBitIsOneWake ==
  LET carriers == {t \in Thread : CarriesWake(t)}
  IN  IF ~count.woken THEN carriers = {} /\ signalState = 0
      ELSE IF signalState = 1 THEN carriers = {}
      ELSE \E t \in Thread : carriers = {t}

(* While the mutex is free, its waiters have a wake on its way or a thread *)
(* whose exchange will start one.                                          *)
WaitersHaveAWaker ==
  count.free /\ count.waiters > 0 =>
    count.woken \/ \E t \in Thread : pc[t] = "Wake" /\ old[t] = count

(* Count, gate and threads agree on who is to be woken.                    *)
WakesAgree == TypeOK /\ WokenBitIsOneWake /\ WaitersHaveAWaker

(* The gate that the mutex uses is a gate as its callers know it.          *)
GateImplementsContract == Contract!Spec

(* Every acquire returns, whatever APCs interrupt its waits.               *)
AcquireReturns == \A t \in Thread : pc[t] = "Compete" ~> pc[t] = "Owns"
=============================================================================
