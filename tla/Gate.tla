-------------------------------- MODULE Gate --------------------------------
(***************************************************************************)
(* One gate (base/ntos/ke/gateobj.c) with the kernel APCs that take        *)
(* threads out of gate waits (KiInsertQueueApc in ke/apcsup.c).  A gate    *)
(* wait does not use the dispatcher lock: it is guarded by the lock of the *)
(* APC queue of the thread, the thread's lock and the lock of the gate,    *)
(* which waiting and interrupting take in that order and signaling takes   *)
(* the other way round, gate lock first.                                   *)
(*                                                                         *)
(* A step takes at most one lock that it may find held.  The gate lock is  *)
(* a variable for the signaler only: whoever takes it as the last lock     *)
(* gives it back in the same step.  Threads that belong to a kernel queue  *)
(* are not modelled here (the module KernelQueue has their part).          *)
(*                                                                         *)
(* The module has no specification of its own: a user of the gate sets     *)
(* gpc to call an operation, which is over when gpc is "Idle" again.       *)
(*                                                                         *)
(* Operators whose name ends in _<Fault> are faulty variants of the one    *)
(* that follows them; no specification uses them.                          *)
(***************************************************************************)
EXTENDS Integers, Sequences, SequencesExt

CONSTANTS
  Thread,        (* threads that wait for the gate and signal it           *)
  Free,          (* the owner of a lock that nobody holds                  *)
  Apc,           (* the processor that inserts kernel APCs                 *)
  MaxApcs        (* bound: kernel APCs inserted                            *)

ASSUME GateAssumption ==
  /\ Free \notin Thread /\ Apc \notin Thread /\ Free # Apc
  /\ MaxApcs \in Nat

VARIABLES
  signalState,   (* SignalState of the gate                                *)
  waitList,      (* threads on its wait list, in order                     *)
  gateLock, threadLock, apcQueueLock,   (* owners of the locks             *)
  state,         (* State of each thread                                   *)
  waitStatus,    (* how its last wait ended                                *)
  kernelApcPending,
  guarded,       (* the thread runs with special kernel APCs disabled      *)
  gpc,           (* where each thread is in an operation on the gate       *)
  target, apcPc, (* the thread that the APC is for, and the step           *)
  apcs           (* APCs inserted so far                                   *)

lockVars == <<gateLock, threadLock, apcQueueLock>>
apcVars  == <<target, apcPc, apcs>>
waitVars == <<state, waitStatus>>
gateVars == <<signalState, waitList, lockVars, waitVars, kernelApcPending,
              guarded, gpc, apcVars>>

GateGoto(t, where) == gpc' = [gpc EXCEPT ![t] = where]
Taken(lock, t, owner) == lock[t] = Free /\ lock' = [lock EXCEPT ![t] = owner]
Released(lock, t) == lock' = [lock EXCEPT ![t] = Free]
EndWait(t, status) ==
  /\ waitList' = RemoveFirst(waitList, t)
  /\ state' = [state EXCEPT ![t] = "DeferredReady"]
  /\ waitStatus' = [waitStatus EXCEPT ![t] = status]

GateInit ==
  /\ signalState = 0 /\ waitList = <<>>
  /\ gateLock = Free
  /\ threadLock = [t \in Thread |-> Free]
  /\ apcQueueLock = [t \in Thread |-> Free]
  /\ state = [t \in Thread |-> "Running"]
  /\ waitStatus = [t \in Thread |-> "None"]
  /\ kernelApcPending = [t \in Thread |-> FALSE]
  /\ guarded = [t \in Thread |-> FALSE]
  /\ gpc = [t \in Thread |-> "Idle"]
  /\ target = Free /\ apcPc = "Idle" /\ apcs = 0
-----------------------------------------------------------------------------
(***************************************************************************)
(* KeWaitForGate, which its caller starts at "Wait".                       *)
(***************************************************************************)
(* An APC interrupt that comes while the thread runs below APC_LEVEL; the  *)
(* end of a guarded region delivers what is pending too.                   *)
DeliverApc(t) ==
  /\ kernelApcPending[t] /\ ~guarded[t]
  /\ gpc[t] \in {"Idle", "Wait"}
  /\ kernelApcPending' = [kernelApcPending EXCEPT ![t] = FALSE]
  /\ UNCHANGED <<signalState, waitList, lockVars, waitVars, guarded, gpc, apcVars>>

(* With a deliverable APC pending, the lock is dropped for its interrupt. *)
LockApcQueue(t) ==
  /\ gpc[t] = "Wait"
  /\ ~(kernelApcPending[t] /\ ~guarded[t])
  /\ Taken(apcQueueLock, t, t)
  /\ GateGoto(t, "LockThread")
  /\ UNCHANGED <<signalState, waitList, gateLock, threadLock, waitVars,
                 kernelApcPending, guarded, apcVars>>

LockThread(t) ==
  /\ gpc[t] = "LockThread"
  /\ Taken(threadLock, t, t)
  /\ GateGoto(t, "LockGate")
  /\ UNCHANGED <<signalState, waitList, gateLock, apcQueueLock, waitVars,
                 kernelApcPending, guarded, apcVars>>

TakeSignal(t) ==
  /\ gpc[t] = "LockGate" /\ gateLock = Free
  /\ signalState # 0
  /\ signalState' = 0
  /\ Released(threadLock, t) /\ Released(apcQueueLock, t)
  /\ GateGoto(t, "Idle")
  /\ UNCHANGED <<waitList, gateLock, waitVars, kernelApcPending, guarded, apcVars>>

Block(t) ==
  /\ gpc[t] = "LockGate" /\ gateLock = Free
  /\ signalState = 0
  /\ waitList' = Append(waitList, t)
  /\ state' = [state EXCEPT ![t] = "GateWait"]
  /\ GateGoto(t, "Blocked")
  /\ UNCHANGED <<signalState, lockVars, waitStatus, kernelApcPending, guarded, apcVars>>

UnlockThread(t) ==
  /\ gpc[t] = "Blocked" /\ threadLock[t] = t
  /\ Released(threadLock, t)
  /\ UNCHANGED <<signalState, waitList, gateLock, apcQueueLock, waitVars,
                 kernelApcPending, guarded, gpc, apcVars>>

(* The last lock is given back and KiSwapThread switches away. *)
SwapAway(t) ==
  /\ gpc[t] = "Blocked" /\ threadLock[t] # t
  /\ Released(apcQueueLock, t)
  /\ GateGoto(t, "Asleep")
  /\ UNCHANGED <<signalState, waitList, gateLock, threadLock, waitVars,
                 kernelApcPending, guarded, apcVars>>

(* The thread runs again; after an APC it starts over. *)
Resume(t) ==
  /\ gpc[t] = "Asleep" /\ state[t] = "DeferredReady"
  /\ state' = [state EXCEPT ![t] = "Running"]
  /\ GateGoto(t, IF waitStatus[t] = "Success" THEN "Idle" ELSE "Wait")
  /\ UNCHANGED <<signalState, waitList, lockVars, waitStatus, kernelApcPending,
                 guarded, apcVars>>
-----------------------------------------------------------------------------
(***************************************************************************)
(* KeSignalGateBoostPriority, which its caller starts at "Signal".         *)
(***************************************************************************)
LockGate(t) ==
  /\ gpc[t] = "Signal" /\ gateLock = Free
  /\ gateLock' = t
  /\ GateGoto(t, "Signaling")
  /\ UNCHANGED <<signalState, waitList, threadLock, apcQueueLock, waitVars,
                 kernelApcPending, guarded, apcVars>>

SetSignal(t) ==
  /\ gpc[t] = "Signaling" /\ gateLock = t
  /\ signalState # 0 \/ waitList = <<>>
  /\ signalState' = 1
  /\ gateLock' = Free
  /\ GateGoto(t, "Idle")
  /\ UNCHANGED <<waitList, threadLock, apcQueueLock, waitVars, kernelApcPending,
                 guarded, apcVars>>

ReadyWaiter(t) ==
  /\ gpc[t] = "Signaling" /\ gateLock = t
  /\ signalState = 0 /\ waitList # <<>>
  /\ threadLock[Head(waitList)] = Free
  /\ EndWait(Head(waitList), "Success")
  /\ gateLock' = Free
  /\ GateGoto(t, "Idle")
  /\ UNCHANGED <<signalState, threadLock, apcQueueLock, kernelApcPending, guarded, apcVars>>

(* KiTryToAcquireThreadLock fails: the gate lock is dropped, then again. *)
TryAgain_Spins(t) == FALSE /\ UNCHANGED gateVars
TryAgain(t) ==
  /\ gpc[t] = "Signaling" /\ gateLock = t
  /\ signalState = 0 /\ waitList # <<>>
  /\ threadLock[Head(waitList)] # Free
  /\ gateLock' = Free
  /\ GateGoto(t, "Signal")
  /\ UNCHANGED <<signalState, waitList, threadLock, apcQueueLock, waitVars,
                 kernelApcPending, guarded, apcVars>>
-----------------------------------------------------------------------------
(***************************************************************************)
(* KiInsertQueueApc for a kernel APC to another thread.  KeInsertQueueApc  *)
(* holds the lock of the target's APC queue around it.                     *)
(***************************************************************************)
ApcGoto(where) == apcPc' = where

ApcQueueApc(t) ==
  /\ apcPc = "Idle" /\ apcs < MaxApcs
  /\ Taken(apcQueueLock, t, Apc)
  /\ target' = t /\ apcs' = apcs + 1
  /\ ApcGoto("Insert")
  /\ UNCHANGED <<signalState, waitList, gateLock, threadLock, waitVars,
                 kernelApcPending, guarded, gpc>>

ApcSetPending ==
  /\ apcPc = "Insert"
  /\ kernelApcPending' = [kernelApcPending EXCEPT ![target] = TRUE]
  /\ ApcGoto(IF state[target] = "GateWait" THEN "LockThread" ELSE "Done")
  /\ UNCHANGED <<signalState, waitList, lockVars, waitVars, guarded, gpc, target, apcs>>

ApcLockThread ==
  /\ apcPc = "LockThread"
  /\ Taken(threadLock, target, Apc)
  /\ ApcGoto("Recheck")
  /\ UNCHANGED <<signalState, waitList, gateLock, apcQueueLock, waitVars,
                 kernelApcPending, guarded, gpc, target, apcs>>

StillInterruptible_Unchecked == ~guarded[target]
StillInterruptible == state[target] = "GateWait" /\ ~guarded[target]

ApcEndWait ==
  /\ apcPc = "Recheck" /\ StillInterruptible
  /\ gateLock = Free
  /\ EndWait(target, "KernelApc")
  /\ Released(threadLock, target)
  /\ ApcGoto("Done")
  /\ UNCHANGED <<signalState, gateLock, apcQueueLock, kernelApcPending, guarded,
                 gpc, target, apcs>>

ApcLeaveWait ==
  /\ apcPc = "Recheck" /\ ~StillInterruptible
  /\ Released(threadLock, target)
  /\ ApcGoto("Done")
  /\ UNCHANGED <<signalState, waitList, gateLock, apcQueueLock, waitVars,
                 kernelApcPending, guarded, gpc, target, apcs>>

ApcDone ==
  /\ apcPc = "Done"
  /\ Released(apcQueueLock, target)
  /\ ApcGoto("Idle") /\ target' = Free
  /\ UNCHANGED <<signalState, waitList, gateLock, threadLock, waitVars,
                 kernelApcPending, guarded, gpc, apcs>>
-----------------------------------------------------------------------------
GateStep(t) ==
  \/ DeliverApc(t) \/ LockApcQueue(t) \/ LockThread(t)
  \/ TakeSignal(t) \/ Block(t) \/ UnlockThread(t) \/ SwapAway(t) \/ Resume(t)
  \/ LockGate(t) \/ SetSignal(t) \/ ReadyWaiter(t) \/ TryAgain(t)
ApcStep == ApcSetPending \/ ApcLockThread \/ ApcEndWait \/ ApcLeaveWait \/ ApcDone

GateNext ==
  \/ \E t \in Thread : GateStep(t) \/ ApcQueueApc(t)
  \/ ApcStep
-----------------------------------------------------------------------------
InWait(t) == gpc[t] \in {"Wait", "LockThread", "LockGate", "Blocked", "Asleep"}

(* t has been taken off the list by a signal. *)
HandedOver(t) ==
  /\ gpc[t] \in {"Blocked", "Asleep"}
  /\ state[t] = "DeferredReady" /\ waitStatus[t] = "Success"

GateTypeOK ==
  /\ signalState \in {0, 1}
  /\ waitList \in Seq(Thread)
  /\ gateLock \in Thread \union {Free}
  /\ threadLock \in [Thread -> Thread \union {Free, Apc}]
  /\ apcQueueLock \in [Thread -> Thread \union {Free, Apc}]
  /\ state \in [Thread -> {"Running", "GateWait", "DeferredReady"}]
  /\ waitStatus \in [Thread -> {"None", "Success", "KernelApc"}]
  /\ kernelApcPending \in [Thread -> BOOLEAN]
  /\ guarded \in [Thread -> BOOLEAN]
  /\ gpc \in [Thread -> {"Idle", "Wait", "LockThread", "LockGate", "Blocked",
                         "Asleep", "Signal", "Signaling"}]
  /\ target \in Thread \union {Free}
  /\ apcPc \in {"Idle", "Insert", "LockThread", "Recheck", "Done"}
  /\ apcs \in 0 .. MaxApcs

Contract == INSTANCE GateContract WITH
  open    <- signalState = 1,
  waiting <- {t \in Thread : InWait(t) /\ ~HandedOver(t)},
  passing <- {t \in Thread : HandedOver(t)}
=============================================================================
