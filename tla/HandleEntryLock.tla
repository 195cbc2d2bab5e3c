-------------------------- MODULE HandleEntryLock --------------------------
(***************************************************************************)
(* The lock in each entry of a handle table (base/ntos/ex/handle.c) and    *)
(* the blocking that all entries share: HandleContentionEvent, a push lock *)
(* word used only as a stack of wait blocks (ExBlockPushLock,              *)
(* ExTimedWaitForUnblockPushLock and ExfUnblockPushLock in                 *)
(* base/ntos/ex/pushlock.c).  A thread that finds its entry locked pushes  *)
(* a wait block that lives on its stack, looks at the entry again, and     *)
(* waits; whoever unlocks or destroys any entry takes the whole chain and  *)
(* wakes all of it.                                                        *)
(*                                                                         *)
(* One action is one interlocked operation or one read of shared memory.   *)
(* The chain is the sequence of the wait blocks' owners: a block's Next is *)
(* written only while the block is pushed.                                 *)
(*                                                                         *)
(* Operators whose name ends in _<Fault> are faulty variants of the one    *)
(* that follows them; no specification uses them.                          *)
(***************************************************************************)
EXTENDS HandleTable, Sequences

CONSTANTS
  TableEntry,    (* entries of the table                                   *)
  NoEntry,       (* no entry                                               *)
  MaxCalls       (* bound: calls that each thread makes                    *)

ASSUME EntryLockAssumption ==
  /\ NoEntry \notin TableEntry
  /\ MaxCalls \in [Thread -> Nat]

VARIABLES
  value,         (* of each entry                                          *)
  chain,         (* HandleContentionEvent: the wait blocks, newest first   *)
  spinning,      (* EX_PUSH_LOCK_FLAGS_SPINNING of each wait block         *)
  wakeEvent,     (* WakeEvent of each wait block                           *)
  entry,         (* the entry it works on                                  *)
  walk,          (* the wait blocks it has popped and not yet woken        *)
  after,         (* where it goes when it has woken them                   *)
  calls          (* calls it has made                                      *)

blockVars == <<spinning, wakeEvent>>
walkVars  == <<walk, after>>
varsEntryLock == <<value, chain, blockVars, pc, entry, walkVars, calls>>

(* The values of an entry: NULL when it is free, otherwise the object's    *)
(* address, with the bit EXHANDLE_TABLE_ENTRY_LOCK_BIT set when the entry  *)
(* is NOT locked.                                                          *)
Free    == 0
Object  == 2
LockBit == 1

(* ExUnblockPushLock is next for t, and then where. *)
Unblock(t, where) ==
  /\ Goto(t, "Unblock")
  /\ after' = [after EXCEPT ![t] = where]

Holders(e) == {t \in Thread : entry[t] = e /\ pc[t] = "Holding"}
-----------------------------------------------------------------------------
(* ExMapHandleToPointer, ExChangeHandle or ExDestroyHandle for the entry.  *)
BeginLock(t, e) ==
  /\ pc[t] = "Idle" /\ calls[t] < MaxCalls[t]
  /\ calls' = [calls EXCEPT ![t] = @ + 1]
  /\ entry' = [entry EXCEPT ![t] = e]
  /\ Goto(t, "Lock")
  /\ UNCHANGED <<value, chain, blockVars, walkVars>>

(* ExCreateHandle fills an entry that the free list gave to this thread    *)
(* (see HandleFreeList): the template it copies is locked.                 *)
FillEntry(t, e) ==
  /\ pc[t] = "Idle" /\ calls[t] < MaxCalls[t]
  /\ value[e] = Free
  /\ \A u \in Thread : ~(pc[u] \in {"Unblock", "Walk", "Wake"} /\ after[u] = "Freed" /\ entry[u] = e)
  /\ calls' = [calls EXCEPT ![t] = @ + 1]
  /\ value' = [value EXCEPT ![e] = Object]
  /\ entry' = [entry EXCEPT ![t] = e]
  /\ Goto(t, "Holding")
  /\ UNCHANGED <<chain, blockVars, walkVars>>

EndCall(t) ==
  /\ Goto(t, "Idle")
  /\ entry' = [entry EXCEPT ![t] = NoEntry]

(* ExpLockHandleTableEntry reads the entry; a free one is not locked.      *)
ReadEntry(t) ==
  /\ pc[t] = "Lock"
  /\ CASE value[entry[t]] = Free             -> EndCall(t)
       [] value[entry[t]] = Object + LockBit -> Goto(t, "Swap") /\ UNCHANGED entry
       [] value[entry[t]] = Object           -> Goto(t, "Push") /\ UNCHANGED entry
  /\ UNCHANGED <<value, chain, blockVars, walkVars, calls>>

(* If its compare-exchange fails, it blocks as if the entry were locked.   *)
SwapEntry(t) ==
  /\ pc[t] = "Swap"
  /\ IF value[entry[t]] = Object + LockBit
     THEN value' = [value EXCEPT ![entry[t]] = Object] /\ Goto(t, "Holding")
     ELSE Goto(t, "Push") /\ UNCHANGED value
  /\ UNCHANGED <<chain, blockVars, entry, walkVars, calls>>

(* ExpBlockOnLockedHandleEntry: ExBlockPushLock pushes the wait block.     *)
PushBlock(t) ==
  /\ pc[t] = "Push"
  /\ chain' = <<t>> \o chain
  /\ spinning' = [spinning EXCEPT ![t] = TRUE]
  /\ Goto(t, "Recheck")
  /\ UNCHANGED <<value, wakeEvent, entry, walkVars, calls>>

RecheckEntry_Omitted(t) ==
  /\ pc[t] = "Recheck"
  /\ Goto(t, "InitEvent") /\ UNCHANGED after
  /\ UNCHANGED <<value, chain, blockVars, entry, walk, calls>>

(* The entry may have been unlocked before the block was pushed.           *)
RecheckEntry(t) ==
  /\ pc[t] = "Recheck"
  /\ IF value[entry[t]] = Object
     THEN Goto(t, "InitEvent") /\ UNCHANGED after
     ELSE Unblock(t, "Self")
  /\ UNCHANGED <<value, chain, blockVars, entry, walk, calls>>

(* ExTimedWaitForUnblockPushLock; the caller in handle.c passes no timeout. *)
InitEvent(t) ==
  /\ pc[t] = "InitEvent"
  /\ wakeEvent' = [wakeEvent EXCEPT ![t] = FALSE]
  /\ Goto(t, "Spin")
  /\ UNCHANGED <<value, chain, spinning, entry, walkVars, calls>>

(* It stops spinning, and waits only if it was not woken until then.       *)
StopSpinning(t) ==
  /\ pc[t] = "Spin"
  /\ spinning' = [spinning EXCEPT ![t] = FALSE]
  /\ Goto(t, IF spinning[t] THEN "Wait" ELSE "Lock")
  /\ UNCHANGED <<value, chain, wakeEvent, entry, walkVars, calls>>

WaitReturns(t) ==
  /\ pc[t] = "Wait" /\ wakeEvent[t]
  /\ wakeEvent' = [wakeEvent EXCEPT ![t] = FALSE]
  /\ Goto(t, "Lock")
  /\ UNCHANGED <<value, chain, spinning, entry, walkVars, calls>>

-----------------------------------------------------------------------------
(* ExUnlockHandleTableEntry adds the bit without looking.                  *)
Unlock(t) ==
  /\ pc[t] = "Holding"
  /\ value' = [value EXCEPT ![entry[t]] = @ + LockBit]
  /\ Unblock(t, "Done")
  /\ UNCHANGED <<chain, blockVars, entry, walk, calls>>

(* ExDestroyHandle on the locked entry; it is free for reuse only after    *)
(* the waiters have been woken.                                            *)
ExDestroyHandle(t) ==
  /\ pc[t] = "Holding"
  /\ value' = [value EXCEPT ![entry[t]] = Free]
  /\ Unblock(t, "Freed")
  /\ UNCHANGED <<chain, blockVars, entry, walk, calls>>

(* The end of ExfUnblockPushLock; called with the caller's own wait block, *)
(* it waits for whoever else has popped that block but not woken it yet.   *)
WalkEnds_IgnoresOwnBlock(t) ==
  IF after[t] = "Self"
  THEN Goto(t, "Lock") /\ UNCHANGED entry
  ELSE EndCall(t)

WalkEnds(t) ==
  IF after[t] = "Self"
  THEN Goto(t, IF spinning[t] THEN "InitEvent" ELSE "Lock") /\ UNCHANGED entry
  ELSE EndCall(t)

(* ExfUnblockPushLock takes the chain.                                     *)
PopChain(t) ==
  /\ pc[t] = "Unblock"
  /\ chain' = <<>>
  /\ walk' = [walk EXCEPT ![t] = chain]
  /\ Goto(t, "Walk")
  /\ UNCHANGED <<value, blockVars, entry, after, calls>>

(* It reads the next pointer and resets the Spinning flag of each block;   *)
(* if the owner had reset the flag itself, it sets the event.              *)
WakeBlock(t) ==
  /\ pc[t] = "Walk"
  /\ IF walk[t] = <<>>
     THEN WalkEnds(t) /\ UNCHANGED <<spinning, walk>>
     ELSE LET u == Head(walk[t])
          IN  /\ spinning' = [spinning EXCEPT ![u] = FALSE]
              /\ IF spinning[u]
                 THEN walk' = [walk EXCEPT ![t] = Tail(@)] /\ UNCHANGED pc
                 ELSE Goto(t, "Wake") /\ UNCHANGED walk
              /\ UNCHANGED entry
  /\ UNCHANGED <<value, chain, wakeEvent, after, calls>>

SetEvent(t) ==
  /\ pc[t] = "Wake"
  /\ wakeEvent' = [wakeEvent EXCEPT ![Head(walk[t])] = TRUE]
  /\ walk' = [walk EXCEPT ![t] = Tail(@)]
  /\ Goto(t, "Walk")
  /\ UNCHANGED <<value, chain, spinning, entry, after, calls>>
-----------------------------------------------------------------------------
InitEntryLock ==
  /\ value \in [TableEntry -> {Free, Object + LockBit}]
  /\ chain = <<>>
  /\ spinning = [t \in Thread |-> FALSE] /\ wakeEvent = [t \in Thread |-> FALSE]
  /\ pc = [t \in Thread |-> "Idle"]
  /\ entry = [t \in Thread |-> NoEntry]
  /\ walk = [t \in Thread |-> <<>>] /\ after = [t \in Thread |-> "Done"]
  /\ calls = [t \in Thread |-> 0]

Locking(t) ==
  \/ ReadEntry(t) \/ SwapEntry(t) \/ PushBlock(t) \/ RecheckEntry(t)
  \/ InitEvent(t) \/ StopSpinning(t) \/ WaitReturns(t)

Waking(t) == PopChain(t) \/ WakeBlock(t) \/ SetEvent(t)

(* The bound on calls is used up. *)
Finished ==
  /\ \A t \in Thread : pc[t] = "Idle" /\ calls[t] = MaxCalls[t]
  /\ UNCHANGED varsEntryLock

NextEntryLock ==
  \/ \E t \in Thread :
       \/ \E e \in TableEntry : BeginLock(t, e) \/ FillEntry(t, e)
       \/ Locking(t) \/ Waking(t)
       \/ Unlock(t) \/ ExDestroyHandle(t)
  \/ Finished

SpecEntryLock == InitEntryLock /\ [][NextEntryLock]_varsEntryLock

(* Threads run, and whoever has locked an entry unlocks or destroys it.    *)
FairSpecEntryLock ==
  SpecEntryLock /\ \A t \in Thread :
    /\ WF_varsEntryLock(Locking(t)) /\ WF_varsEntryLock(Waking(t))
    /\ WF_varsEntryLock(Unlock(t) \/ ExDestroyHandle(t))
-----------------------------------------------------------------------------
TypeOKEntryLock ==
  /\ value \in [TableEntry -> {Free, Object, Object + LockBit}]
  /\ chain \in Seq(Thread)
  /\ spinning \in [Thread -> BOOLEAN] /\ wakeEvent \in [Thread -> BOOLEAN]
  /\ pc \in [Thread -> {"Idle", "Lock", "Swap", "Push", "Recheck", "InitEvent", "Spin",
                        "Wait", "Holding", "Unblock", "Walk", "Wake"}]
  /\ entry \in [Thread -> TableEntry \union {NoEntry}]
  /\ walk \in [Thread -> Seq(Thread)]
  /\ after \in [Thread -> {"Done", "Freed", "Self"}]
  /\ \A t \in Thread : calls[t] \in 0..MaxCalls[t]

(* A handle table entry is locked by one thread at a time, and nobody      *)
(* else destroys, unlocks or creates it meanwhile.                         *)
EntryExclusion ==
  \A e \in TableEntry :
    /\ \A t, u \in Holders(e) : t = u
    /\ value[e] = Object <=> Holders(e) # {}

InSeq(t, s) == \E i \in 1..Len(s) : s[i] = t

(* t is in ExpBlockOnLockedHandleEntry, with its wait block on its stack.  *)
Blocking(t) ==
  \/ pc[t] \in {"Recheck", "InitEvent", "Spin", "Wait"}
  \/ pc[t] \in {"Unblock", "Walk", "Wake"} /\ after[t] = "Self"

(* Wait blocks are on the stacks of waiting threads: the chain, and every  *)
(* thread that walks a part of it, has only blocks of threads that are     *)
(* still in the call that pushed them.                                     *)
BlocksOfWaitingThreads ==
  \A u \in Thread :
    InSeq(u, chain) \/ (\E t \in Thread : InSeq(u, walk[t])) => Blocking(u)

(* Entries and threads agree on who holds an entry, and chain, walks and   *)
(* threads on which wait blocks are in use.                                *)
EntriesConsistent == TypeOKEntryLock /\ EntryExclusion /\ BlocksOfWaitingThreads

(* Every attempt to lock an entry returns, with the entry or because it    *)
(* has been destroyed.                                                     *)
LockReturns == \A t \in Thread : pc[t] = "Lock" ~> pc[t] \in {"Idle", "Holding"}
=============================================================================
