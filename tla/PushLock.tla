------------------------------ MODULE PushLock ------------------------------
(***************************************************************************)
(* One push lock (base/ntos/ex/pushlock.c and its inline halves in         *)
(* inc/ex.h): a shared or exclusive lock in one word.  Threads that find   *)
(* it held push a wait block on their stack onto a chain whose top is in   *)
(* the word; the owner of the Waking bit walks the chain to put in the     *)
(* pointers to its end, and to wake the waiters at its end when the lock   *)
(* is free.  A woken thread does not own the lock: it tries again.         *)
(*                                                                         *)
(* One action is one interlocked operation on the word or one step along   *)
(* the chain.  A compare-exchange whose new value depends on the word only *)
(* is the action of the exchange that succeeds; where the value was used   *)
(* to follow pointers, the copy is kept in old.                            *)
(*                                                                         *)
(* Operators whose name ends in _<Fault> are faulty variants of the one    *)
(* that follows them; no specification uses them.                          *)
(***************************************************************************)
EXTENDS Integers, FiniteSets

CONSTANTS
  Thread,        (* threads; each has one wait block                       *)
  Null,          (* the NULL wait block pointer                            *)
  MaxAcquires    (* bound: calls of an acquire function, for each thread   *)

ASSUME PushLockAssumption ==
  /\ IsFiniteSet(Thread) /\ Null \notin Thread
  /\ MaxAcquires \in [Thread -> Nat]

VARIABLES
  word,          (* the push lock, see Word                                *)
  next, last, previous,   (* pointers of each wait block                   *)
  shareCount,    (* ShareCount of each wait block                          *)
  exclusive,     (* EX_PUSH_LOCK_FLAGS_EXCLUSIVE of each wait block        *)
  spinning,      (* EX_PUSH_LOCK_FLAGS_SPINNING of each wait block         *)
  signaled,      (* Signaled of each wait block                            *)
  gate,          (* the signal state of WakeGate of each wait block        *)
  pc,            (* where each thread is                                   *)
  want,          (* the mode it is acquiring, "None" outside an acquire    *)
  holds,         (* the mode in which it holds the lock                    *)
  old, cur,      (* OldValue and WaitBlock of a thread that walks the chain *)
  acquires       (* acquire calls that each thread has made                *)

chainVars  == <<next, last, previous, shareCount, exclusive>>
wakeVars   == <<spinning, signaled, gate>>
threadVars == <<pc, want, holds, old, cur, acquires>>
vars       == <<word, chainVars, wakeVars, threadVars>>

Modes == {"Shared", "Exclusive"}

(* With waiting, the share count gives way to the pointer top. *)
Word == [locked : BOOLEAN, waiting : BOOLEAN, waking : BOOLEAN,
         multiple : BOOLEAN, share : Nat, top : Thread \union {Null}]
Free == [locked |-> FALSE, waiting |-> FALSE, waking |-> FALSE,
         multiple |-> FALSE, share |-> 0, top |-> Null]

Goto(t, where) == pc' = [pc EXCEPT ![t] = where]

(* Starts a walk over the chain with w as the copy of the word. *)
Walk(t, w) ==
  /\ old' = [old EXCEPT ![t] = w]
  /\ cur' = [cur EXCEPT ![t] = w.top]
-----------------------------------------------------------------------------
(***************************************************************************)
(* Acquiring.                                                              *)
(***************************************************************************)
Call(t, m) ==
  /\ pc[t] = "Idle" /\ holds[t] = "None"
  /\ acquires[t] < MaxAcquires[t]
  /\ acquires' = [acquires EXCEPT ![t] = @ + 1]
  /\ want' = [want EXCEPT ![t] = m]
  /\ Goto(t, "Acquire")
  /\ UNCHANGED <<word, chainVars, wakeVars, holds, old, cur>>

MayTake(m) ==
  \/ ~word.locked
  \/ m = "Shared" /\ ~word.waiting /\ word.share > 0

(* The word after an acquire: a shared owner is counted only while there   *)
(* are no waiters.                                                         *)
TakenWord(m) ==
  [word EXCEPT !.locked = TRUE,
               !.share = IF m = "Shared" /\ ~word.waiting THEN @ + 1 ELSE @]

Take(t) ==
  /\ pc[t] = "Acquire"
  /\ MayTake(want[t])
  /\ word' = TakenWord(want[t])
  /\ holds' = [holds EXCEPT ![t] = want[t]]
  /\ want' = [want EXCEPT ![t] = "None"]
  /\ Goto(t, "Idle")
  /\ UNCHANGED <<chainVars, wakeVars, old, cur, acquires>>

(* The word after a push: the first waiter moves the share count to its    *)
(* wait block, a later one also takes the Waking bit.                      *)
PushedWord(t) ==
  [word EXCEPT !.waiting = TRUE, !.top = t, !.share = 0,
               !.waking = word.waiting,
               !.multiple = @ \/ word.share > 1]

(* The wait block goes on top of the chain; who set the Waking bit goes on *)
(* to optimize the chain.                                                  *)
Push(t) ==
  /\ pc[t] = "Acquire"
  /\ ~MayTake(want[t])
  /\ word' = PushedWord(t)
  /\ next' = [next EXCEPT ![t] = word.top]
  /\ last' = [last EXCEPT ![t] = IF word.waiting THEN Null ELSE t]
  /\ previous' = [previous EXCEPT ![t] = Null]
  /\ shareCount' = [shareCount EXCEPT ![t] = IF word.share > 1 THEN word.share ELSE 0]
  /\ exclusive' = [exclusive EXCEPT ![t] = want[t] = "Exclusive"]
  /\ spinning' = [spinning EXCEPT ![t] = TRUE]
  /\ signaled' = [signaled EXCEPT ![t] = FALSE]
  /\ IF word.waiting /\ ~word.waking
     THEN Goto(t, "Optimize") /\ Walk(t, word')
     ELSE Goto(t, "InitGate") /\ UNCHANGED <<old, cur>>
  /\ UNCHANGED <<gate, want, holds, acquires>>

InitGate(t) ==
  /\ pc[t] = "InitGate"
  /\ gate' = [gate EXCEPT ![t] = FALSE]
  /\ Goto(t, "Spin")
  /\ UNCHANGED <<word, chainVars, spinning, signaled, want, holds, old, cur, acquires>>

StopSpinning_NoTest(t) ==
  /\ pc[t] = "Spin"
  /\ spinning' = [spinning EXCEPT ![t] = FALSE]
  /\ Goto(t, "GateWait")
  /\ UNCHANGED <<word, chainVars, signaled, gate, want, holds, old, cur, acquires>>

(* The waiter resets the Spinning flag itself before it waits for its      *)
(* gate; if the flag is gone it has been woken already.                    *)
StopSpinning(t) ==
  /\ pc[t] = "Spin"
  /\ spinning' = [spinning EXCEPT ![t] = FALSE]
  /\ Goto(t, IF spinning[t] THEN "GateWait" ELSE "Acquire")
  /\ UNCHANGED <<word, chainVars, signaled, gate, want, holds, old, cur, acquires>>

GateWait(t) ==
  /\ pc[t] = "GateWait"
  /\ gate[t]
  /\ gate' = [gate EXCEPT ![t] = FALSE]
  /\ Goto(t, "Acquire")
  /\ UNCHANGED <<word, chainVars, spinning, signaled, want, holds, old, cur, acquires>>
-----------------------------------------------------------------------------
(***************************************************************************)
(* ExpOptimizePushLockList and ExfWakePushLock, by the owner of Waking.    *)
(***************************************************************************)

(* A step of a walk towards the end of the chain that leaves a back        *)
(* pointer; the walk is over at the first block that knows the end.        *)
Hop(t) ==
  /\ last[cur[t]] = Null
  /\ previous' = [previous EXCEPT ![next[cur[t]]] = cur[t]]
  /\ cur' = [cur EXCEPT ![t] = next[cur[t]]]
  /\ UNCHANGED <<word, next, last, shareCount, exclusive, wakeVars,
                 pc, want, holds, old, acquires>>

Optimize(t) ==
  /\ pc[t] = "Optimize"
  /\ \/ /\ ~old[t].locked
        /\ Goto(t, "Wake")
        /\ UNCHANGED <<word, chainVars, wakeVars, want, holds, old, cur, acquires>>
     \/ /\ old[t].locked
        /\ Hop(t)
     \/ /\ old[t].locked
        /\ last[cur[t]] # Null
        /\ last' = [last EXCEPT ![old[t].top] = last[cur[t]]]
        /\ Goto(t, "StopOptimizing")
        /\ UNCHANGED <<word, next, previous, shareCount, exclusive, wakeVars,
                       want, holds, old, cur, acquires>>

StopOptimizing(t) ==
  /\ pc[t] = "StopOptimizing"
  /\ IF word = old[t]
     THEN /\ word' = [word EXCEPT !.waking = FALSE]
          /\ Goto(t, "InitGate")
          /\ UNCHANGED <<old, cur>>
     ELSE /\ Walk(t, word)
          /\ Goto(t, "Optimize")
          /\ UNCHANGED word
  /\ UNCHANGED <<chainVars, wakeVars, want, holds, acquires>>

(* The waker was either releasing the lock or waiting for it itself. *)
WakeDone(t) == Goto(t, IF want[t] = "None" THEN "Idle" ELSE "InitGate")

(* The lock is held again: its owner will wake the waiters. *)
WakeGivesUp(t) ==
  /\ pc[t] = "Wake" /\ old[t].locked
  /\ IF word = old[t]
     THEN /\ word' = [word EXCEPT !.waking = FALSE]
          /\ WakeDone(t)
          /\ UNCHANGED <<old, cur>>
     ELSE /\ Walk(t, word)
          /\ UNCHANGED <<word, pc>>
  /\ UNCHANGED <<chainVars, wakeVars, want, holds, acquires>>

WakeHop(t) == pc[t] = "Wake" /\ ~old[t].locked /\ Hop(t)

AtEnd(t) == pc[t] = "Wake" /\ ~old[t].locked /\ last[cur[t]] # Null
End(t) == last[cur[t]]
Splits(t) == exclusive[End(t)] /\ previous[End(t)] # Null

(* An exclusive waiter at the end is woken alone, and the one in front of  *)
(* it becomes the end.                                                     *)
WakeExclusive(t) ==
  /\ AtEnd(t) /\ Splits(t)
  /\ last' = [last EXCEPT ![old[t].top] = previous[End(t)]]
  /\ previous' = [previous EXCEPT ![End(t)] = Null]
  /\ word' = [word EXCEPT !.waking = FALSE]
  /\ cur' = [cur EXCEPT ![t] = End(t)]
  /\ Goto(t, "Signal")
  /\ UNCHANGED <<next, shareCount, exclusive, wakeVars, want, holds, old, acquires>>

(* Otherwise the whole chain is taken off the word, if it has not changed, *)
(* and woken from its end.                                                 *)
WakeAll(t) ==
  /\ AtEnd(t) /\ ~Splits(t)
  /\ IF word = old[t]
     THEN /\ word' = Free
          /\ cur' = [cur EXCEPT ![t] = End(t)]
          /\ Goto(t, "Signal")
          /\ UNCHANGED old
     ELSE /\ Walk(t, word)
          /\ UNCHANGED <<word, pc>>
  /\ UNCHANGED <<chainVars, wakeVars, want, holds, acquires>>

(* One waiter is woken; its wait block may be gone after this, so the      *)
(* pointer to the next one is read first.                                  *)
Signal(t) ==
  LET u == cur[t]
  IN  /\ pc[t] = "Signal"
      /\ signaled' = [signaled EXCEPT ![u] = TRUE]
      /\ spinning' = [spinning EXCEPT ![u] = FALSE]
      /\ gate' = [gate EXCEPT ![u] = @ \/ ~spinning[u]]
      /\ cur' = [cur EXCEPT ![t] = previous[u]]
      /\ IF previous[u] = Null THEN WakeDone(t) ELSE UNCHANGED pc
      /\ UNCHANGED <<word, chainVars, want, holds, old, acquires>>
-----------------------------------------------------------------------------
(***************************************************************************)
(* Releasing and converting.                                               *)
(***************************************************************************)

(* A shared owner without waiters gives up its part of the share count. *)
ReleaseUncontended(t) ==
  /\ pc[t] = "Idle" /\ holds[t] = "Shared"
  /\ ~word.waiting
  /\ word' = IF word.share > 1 THEN [word EXCEPT !.share = @ - 1] ELSE Free
  /\ holds' = [holds EXCEPT ![t] = "None"]
  /\ UNCHANGED <<chainVars, wakeVars, pc, want, old, cur, acquires>>

(* With waiters and several shared owners, the share count is in the wait  *)
(* block at the end of the chain.                                          *)
BeginRelease(t) ==
  /\ pc[t] = "Idle" /\ holds[t] = "Shared"
  /\ word.waiting
  /\ Goto(t, IF word.multiple THEN "FindEnd" ELSE "Unlock")
  /\ Walk(t, word)
  /\ UNCHANGED <<word, chainVars, wakeVars, want, holds, acquires>>

FindEnd(t) ==
  /\ pc[t] = "FindEnd"
  /\ IF last[cur[t]] # Null
     THEN cur' = [cur EXCEPT ![t] = last[cur[t]]] /\ Goto(t, "Decrement")
     ELSE cur' = [cur EXCEPT ![t] = next[cur[t]]] /\ UNCHANGED pc
  /\ UNCHANGED <<word, chainVars, wakeVars, want, holds, old, acquires>>

Decrement_UnlocksEarly(t) ==
  /\ pc[t] = "Decrement"
  /\ shareCount' = [shareCount EXCEPT ![cur[t]] = @ - 1]
  /\ Goto(t, "Unlock") /\ UNCHANGED holds
  /\ UNCHANGED <<word, next, last, previous, exclusive, wakeVars, want, old, cur, acquires>>

(* The last shared owner goes on to unlock. *)
Decrement(t) ==
  /\ pc[t] = "Decrement"
  /\ shareCount' = [shareCount EXCEPT ![cur[t]] = @ - 1]
  /\ IF shareCount[cur[t]] - 1 > 0
     THEN Goto(t, "Idle") /\ holds' = [holds EXCEPT ![t] = "None"]
     ELSE Goto(t, "Unlock") /\ UNCHANGED holds
  /\ UNCHANGED <<word, next, last, previous, exclusive, wakeVars, want, old, cur, acquires>>

Unlock_LeavesWaking(t) ==
  /\ \/ pc[t] = "Unlock"
     \/ pc[t] = "Idle" /\ holds[t] = "Exclusive"
  /\ word' = [word EXCEPT !.locked = FALSE, !.multiple = FALSE]
  /\ holds' = [holds EXCEPT ![t] = "None"]
  /\ Goto(t, "Idle") /\ UNCHANGED <<old, cur>>
  /\ UNCHANGED <<chainVars, wakeVars, want, acquires>>

Unlock_IgnoresWaking(t) ==
  /\ \/ pc[t] = "Unlock"
     \/ pc[t] = "Idle" /\ holds[t] = "Exclusive"
  /\ word' = [word EXCEPT !.locked = FALSE, !.multiple = FALSE,
                          !.waking = word.waiting]
  /\ holds' = [holds EXCEPT ![t] = "None"]
  /\ IF word.waiting
     THEN Goto(t, "Wake") /\ Walk(t, word')
     ELSE Goto(t, "Idle") /\ UNCHANGED <<old, cur>>
  /\ UNCHANGED <<chainVars, wakeVars, want, acquires>>

(* The lock bit is cleared; unless somebody has the Waking bit, the        *)
(* releaser takes it and wakes.                                            *)
Unlock(t) ==
  /\ \/ pc[t] = "Unlock"
     \/ pc[t] = "Idle" /\ holds[t] = "Exclusive"
  /\ word' = [word EXCEPT !.locked = FALSE, !.multiple = FALSE,
                          !.waking = word.waiting]
  /\ holds' = [holds EXCEPT ![t] = "None"]
  /\ IF word.waiting /\ ~word.waking
     THEN Goto(t, "Wake") /\ Walk(t, word')
     ELSE Goto(t, "Idle") /\ UNCHANGED <<old, cur>>
  /\ UNCHANGED <<chainVars, wakeVars, want, acquires>>

(* The inline ExReleasePushLockExclusive clears the lock bit first and     *)
(* only then tries to take the Waking bit, once.                           *)
UnlockInline(t) ==
  /\ pc[t] = "Idle" /\ holds[t] = "Exclusive"
  /\ word' = [word EXCEPT !.locked = FALSE]
  /\ holds' = [holds EXCEPT ![t] = "None"]
  /\ Goto(t, IF word.waiting /\ ~word.waking THEN "TryToWake" ELSE "Idle")
  /\ UNCHANGED <<chainVars, wakeVars, want, old, cur, acquires>>

(* ExfTryToWakePushLock. *)
TryToWake(t) ==
  /\ pc[t] = "TryToWake"
  /\ IF word.waking \/ word.locked \/ ~word.waiting
     THEN Goto(t, "Idle") /\ UNCHANGED <<old, cur>>
     ELSE Goto(t, "SetWaking") /\ Walk(t, [word EXCEPT !.waking = TRUE])
  /\ UNCHANGED <<word, chainVars, wakeVars, want, holds, acquires>>

(* Its one compare-exchange; old is the word it would be.  If it fails     *)
(* the word has changed, and somebody else will wake.                      *)
SetWaking(t) ==
  /\ pc[t] = "SetWaking"
  /\ IF [word EXCEPT !.waking = TRUE] = old[t] /\ ~word.waking
     THEN word' = old[t] /\ Goto(t, "Wake")
     ELSE Goto(t, "Idle") /\ UNCHANGED word
  /\ UNCHANGED <<chainVars, wakeVars, want, holds, old, cur, acquires>>

(* ExConvertPushLockExclusiveToShared: with waiters the word stays as it   *)
(* is, and nobody can share the lock.                                      *)
ConvertToShared(t) ==
  /\ pc[t] = "Idle" /\ holds[t] = "Exclusive"
  /\ holds' = [holds EXCEPT ![t] = "Shared"]
  /\ word' = IF word.waiting THEN word ELSE [word EXCEPT !.share = 1]
  /\ UNCHANGED <<chainVars, wakeVars, pc, want, old, cur, acquires>>

(* ExTryConvertPushLockSharedToExclusive, when it succeeds. *)
ConvertToExclusive(t) ==
  /\ pc[t] = "Idle" /\ holds[t] = "Shared"
  /\ word.share = 1 /\ ~word.waiting
  /\ holds' = [holds EXCEPT ![t] = "Exclusive"]
  /\ word' = [word EXCEPT !.share = 0]
  /\ UNCHANGED <<chainVars, wakeVars, pc, want, old, cur, acquires>>
-----------------------------------------------------------------------------
Init ==
  /\ word = Free
  /\ next = [t \in Thread |-> Null]
  /\ last = [t \in Thread |-> Null]
  /\ previous = [t \in Thread |-> Null]
  /\ shareCount = [t \in Thread |-> 0]
  /\ exclusive = [t \in Thread |-> FALSE]
  /\ spinning = [t \in Thread |-> FALSE]
  /\ signaled = [t \in Thread |-> TRUE]
  /\ gate = [t \in Thread |-> FALSE]
  /\ pc = [t \in Thread |-> "Idle"]
  /\ want = [t \in Thread |-> "None"]
  /\ holds = [t \in Thread |-> "None"]
  /\ old = [t \in Thread |-> Free]
  /\ cur = [t \in Thread |-> Null]
  /\ acquires = [t \in Thread |-> 0]

Acquiring(t) == Take(t) \/ Push(t) \/ InitGate(t) \/ StopSpinning(t) \/ GateWait(t)

Waking(t) ==
  \/ Optimize(t) \/ StopOptimizing(t)
  \/ WakeGivesUp(t) \/ WakeHop(t) \/ WakeExclusive(t) \/ WakeAll(t) \/ Signal(t)

Releasing(t) ==
  \/ ReleaseUncontended(t) \/ BeginRelease(t) \/ FindEnd(t) \/ Decrement(t)
  \/ Unlock(t) \/ UnlockInline(t) \/ TryToWake(t) \/ SetWaking(t)

Converting(t) == ConvertToShared(t) \/ ConvertToExclusive(t)

(* The bound on acquires is used up and the lock is free: the end of the   *)
(* instance, not a deadlock of the code.                                   *)
Finished ==
  /\ \A t \in Thread : pc[t] = "Idle" /\ holds[t] = "None" /\ acquires[t] = MaxAcquires[t]
  /\ UNCHANGED vars

Next ==
  \/ \E t \in Thread :
       \/ \E m \in Modes : Call(t, m)
       \/ Acquiring(t) \/ Waking(t) \/ Releasing(t) \/ Converting(t)
  \/ Finished

Spec == Init /\ [][Next]_vars

(* Threads run, and whoever holds the lock releases it in the end. *)
FairSpec ==
  Spec /\ \A t \in Thread :
    WF_vars(Acquiring(t)) /\ WF_vars(Waking(t)) /\ WF_vars(Releasing(t))
-----------------------------------------------------------------------------
TypeOK ==
  /\ word \in Word
  /\ {next, last, previous} \subseteq [Thread -> Thread \union {Null}]
  /\ shareCount \in [Thread -> Nat]
  /\ {exclusive, spinning, signaled, gate} \subseteq [Thread -> BOOLEAN]
  /\ pc \in [Thread -> {"Idle", "Acquire", "InitGate", "Spin", "GateWait", "Optimize",
                        "StopOptimizing", "Wake", "Signal", "FindEnd", "Decrement",
                        "Unlock", "TryToWake", "SetWaking"}]
  /\ {want, holds} \subseteq [Thread -> Modes \union {"None"}]
  /\ old \in [Thread -> Word]
  /\ cur \in [Thread -> Thread \union {Null}]
  /\ acquires \in [Thread -> Nat]
  /\ \A t \in Thread : acquires[t] <= MaxAcquires[t]

(* An exclusive owner is alone, whatever happens to the chain and to the   *)
(* share count that moves between the word and the last wait block.        *)
MutualExclusion ==
  \A t, u \in Thread : holds[t] = "Exclusive" /\ holds[u] # "None" => t = u

(* Wait blocks are on the stacks of their threads: the word and every      *)
(* thread that walks or wakes the chain point only to blocks whose owner   *)
(* has not been woken, and so cannot have returned.                        *)
NoDanglingBlock ==
  /\ word.waiting => word.top # Null /\ ~signaled[word.top]
  /\ \A t \in Thread :
       pc[t] \in {"Optimize", "StopOptimizing", "Wake", "Signal", "FindEnd", "Decrement"}
         => cur[t] # Null /\ ~signaled[cur[t]]

(* The assertions of the code: one thread at a time has the Waking bit,    *)
(* nobody walks the chain while it is broken, and a shared owner finds its *)
(* count in the wait block of an exclusive waiter.                         *)
ChainDiscipline ==
  /\ \A t, u \in Thread :
       {pc[t], pc[u]} \subseteq {"Optimize", "StopOptimizing", "Wake"} => t = u
  /\ \A t \in Thread :
       /\ pc[t] = "Wake" => ~old[t].multiple /\ word.waking
       /\ pc[t] = "Decrement" => shareCount[cur[t]] > 0 /\ exclusive[cur[t]]

(* The chain of wait blocks can be walked, split and woken by whoever has  *)
(* the bit for it.                                                         *)
ChainIsSafe == TypeOK /\ NoDanglingBlock /\ ChainDiscipline

(* A thread that has been woken, or is waking others, and has not yet      *)
(* tried to take the lock or given it back.                                *)
OnItsWay(t) ==
  \/ pc[t] \in {"Acquire", "Optimize", "StopOptimizing", "Wake", "Signal",
              "TryToWake", "SetWaking"}
  \/ pc[t] \in {"InitGate", "Spin"} /\ ~spinning[t]
  \/ pc[t] = "GateWait" /\ gate[t]

(* Waiters are not forgotten: when the lock is free and there are waiters, *)
(* somebody is on the way to take the lock or to wake them.                *)
NoForgottenWaiters ==
  word.waiting /\ ~word.locked => \E t \in Thread : OnItsWay(t)

(* Every acquire succeeds once the other threads stop acquiring: a waiter  *)
(* that dropped out of the chain would wait for ever.                      *)
AcquireSucceeds == \A t \in Thread : want[t] # "None" ~> want[t] = "None"
=============================================================================
