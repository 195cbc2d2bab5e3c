---------------------------- MODULE KernelQueue ----------------------------
(***************************************************************************)
(* Kernel queues (base/ntos/ke/queueobj.c): threads take entries from a    *)
(* queue, and no more than MaximumCount of the threads that belong to it   *)
(* should run at a time.  A thread belongs to the queue it last asked for  *)
(* an entry.  While it waits for anything else it does not count, and its  *)
(* place may go to another thread (KiActivateWaiterQueue, which all waits, *)
(* gate waits and the end of the thread call); when it wakes it counts     *)
(* again, whatever the limit.                                              *)
(*                                                                         *)
(* One action is one critical section of the dispatcher lock.  The other   *)
(* waits of the threads are modelled by what they do to the queue.         *)
(*                                                                         *)
(* Operators whose name ends in _<Fault> are faulty variants of the one    *)
(* that follows them; no specification uses them.                          *)
(***************************************************************************)
EXTENDS Integers, FiniteSets, Sequences, SequencesExt

CONSTANTS
  Thread, Queue, Item,
  None,          (* no queue, and the thread at work when a DPC runs       *)
  MaximumCount   (* of each queue                                          *)

ASSUME KernelQueueAssumption ==
  /\ IsFiniteSet(Thread)
  /\ None \notin Thread \union Queue
  /\ MaximumCount \in [Queue -> Nat \ {0}]

VARIABLES
  kqueue,        (* each queue: entries (EntryListHead, of the length that *)
                 (* SignalState counts), waiters (WaitListHead, in order   *)
                 (* of arrival) and current (CurrentCount)                 *)
  queue,         (* Queue of each thread                                   *)
  reasonQueue,   (* WaitReason of each thread is WrQueue                   *)
  item,          (* the entries each thread was given and works on         *)
  pc             (* where each thread is                                   *)

vars == <<kqueue, queue, reasonQueue, item, pc>>

EmptyQueue == [entries |-> <<>>, waiters |-> <<>>, current |-> 0]

Goto(t, where) == pc' = [pc EXCEPT ![t] = where]
Belongs(t) == queue[t] # None
Listed(i) == \E q \in Queue : i \in ToSet(kqueue[q].entries)
Idle(i) == ~Listed(i) /\ \A t \in Thread : i \notin item[t]

Init ==
  /\ kqueue = [q \in Queue |-> EmptyQueue]
  /\ queue = [t \in Thread |-> None]
  /\ reasonQueue = [t \in Thread |-> FALSE]
  /\ item = [t \in Thread |-> {}]
  /\ pc = [t \in Thread |-> "Running"]
-----------------------------------------------------------------------------
(***************************************************************************)
(* The last waiter is taken off its list and given an entry: each step     *)
(* that does so has a set handed of at most one pair of thread and entry.  *)
(***************************************************************************)
ItemsWith(handed) ==
  [t \in Thread |-> IF \E h \in handed : h[1] = t
                    THEN {h[2] : h \in handed} ELSE item[t]]
PcWith(handed) ==
  [t \in Thread |-> IF \E h \in handed : h[1] = t THEN "Running" ELSE pc[t]]
ReasonWith(handed) ==
  [t \in Thread |-> reasonQueue[t] /\ ~\E h \in handed : h[1] = t]

(* KiActivateWaiterQueue: one thread fewer runs; q is the queue before.    *)
GivesPlace_BeforeCounting(q, limit) ==
  q.current < limit /\ q.entries # <<>> /\ q.waiters # <<>>
GivesPlace(q, limit) ==
  q.current - 1 < limit /\ q.entries # <<>> /\ q.waiters # <<>>

Activated(q, limit) ==
  IF GivesPlace(q, limit)
  THEN [q EXCEPT !.entries = Tail(@), !.waiters = Front(@)]
  ELSE [q EXCEPT !.current = @ - 1]

Handed(q, limit) ==
  IF GivesPlace(q, limit) THEN {<<Last(q.waiters), Head(q.entries)>>} ELSE {}

(* All queues after t stopped running for its own, and who got its place.  *)
QueuesWithout(t) ==
  IF Belongs(t)
  THEN [kqueue EXCEPT ![queue[t]] = Activated(@, MaximumCount[queue[t]])]
  ELSE kqueue
HandedBy(t) ==
  IF Belongs(t) THEN Handed(kqueue[queue[t]], MaximumCount[queue[t]]) ELSE {}

(* All queues after t has become active again. *)
QueuesWith(t) ==
  IF Belongs(t) THEN [kqueue EXCEPT ![queue[t]].current = @ + 1] ELSE kqueue
-----------------------------------------------------------------------------
(***************************************************************************)
(* KiInsertQueue for KeInsertQueue and KeInsertHeadQueue.  current is the  *)
(* thread at work on the processor, None if it has no part in any queue.   *)
(* It keeps the entry for itself if it is on its way to ask the same queue *)
(* for one, or seems to be: the reason of its last wait is the queue.      *)
(***************************************************************************)
MayDispatch(q, current) ==
  /\ kqueue[q].waiters # <<>>
  /\ kqueue[q].current < MaximumCount[q]
  /\ ~(current # None /\ queue[current] = q /\ reasonQueue[current])

Dispatch(q, i, current) ==
  /\ MayDispatch(q, current)
  /\ LET handed == {<<Last(kqueue[q].waiters), i>>}
     IN  /\ item' = ItemsWith(handed)
         /\ pc' = PcWith(handed)
         /\ reasonQueue' = ReasonWith(handed)
  /\ kqueue' = [kqueue EXCEPT ![q].waiters = Front(@), ![q].current = @ + 1]
  /\ UNCHANGED queue

Enlist(q, i, current, head) ==
  /\ ~MayDispatch(q, current)
  /\ kqueue' = [kqueue EXCEPT ![q].entries =
                  IF head THEN <<i>> \o @ ELSE Append(@, i)]
  /\ UNCHANGED <<queue, reasonQueue, item, pc>>

AtWork == {t \in Thread : pc[t] \in {"Running", "Restart"}} \union {None}

Insert(q, i, current) ==
  /\ Idle(i) /\ current \in AtWork
  /\ Dispatch(q, i, current) \/ \E head \in BOOLEAN : Enlist(q, i, current, head)
-----------------------------------------------------------------------------
(***************************************************************************)
(* KeRemoveQueue.  ks are the queues after the beginning of the call, and  *)
(* handed what the thread left to another one when it changed queues.      *)
(***************************************************************************)
Counted(ks, q) == [ks EXCEPT ![q].current = @ + 1]

TakeEntry(t, q, ks, handed) ==
  /\ ks[q].entries # <<>> /\ ks[q].current < MaximumCount[q]
  /\ kqueue' = Counted([ks EXCEPT ![q].entries = Tail(@)], q)
  /\ item' = [ItemsWith(handed) EXCEPT ![t] = {Head(ks[q].entries)}]
  /\ pc' = [PcWith(handed) EXCEPT ![t] = "Running"]

(* A kernel APC is pending and drops the lock ("Restart"), or a user APC   *)
(* is or the due time has passed: the thread counts as active again.       *)
GiveUp_NotCounted(t, q, ks, handed) ==
  /\ ~(ks[q].entries # <<>> /\ ks[q].current < MaximumCount[q])
  /\ kqueue' = ks
  /\ item' = [ItemsWith(handed) EXCEPT ![t] = {}]
  /\ \E next \in {"Restart", "Running"} : pc' = [PcWith(handed) EXCEPT ![t] = next]
GiveUp(t, q, ks, handed) ==
  /\ ~(ks[q].entries # <<>> /\ ks[q].current < MaximumCount[q])
  /\ kqueue' = Counted(ks, q)
  /\ item' = [ItemsWith(handed) EXCEPT ![t] = {}]
  /\ \E next \in {"Restart", "Running"} : pc' = [PcWith(handed) EXCEPT ![t] = next]

BlockOnQueue(t, q, ks, handed) ==
  /\ ~(ks[q].entries # <<>> /\ ks[q].current < MaximumCount[q])
  /\ kqueue' = [ks EXCEPT ![q].waiters = Append(@, t)]
  /\ item' = [ItemsWith(handed) EXCEPT ![t] = {}]
  /\ pc' = [PcWith(handed) EXCEPT ![t] = "QueueWait"]

Look(t, q, ks, handed) ==
  /\ TakeEntry(t, q, ks, handed) \/ GiveUp(t, q, ks, handed) \/ BlockOnQueue(t, q, ks, handed)
  /\ reasonQueue' = [ReasonWith(handed) EXCEPT ![t] = TRUE]
  /\ queue' = [queue EXCEPT ![t] = q]

Uncounted(q) == [kqueue EXCEPT ![q].current = @ - 1]

RemoveQueue(t, q) ==
  /\ pc[t] = "Running"
  /\ IF queue[t] = q
     THEN Look(t, q, Uncounted(q), {})
     ELSE Look(t, q, QueuesWithout(t), HandedBy(t))

Restart(t) ==
  /\ pc[t] = "Restart"
  /\ Look(t, queue[t], Uncounted(queue[t]), {})

(* KiUnwaitThread for a kernel APC, a user APC or the timeout.             *)
EndQueueWait(t) ==
  /\ pc[t] = "QueueWait"
  /\ kqueue' = [QueuesWith(t) EXCEPT ![queue[t]].waiters = RemoveFirst(@, t)]
  /\ reasonQueue' = [reasonQueue EXCEPT ![t] = FALSE]
  /\ \E next \in {"Restart", "Running"} : Goto(t, next)
  /\ UNCHANGED <<queue, item>>
-----------------------------------------------------------------------------
(***************************************************************************)
(* Other waits of the thread, and its end.                                 *)
(***************************************************************************)
StopRunning(t, next) ==
  /\ pc[t] = "Running"
  /\ kqueue' = QueuesWithout(t)
  /\ pc' = [PcWith(HandedBy(t)) EXCEPT ![t] = next]
  /\ reasonQueue' = [ReasonWith(HandedBy(t)) EXCEPT ![t] = FALSE]

Wait(t) ==
  /\ \E next \in {"Waiting", "GateWait"} : StopRunning(t, next)
  /\ item' = ItemsWith(HandedBy(t))
  /\ UNCHANGED queue

(* A wait that is satisfied at once leaves its own reason in the thread.   *)
WaitSatisfied(t) ==
  /\ pc[t] = "Running" /\ reasonQueue[t]
  /\ reasonQueue' = [reasonQueue EXCEPT ![t] = FALSE]
  /\ UNCHANGED <<kqueue, queue, item, pc>>

EndWait(t) ==
  /\ pc[t] = "Waiting"
  /\ kqueue' = QueuesWith(t)
  /\ Goto(t, "Running")
  /\ UNCHANGED <<queue, reasonQueue, item>>

(* KeSignalGateBoostPriority takes the thread out of its wait with other   *)
(* locks, and then the dispatcher lock for the count.                      *)
SignalGate(t) ==
  /\ pc[t] = "GateWait"
  /\ Goto(t, "Signaled")
  /\ UNCHANGED <<kqueue, queue, reasonQueue, item>>

CountAfterGate(t) ==
  /\ pc[t] = "Signaled"
  /\ kqueue' = QueuesWith(t)
  /\ Goto(t, "Running")
  /\ UNCHANGED <<queue, reasonQueue, item>>

(* KeTerminateThread. *)
Exit(t) ==
  /\ StopRunning(t, "Exited")
  /\ item' = [ItemsWith(HandedBy(t)) EXCEPT ![t] = {}]
  /\ queue' = [queue EXCEPT ![t] = None]

(* KeRundownQueue, for a queue that nobody asks for entries any more.  The *)
(* queue is gone then; here it stands for the next one at its address,     *)
(* after KeInitializeQueue.                                                *)
Rundown(q) ==
  /\ kqueue[q] # EmptyQueue
  /\ \A t \in Thread : queue[t] = q => pc[t] \notin {"QueueWait", "Restart"}
  /\ kqueue' = [kqueue EXCEPT ![q] = EmptyQueue]
  /\ queue' = [t \in Thread |-> IF queue[t] = q THEN None ELSE queue[t]]
  /\ UNCHANGED <<reasonQueue, item, pc>>
-----------------------------------------------------------------------------
Next ==
  \/ \E q \in Queue :
       \/ \E i \in Item, current \in Thread \union {None} : Insert(q, i, current)
       \/ \E t \in Thread : RemoveQueue(t, q)
       \/ Rundown(q)
  \/ \E t \in Thread :
       \/ Restart(t) \/ EndQueueWait(t)
       \/ Wait(t) \/ WaitSatisfied(t) \/ EndWait(t)
       \/ SignalGate(t) \/ CountAfterGate(t) \/ Exit(t)

Spec == Init /\ [][Next]_vars
-----------------------------------------------------------------------------
TypeOK ==
  /\ kqueue \in [Queue -> [entries : Seq(Item), waiters : Seq(Thread), current : Int]]
  /\ queue \in [Thread -> Queue \union {None}]
  /\ reasonQueue \in [Thread -> BOOLEAN]
  /\ item \in [Thread -> SUBSET Item]
  /\ pc \in [Thread -> {"Running", "Restart", "QueueWait", "Waiting", "GateWait",
                        "Signaled", "Exited"}]

Active(q) == {t \in Thread : queue[t] = q /\ pc[t] \in {"Running", "Restart"}}

(* CurrentCount is the number of threads that run for the queue, whatever  *)
(* waits, timeouts, APCs, moves to other queues and exits came between.    *)
CountsActiveThreads == \A q \in Queue : kqueue[q].current = Cardinality(Active(q))

(* An entry and a thread that waits for one are never left side by side    *)
(* with nobody running who would bring them together.                      *)
NoIdleEntry ==
  \A q \in Queue :
    kqueue[q].entries # <<>> /\ kqueue[q].waiters # <<>> => Active(q) # {}

(* An entry is on one list, once, or with one thread. *)
EntryInOnePlace ==
  /\ \A q \in Queue : IsInjective(kqueue[q].entries)
  /\ \A i \in Item :
       /\ \A p, q \in Queue :
            i \in ToSet(kqueue[p].entries) /\ i \in ToSet(kqueue[q].entries) => p = q
       /\ \A t \in Thread : i \in item[t] =>
            ~Listed(i) /\ \A u \in Thread : i \in item[u] => t = u

(* Counts and lists agree with what the threads do.                        *)
QueuesConsistent == TypeOK /\ CountsActiveThreads /\ EntryInOnePlace
=============================================================================
