----------------------------- MODULE Dispatcher -----------------------------
(***************************************************************************)
(* The wait core of the kernel (base/ntos/ke): dispatcher objects (events, *)
(* semaphores, mutants), the wait lists in their headers, threads that     *)
(* wait for one or for several objects, alerts, user and kernel APCs that  *)
(* interrupt waits, wait timeouts, and the dispatcher database lock that   *)
(* KeSetEvent(..., Wait = TRUE) and its relatives leave held for the wait  *)
(* that follows.                                                           *)
(*                                                                         *)
(* One action is one section of code under the dispatcher database lock:   *)
(* the lock is modelled explicitly only where the code keeps it across     *)
(* calls (lock, below).  KeClearEvent, KeTestAlertThread and the queueing  *)
(* half of KiInsertQueueApc run without that lock and are actions of their *)
(* own.                                                                    *)
(*                                                                         *)
(* Operators named <operator>_<Fault> are faulty variants of the operator  *)
(* that follows them; no specification uses them.                          *)
(***************************************************************************)
EXTENDS Integers, FiniteSets, Sequences

CONSTANTS
  Thread,      (* kernel threads                                           *)
  NoThread,    (* the NULL thread pointer                                  *)
  Object,      (* dispatcher objects                                       *)
  Kind,        (* Kind[o]: the dispatcher object type of o                 *)
  Limit,       (* Limit[o]: the maximum count of semaphore o               *)
  LongMax,     (* MAXLONG: the signal state is a LONG                      *)
  Request,     (* the wait calls threads may make                          *)
  BoostEvent,  (* the events KeSetEventBoostPriority is called for         *)
  Interrupted, (* the threads that are sent alerts and user APCs           *)
  MaxApcs      (* bound: number of kernel APCs queued in a behaviour       *)

Kinds == {"NotificationEvent", "SynchronizationEvent", "Semaphore", "Mutant"}

(* KPROCESSOR_MODE: KernelMode is 0 and UserMode is 1. *)
KernelMode == 0
UserMode == 1
Mode == {KernelMode, UserMode}

MINLONG == -LongMax - 1

(* The result of storing n in a LONG. *)
ToLong(n) == ((n - MINLONG) % (2 * (LongMax + 1))) + MINLONG

(***************************************************************************)
(* The arguments of KeWaitForSingleObject, KeWaitForMultipleObjects and    *)
(* KeDelayExecutionThread (whose object array is empty).  The objects of   *)
(* an array are distinct.  timeout: no timeout, a zero interval or a due   *)
(* time that the clock may reach.                                          *)
(***************************************************************************)
WaitRequest ==
  [objs : Seq(Object), type : {"Any", "All"}, mode : Mode,
   alertable : BOOLEAN, timeout : {"None", "Zero", "Finite"}]

NoWait == [objs |-> <<>>, type |-> "Any", mode |-> KernelMode,
           alertable |-> FALSE, timeout |-> "None"]

ASSUME DispatcherAssumption ==
  /\ IsFiniteSet(Thread)
  /\ NoThread \notin Thread
  /\ Kind \in [Object -> Kinds]
  /\ LongMax \in Nat \ {0}
  /\ Limit \in [Object -> 1..LongMax]
  /\ Interrupted \subseteq Thread
  /\ MaxApcs \in Nat
  /\ BoostEvent \subseteq {o \in Object : Kind[o] = "SynchronizationEvent"}
  /\ Request \subseteq WaitRequest
  /\ \A r \in Request :
        /\ r.type = "All" => r.objs # <<>>
        /\ \A i, j \in DOMAIN r.objs : r.objs[i] = r.objs[j] => i = j

(* Wait completion statuses; index is zero based. *)
Satisfied(index, isAbandoned) ==
  [code |-> "Object", index |-> index, abandoned |-> isAbandoned]
Status(c) == [code |-> c, index |-> 0, abandoned |-> FALSE]
Codes == {"Object", "Pending", "Timeout", "Alerted", "UserApc", "KernelApc",
          "MutantLimit"}

VARIABLES
  signal,         (* Header.SignalState of each object                     *)
  owner,          (* OwnerThread of a mutant                               *)
  abandoned,      (* Abandoned flag of a mutant                            *)
  waitList,       (* Header.WaitListHead of each object, see below         *)
  thread,         (* where each thread is, see ThreadState                 *)
  wait,           (* the wait call a thread is in, NoWait outside one      *)
  status,         (* status of a thread's last wait, or of the one it is in *)
  reached,        (* the due time of a thread's wait has passed            *)
  alerted,        (* Alerted[mode] of each thread, as the set of its modes *)
  userApc,        (* the user APC queue of the thread is not empty         *)
  userApcPending, (* ApcState.UserApcPending                               *)
  kernelApc,      (* ApcState.KernelApcPending                             *)
  apcInsert,      (* a user APC is queued, the dispatcher lock not yet taken *)
  apcs,           (* number of kernel APCs queued so far                   *)
  lock            (* thread that left the dispatcher lock held, or NoThread *)

objectVars == <<signal, owner, abandoned, waitList>>
waitVars   == <<thread, wait, status, reached>>
apcVars    == <<userApc, userApcPending, kernelApc, apcInsert, apcs>>
vars       == <<objectVars, waitVars, apcVars, alerted, lock>>

(***************************************************************************)
(* Running: executing outside any wait function.  WaitLoop: at the top of  *)
(* the do loop of a wait function, about to evaluate its objects.          *)
(* Waiting: State = Waiting, its wait blocks are in the wait lists.        *)
(* Rundown: in the loop of KeRundownThread, the dispatcher lock held.      *)
(***************************************************************************)
ThreadState == {"Running", "WaitLoop", "Waiting", "Rundown", "Terminated"}

(***************************************************************************)
(* A wait list is the total order of its wait blocks.  A thread has at     *)
(* most one wait block per object, so the list of o is a reflexive order   *)
(* on threads: <<t, u>> \in waitList[o] says that both wait on o and that  *)
(* t's block is u's or ahead of it.                                        *)
(***************************************************************************)
Waiters(o) == {t \in Thread : <<t, t>> \in waitList[o]}
Ahead(o, t) == {u \in Thread \ {t} : <<u, t>> \in waitList[o]}

Objects(t) == {wait[t].objs[i] : i \in DOMAIN wait[t].objs}
IndexOf(t, o) == CHOOSE i \in DOMAIN wait[t].objs : wait[t].objs[i] = o

(* Insertion of the wait blocks of t at the tail of the list of each object. *)
InsertWaitBlocks(t) ==
  [o \in Object |->
    IF o \in Objects(t) THEN waitList[o] \union ((Waiters(o) \union {t}) \X {t})
                        ELSE waitList[o]]

KiUnlinkThread_FirstBlockOnly(S) ==
  [o \in Object |->
    LET U == {t \in S : Objects(t) # {} /\ o = wait[t].objs[1]}
    IN  waitList[o] \ ((U \X Thread) \union (Thread \X U))]

(* KiUnlinkThread: every wait block of each thread of S leaves its list. *)
KiUnlinkThread(S) ==
  [o \in Object |-> waitList[o] \ ((S \X Thread) \union (Thread \X S))]

IsMutant(o) == Kind[o] = "Mutant"
IsEvent(o) == Kind[o] \in {"NotificationEvent", "SynchronizationEvent"}

(***************************************************************************)
(* The threads that a wait test of o serves when its signal state is n:    *)
(* the code walks the list from the head while the state stays signaled.   *)
(* A thread that waits for any object takes a unit of the state, except of *)
(* a notification event; one that waits for all is sent back to its wait   *)
(* loop and takes nothing.                                                 *)
(***************************************************************************)
WaitsForAny(t) == wait[t].type = "Any"

AnyAhead(o, t) == {u \in Ahead(o, t) : WaitsForAny(u)}

Served_FromTail(o, n) ==
  {t \in Waiters(o) : \/ Kind[o] = "NotificationEvent"
                      \/ \A u \in Waiters(o) : t \notin Ahead(o, u)}

Served(o, n) ==
  {t \in Waiters(o) : \/ Kind[o] = "NotificationEvent"
                      \/ Cardinality(AnyAhead(o, t)) < n}

Takers(S) == {t \in S : WaitsForAny(t)}

(* KiWaitSatisfyAny, once for each of k threads: the state n of o becomes *)
KiWaitSatisfyAny(o, n, k) ==
  IF k = 0 THEN n
  ELSE CASE Kind[o] = "NotificationEvent"       -> n
         [] Kind[o] = "SynchronizationEvent"    -> 0
         [] Kind[o] \in {"Semaphore", "Mutant"} -> n - k

(***************************************************************************)
(* KiUnwaitThread for every thread of S: unlinked, and back in its wait    *)
(* function, which returns the status st[t] or, when that is KERNEL_APC,   *)
(* runs its loop again.                                                    *)
(***************************************************************************)
KiUnwaitThread(S, st) ==
  LET retries == {t \in S : st[t] = Status("KernelApc")}
      returns == S \ retries
  IN  /\ waitList' = KiUnlinkThread(S)
      /\ thread' = [t \in Thread |-> IF t \in retries THEN "WaitLoop"
                                     ELSE IF t \in returns THEN "Running"
                                     ELSE thread[t]]
      /\ wait' = [t \in Thread |-> IF t \in returns THEN NoWait ELSE wait[t]]
      /\ status' = [t \in Thread |-> IF t \in returns THEN st[t] ELSE status[t]]
      /\ reached' = [t \in Thread |-> reached[t] /\ t \notin returns]

UnwaitOne(t, c) == KiUnwaitThread({t}, [u \in {t} |-> Status(c)])

(***************************************************************************)
(* KiWaitTest, and the two variants of it that KeSetEvent uses, on an      *)
(* object whose signal state has just become n.  isAbandoned is the        *)
(* Abandoned flag of a mutant at that moment, which the thread that takes  *)
(* the mutant clears.  S is Served(o, n), or {} when the caller does not   *)
(* test; StateAfter is the signal state that the test leaves.              *)
(***************************************************************************)
KiWaitTest_LosesAbandoned(o, isAbandoned, S) ==
  LET taken == Takers(S)
  IN  /\ owner' = [owner EXCEPT ![o] = IF IsMutant(o) /\ taken # {}
                                       THEN CHOOSE t \in taken : TRUE
                                       ELSE NoThread]
      /\ abandoned' = [abandoned EXCEPT ![o] = isAbandoned /\ taken = {}]
      /\ KiUnwaitThread(S, [t \in S |->
            IF t \in taken THEN Satisfied(IndexOf(t, o) - 1, FALSE)
                           ELSE Status("KernelApc")])

KiWaitTest(o, isAbandoned, S) ==
  LET taken == Takers(S)
  IN  /\ owner' = [owner EXCEPT ![o] = IF IsMutant(o) /\ taken # {}
                                       THEN CHOOSE t \in taken : TRUE
                                       ELSE NoThread]
      /\ abandoned' = [abandoned EXCEPT ![o] = isAbandoned /\ taken = {}]
      /\ KiUnwaitThread(S, [t \in S |->
            IF t \in taken THEN Satisfied(IndexOf(t, o) - 1, isAbandoned)
                           ELSE Status("KernelApc")])

StateAfter_NotTaken(o, n, S) == n
StateAfter(o, n, S) == KiWaitSatisfyAny(o, n, Cardinality(Takers(S)))

(* Between calls; a thread that was left holding the dispatcher lock may   *)
(* only call a wait function.                                              *)
CanLock(t) == thread[t] = "Running" /\ lock = NoThread

(* The end of the signalling functions: with Wait = TRUE they set WaitNext *)
(* and return with the dispatcher lock held.                               *)
UnlockUnlessWait(t, isWait) == lock' = IF isWait THEN t ELSE NoThread

-----------------------------------------------------------------------------
(***************************************************************************)
(* Signalling.                                                             *)
(***************************************************************************)

(* KeSetEvent.  Its unlocked shortcut for a signaled notification event    *)
(* changes nothing, so it is a stuttering step.                            *)
KeSetEvent(t, o, isWait) ==
  LET S == IF signal[o] = 0 THEN Served(o, 1) ELSE {}
  IN  /\ CanLock(t)
      /\ IsEvent(o)
      /\ signal' = [signal EXCEPT ![o] = StateAfter(o, 1, S)]
      /\ KiWaitTest(o, FALSE, S)
      /\ UnlockUnlessWait(t, isWait)
      /\ UNCHANGED <<apcVars, alerted>>

(* KePulseEvent: the waiters of the moment are served and the state is 0.  *)
KePulseEvent(t, o, isWait) ==
  LET S == IF signal[o] = 0 THEN Served(o, 1) ELSE {}
  IN  /\ CanLock(t)
      /\ IsEvent(o)
      /\ signal' = [signal EXCEPT ![o] = 0]
      /\ KiWaitTest(o, FALSE, S)
      /\ UnlockUnlessWait(t, isWait)
      /\ UNCHANGED <<apcVars, alerted>>

(***************************************************************************)
(* KiWaitTest reads the state before it serves each waiter, and            *)
(* KeClearEvent needs no lock: when thread c clears the event in the       *)
(* middle of a pulse, only the first waiters are served.                   *)
(***************************************************************************)
KePulseEventRacingClear(t, c, o, isWait) ==
  LET S == Served(o, 1)
      First(k) == {u \in S : Cardinality(Ahead(o, u)) < k}
  IN  /\ CanLock(t)
      /\ thread[c] = "Running" /\ c # t
      /\ IsEvent(o)
      /\ signal[o] = 0
      /\ signal' = [signal EXCEPT ![o] = 0]
      /\ \E k \in 0..(Cardinality(S) - 1) : KiWaitTest(o, FALSE, First(k))
      /\ UnlockUnlessWait(t, isWait)
      /\ UNCHANGED <<apcVars, alerted>>

KeResetEvent(t, o) ==
  /\ CanLock(t)
  /\ IsEvent(o)
  /\ signal' = [signal EXCEPT ![o] = 0]
  /\ UNCHANGED <<owner, abandoned, waitList, waitVars, apcVars, alerted, lock>>

(* KeClearEvent writes the state without the dispatcher lock. *)
KeClearEvent(t, o) ==
  /\ thread[t] = "Running"
  /\ lock # t
  /\ IsEvent(o)
  /\ signal' = [signal EXCEPT ![o] = 0]
  /\ UNCHANGED <<owner, abandoned, waitList, waitVars, apcVars, alerted, lock>>

(***************************************************************************)
(* KeSetEventBoostPriority sets the event only when nobody waits or when   *)
(* the first waiter waits for all its objects; otherwise it hands the      *)
(* event to the first waiter, with STATUS_SUCCESS whatever its wait key.   *)
(***************************************************************************)
IsFirst(o, u) == u \in Waiters(o) /\ Ahead(o, u) = {}

KeSetEventBoostPriority_NoTest(t, o) ==
  /\ CanLock(t)
  /\ o \in BoostEvent
  /\ \/ /\ \A u \in Thread : IsFirst(o, u) => ~WaitsForAny(u)
        /\ signal' = [signal EXCEPT ![o] = 1]
        /\ KiWaitTest(o, FALSE, {})
     \/ \E u \in Thread :
          /\ IsFirst(o, u) /\ WaitsForAny(u)
          /\ KiUnwaitThread({u}, [x \in {u} |-> Satisfied(0, FALSE)])
          /\ UNCHANGED <<signal, owner, abandoned>>
  /\ UNCHANGED <<apcVars, alerted, lock>>

KeSetEventBoostPriority(t, o) ==
  /\ CanLock(t)
  /\ o \in BoostEvent
  /\ \/ /\ \A u \in Thread : IsFirst(o, u) => ~WaitsForAny(u)
        /\ signal' = [signal EXCEPT ![o] = StateAfter(o, 1, Served(o, 1))]
        /\ KiWaitTest(o, FALSE, Served(o, 1))
     \/ \E u \in Thread :
          /\ IsFirst(o, u) /\ WaitsForAny(u)
          /\ KiUnwaitThread({u}, [x \in {u} |-> Satisfied(0, FALSE)])
          /\ UNCHANGED <<signal, owner, abandoned>>
  /\ UNCHANGED <<apcVars, alerted, lock>>

KeReleaseSemaphore_NoOverflowTest(t, o, adjustment, isWait) ==
  LET newState == ToLong(signal[o] + adjustment)
      S == IF signal[o] = 0 THEN Served(o, newState) ELSE {}
  IN  /\ CanLock(t)
      /\ Kind[o] = "Semaphore"
      /\ ~(newState > Limit[o])
      /\ signal' = [signal EXCEPT ![o] = StateAfter(o, newState, S)]
      /\ KiWaitTest(o, FALSE, S)
      /\ UnlockUnlessWait(t, isWait)
      /\ UNCHANGED <<apcVars, alerted>>

(* KeReleaseSemaphore; the calls that raise SEMAPHORE_LIMIT_EXCEEDED       *)
(* change nothing.                                                         *)
KeReleaseSemaphore(t, o, adjustment, isWait) ==
  LET oldState == signal[o]
      newState == ToLong(oldState + adjustment)
      S == IF oldState = 0 THEN Served(o, newState) ELSE {}
  IN  /\ CanLock(t)
      /\ Kind[o] = "Semaphore"
      /\ ~(newState > Limit[o] \/ newState < oldState)
      /\ signal' = [signal EXCEPT ![o] = StateAfter(o, newState, S)]
      /\ KiWaitTest(o, FALSE, S)
      /\ UnlockUnlessWait(t, isWait)
      /\ UNCHANGED <<apcVars, alerted>>

(* KeReleaseMutant by its owner; any other thread gets an exception.  The  *)
(* last release gives the mutant away or leaves it free.                   *)
KeReleaseMutant(t, o, isWait) ==
  LET S == Served(o, 1)
  IN  /\ CanLock(t)
      /\ IsMutant(o)
      /\ owner[o] = t
      /\ IF signal[o] + 1 = 1
         THEN /\ signal' = [signal EXCEPT ![o] = StateAfter(o, 1, S)]
              /\ KiWaitTest(o, abandoned[o], S)
         ELSE /\ signal' = [signal EXCEPT ![o] = signal[o] + 1]
              /\ UNCHANGED <<owner, abandoned, waitList, waitVars>>
      /\ UnlockUnlessWait(t, isWait)
      /\ UNCHANGED <<apcVars, alerted>>

(***************************************************************************)
(* KeRundownThread, called by a thread that exits: under one acquisition   *)
(* of the dispatcher lock, every mutant it owns is released as abandoned.  *)
(***************************************************************************)
KeRundownThread(t) ==
  /\ CanLock(t)
  /\ thread' = [thread EXCEPT ![t] = "Rundown"]
  /\ lock' = t
  /\ UNCHANGED <<objectVars, wait, status, reached, apcVars, alerted>>

AbandonMutant(t, o) ==
  LET S == Served(o, 1)
  IN  /\ thread[t] = "Rundown"
      /\ IsMutant(o) /\ owner[o] = t
      /\ signal' = [signal EXCEPT ![o] = StateAfter(o, 1, S)]
      /\ KiWaitTest(o, TRUE, S)
      /\ UNCHANGED <<apcVars, alerted, lock>>

RundownDone_FirstMutantOnly(t) ==
  /\ thread[t] = "Rundown"
  /\ thread' = [thread EXCEPT ![t] = "Terminated"]
  /\ lock' = NoThread
  /\ UNCHANGED <<objectVars, wait, status, reached, apcVars, alerted>>

RundownDone(t) ==
  /\ thread[t] = "Rundown"
  /\ \A o \in Object : owner[o] # t
  /\ thread' = [thread EXCEPT ![t] = "Terminated"]
  /\ lock' = NoThread
  /\ UNCHANGED <<objectVars, wait, status, reached, apcVars, alerted>>
-----------------------------------------------------------------------------
(***************************************************************************)
(* Waiting.                                                                *)
(***************************************************************************)

(* A thread calls a wait function; with WaitNext set it still holds the    *)
(* dispatcher lock.                                                        *)
KeWaitForObjects(t, r) ==
  /\ thread[t] = "Running"
  /\ thread' = [thread EXCEPT ![t] = "WaitLoop"]
  /\ wait' = [wait EXCEPT ![t] = r]
  /\ status' = [status EXCEPT ![t] = Status("Pending")]
  /\ UNCHANGED <<objectVars, reached, apcVars, alerted, lock>>

(* One pass through the loop of a wait function, under the lock. *)
InLoop(t) == thread[t] = "WaitLoop" /\ lock \in {NoThread, t}

(* A pending kernel APC must be delivered first: the lock is dropped, even *)
(* when it was held since the preceding signal.                            *)
DropLockForApc(t) ==
  /\ InLoop(t) /\ kernelApc[t]
  /\ lock = t
  /\ lock' = NoThread
  /\ UNCHANGED <<objectVars, waitVars, apcVars, alerted>>

Evaluates(t) == InLoop(t) /\ ~kernelApc[t]

CanTake(t, o) == signal[o] > 0 \/ (IsMutant(o) /\ owner[o] = t)
AtMutantLimit(t, o) == IsMutant(o) /\ owner[o] = t /\ signal[o] = MINLONG

(***************************************************************************)
(* The scan of the object array from its first element.  A wait for any    *)
(* stops at the first object that can be taken, a wait for all at the      *)
(* first that cannot; a mutant at its recursion limit raises an exception. *)
(***************************************************************************)
Objectx(t, i) == wait[t].objs[i]
Before(t, i) == {j \in DOMAIN wait[t].objs : j < i}
StopsAt(t, i) ==
  /\ i \in DOMAIN wait[t].objs
  /\ IF WaitsForAny(t)
     THEN /\ CanTake(t, Objectx(t, i))
          /\ \A j \in Before(t, i) : ~CanTake(t, Objectx(t, j))
     ELSE /\ AtMutantLimit(t, Objectx(t, i))
          /\ \A j \in Before(t, i) : CanTake(t, Objectx(t, j))

RaisesLimit(t) ==
  \E i \in DOMAIN wait[t].objs :
     StopsAt(t, i) /\ AtMutantLimit(t, Objectx(t, i))

Taken_Piecemeal(t) ==
  IF RaisesLimit(t) THEN {}
  ELSE IF WaitsForAny(t)
       THEN {Objectx(t, i) : i \in {j \in DOMAIN wait[t].objs : StopsAt(t, j)}}
       ELSE {o \in Objects(t) : CanTake(t, o)}

(* The objects an evaluation takes: one, all of them, or none. *)
Taken(t) ==
  IF RaisesLimit(t) THEN {}
  ELSE IF WaitsForAny(t)
       THEN {Objectx(t, i) : i \in {j \in DOMAIN wait[t].objs : StopsAt(t, j)}}
       ELSE {o \in Objects(t) : \A x \in Objects(t) : CanTake(t, x)}

(* Return from a wait that did not block. *)
ReturnAtOnce(t, st) ==
  /\ thread' = [thread EXCEPT ![t] = "Running"]
  /\ wait' = [wait EXCEPT ![t] = NoWait]
  /\ status' = [status EXCEPT ![t] = st]
  /\ reached' = [reached EXCEPT ![t] = FALSE]
  /\ lock' = NoThread

(* KiWaitSatisfyMutant and KiWaitSatisfyOther on each object taken: a      *)
(* mutant gets its owner only when its count reaches 0.                    *)
Acquires(t, o) == IsMutant(o) /\ signal[o] = 1

SatisfyAtOnce(t) ==
  LET S == Taken(t)
      won == {o \in S : Acquires(t, o)}
      index == IF WaitsForAny(t) THEN IndexOf(t, CHOOSE o \in S : TRUE) - 1 ELSE 0
  IN  /\ Evaluates(t)
      /\ S # {}
      /\ signal' = [o \in Object |-> KiWaitSatisfyAny(o, signal[o], IF o \in S THEN 1 ELSE 0)]
      /\ owner' = [o \in Object |-> IF o \in won THEN t ELSE owner[o]]
      /\ abandoned' = [o \in Object |-> abandoned[o] /\ o \notin won]
      /\ ReturnAtOnce(t, Satisfied(index, \E o \in won : abandoned[o]))
      /\ UNCHANGED <<waitList, apcVars, alerted>>

MutantLimitExceeded(t) ==
  /\ Evaluates(t)
  /\ RaisesLimit(t)
  /\ ReturnAtOnce(t, Status("MutantLimit"))
  /\ UNCHANGED <<objectVars, apcVars, alerted>>

(***************************************************************************)
(* TestForAlertPending.  First an alert of the wait mode, then a user APC, *)
(* then a kernel mode alert; a wait that is not alertable is only aborted  *)
(* by a user APC that is already pending.                                  *)
(***************************************************************************)
MustBlock(t) == Evaluates(t) /\ Taken(t) = {} /\ ~RaisesLimit(t)

UserApcDue(t) ==
  /\ wait[t].mode = UserMode
  /\ IF wait[t].alertable THEN userApc[t] ELSE userApcPending[t]

AlertDue(t) ==
  {m \in alerted[t] :
     /\ wait[t].alertable
     /\ \/ m = wait[t].mode
        \/ m = KernelMode /\ wait[t].mode \notin alerted[t] /\ ~UserApcDue(t)}

AlertWait(t) ==
  /\ MustBlock(t)
  /\ AlertDue(t) # {}
  /\ alerted' = [alerted EXCEPT ![t] = @ \ AlertDue(t)]
  /\ ReturnAtOnce(t, Status("Alerted"))
  /\ UNCHANGED <<objectVars, apcVars>>

UserApcWait(t) ==
  /\ MustBlock(t)
  /\ AlertDue(t) = {}
  /\ UserApcDue(t)
  /\ userApcPending' = [userApcPending EXCEPT ![t] = TRUE]
  /\ ReturnAtOnce(t, Status("UserApc"))
  /\ UNCHANGED <<objectVars, userApc, kernelApc, apcInsert, apcs, alerted>>

TestForAlertPending_AlertOnly(t) == AlertDue(t) # {}
TestForAlertPending(t) == AlertDue(t) # {} \/ UserApcDue(t)

(* KiCheckDueTime: the interval is zero, or its due time is in the past. *)
Expired(t) == wait[t].timeout = "Zero" \/ reached[t]

TimeoutAtOnce(t) ==
  /\ MustBlock(t)
  /\ ~TestForAlertPending(t)
  /\ Expired(t)
  /\ ReturnAtOnce(t, Status("Timeout"))
  /\ UNCHANGED <<objectVars, apcVars, alerted>>

Block_KeepsLock(t) ==
  /\ MustBlock(t)
  /\ ~TestForAlertPending(t)
  /\ ~Expired(t)
  /\ waitList' = InsertWaitBlocks(t)
  /\ thread' = [thread EXCEPT ![t] = "Waiting"]
  /\ UNCHANGED <<signal, owner, abandoned, wait, status, reached, apcVars, alerted, lock>>

(* The wait blocks go to the tail of the lists and the thread blocks. *)
Block(t) ==
  /\ MustBlock(t)
  /\ ~TestForAlertPending(t)
  /\ ~Expired(t)
  /\ waitList' = InsertWaitBlocks(t)
  /\ thread' = [thread EXCEPT ![t] = "Waiting"]
  /\ lock' = NoThread
  /\ UNCHANGED <<signal, owner, abandoned, wait, status, reached, apcVars, alerted>>

WaitPass(t) ==
  \/ SatisfyAtOnce(t)
  \/ MutantLimitExceeded(t)
  \/ AlertWait(t)
  \/ UserApcWait(t)
  \/ TimeoutAtOnce(t)
  \/ Block(t)

(* The clock passes the due time of t's wait. *)
ReachDueTime(t) ==
  /\ thread[t] \in {"WaitLoop", "Waiting"}
  /\ wait[t].timeout = "Finite" /\ ~reached[t]
  /\ reached' = [reached EXCEPT ![t] = TRUE]
  /\ UNCHANGED <<objectVars, thread, wait, status, apcVars, alerted, lock>>

(* The timer of a waiting thread expires: its timer wait block has the key *)
(* STATUS_TIMEOUT.                                                         *)
ExpireTimer(t) ==
  /\ thread[t] = "Waiting" /\ lock = NoThread
  /\ reached[t]
  /\ UnwaitOne(t, "Timeout")
  /\ UNCHANGED <<signal, owner, abandoned, apcVars, alerted, lock>>
-----------------------------------------------------------------------------
(***************************************************************************)
(* Alerts and APCs.  The APC queue lock of the target is held from the     *)
(* queueing of an APC to the test of its wait; apcInsert stands for it.    *)
(***************************************************************************)
KeAlertThread_AlsoRecords(t, u, m) ==
  /\ CanLock(t)
  /\ u \in Interrupted
  /\ ~apcInsert[u]
  /\ m \notin alerted[u]
  /\ IF thread[u] = "Waiting" /\ wait[u].alertable /\ m <= wait[u].mode
     THEN UnwaitOne(u, "Alerted")
     ELSE UNCHANGED <<waitList, waitVars>>
  /\ alerted' = [alerted EXCEPT ![u] = @ \union {m}]
  /\ UNCHANGED <<signal, owner, abandoned, apcVars, lock>>

KeAlertThread(t, u, m) ==
  /\ CanLock(t)
  /\ u \in Interrupted
  /\ ~apcInsert[u]
  /\ m \notin alerted[u]
  /\ IF thread[u] = "Waiting" /\ wait[u].alertable /\ m <= wait[u].mode
     THEN /\ UnwaitOne(u, "Alerted")
          /\ UNCHANGED alerted
     ELSE /\ alerted' = [alerted EXCEPT ![u] = @ \union {m}]
          /\ UNCHANGED <<waitList, waitVars>>
  /\ UNCHANGED <<signal, owner, abandoned, apcVars, lock>>

(* KeTestAlertThread on the current thread, without the dispatcher lock. *)
KeTestAlertThread(t, m) ==
  /\ thread[t] = "Running" /\ lock # t
  /\ ~apcInsert[t]
  /\ IF m \in alerted[t]
     THEN /\ alerted' = [alerted EXCEPT ![t] = @ \ {m}]
          /\ UNCHANGED userApcPending
     ELSE /\ m = UserMode /\ userApc[t]
          /\ userApcPending' = [userApcPending EXCEPT ![t] = TRUE]
          /\ UNCHANGED alerted
  /\ UNCHANGED <<objectVars, waitVars, userApc, kernelApc, apcInsert, apcs, lock>>

(* KiInsertQueueApc for a user APC of another thread, first half: the APC  *)
(* is queued; an exit APC also sets UserApcPending.                        *)
QueueUserApc(u, isExit) ==
  /\ u \in Interrupted
  /\ ~apcInsert[u] /\ ~userApc[u]
  /\ thread[u] \notin {"Rundown", "Terminated"}
  /\ userApc' = [userApc EXCEPT ![u] = TRUE]
  /\ userApcPending' = [userApcPending EXCEPT ![u] = @ \/ isExit]
  /\ apcInsert' = [apcInsert EXCEPT ![u] = TRUE]
  /\ UNCHANGED <<objectVars, waitVars, kernelApc, apcs, alerted, lock>>

(* Second half, with the dispatcher lock: a user mode wait that can be     *)
(* interrupted is.                                                         *)
UnwaitForUserApc(u) ==
  /\ apcInsert[u] /\ lock = NoThread
  /\ apcInsert' = [apcInsert EXCEPT ![u] = FALSE]
  /\ IF /\ thread[u] = "Waiting"
        /\ wait[u].mode = UserMode
        /\ wait[u].alertable \/ userApcPending[u]
     THEN /\ userApcPending' = [userApcPending EXCEPT ![u] = TRUE]
          /\ UnwaitOne(u, "UserApc")
     ELSE UNCHANGED <<userApcPending, waitList, waitVars>>
  /\ UNCHANGED <<signal, owner, abandoned, userApc, kernelApc, apcs, alerted, lock>>

(* KiDeliverApc on the way to user mode: the pending user APC is taken. *)
DeliverUserApc(t) ==
  /\ thread[t] = "Running" /\ lock # t
  /\ ~apcInsert[t]
  /\ userApcPending[t] /\ userApc[t]
  /\ userApcPending' = [userApcPending EXCEPT ![t] = FALSE]
  /\ userApc' = [userApc EXCEPT ![t] = FALSE]
  /\ UNCHANGED <<objectVars, waitVars, kernelApc, apcInsert, apcs, alerted, lock>>

(* KeRemoveQueueApc on the user APC of u. *)
KeRemoveQueueApc(u) ==
  /\ ~apcInsert[u] /\ lock = NoThread
  /\ userApc[u]
  /\ userApc' = [userApc EXCEPT ![u] = FALSE]
  /\ userApcPending' = [userApcPending EXCEPT ![u] = FALSE]
  /\ UNCHANGED <<objectVars, waitVars, kernelApc, apcInsert, apcs, alerted, lock>>

(* KiInsertQueueApc for a special kernel APC of another thread: a waiting  *)
(* thread goes back to its wait loop to take it.                           *)
QueueKernelApc(u) ==
  /\ ~apcInsert[u] /\ lock = NoThread
  /\ apcs < MaxApcs
  /\ thread[u] \in {"Running", "WaitLoop", "Waiting"}
  /\ apcs' = apcs + 1
  /\ kernelApc' = [kernelApc EXCEPT ![u] = TRUE]
  /\ IF thread[u] = "Waiting"
     THEN UnwaitOne(u, "KernelApc")
     ELSE UNCHANGED <<waitList, waitVars>>
  /\ UNCHANGED <<signal, owner, abandoned, userApc, userApcPending, apcInsert, alerted, lock>>

(* The APC interrupt, as soon as the thread runs below APC level. *)
DeliverKernelApc(t) ==
  /\ thread[t] \in {"Running", "WaitLoop"} /\ lock # t
  /\ kernelApc[t]
  /\ kernelApc' = [kernelApc EXCEPT ![t] = FALSE]
  /\ UNCHANGED <<objectVars, waitVars, userApc, userApcPending, apcInsert, apcs, alerted, lock>>
-----------------------------------------------------------------------------
Init ==
  /\ signal \in {f \in [Object -> 0..LongMax] : \A o \in Object :
                   CASE Kind[o] = "Mutant"    -> f[o] = 1
                     [] Kind[o] = "Semaphore" -> f[o] <= Limit[o]
                     [] OTHER                 -> f[o] <= 1}
  /\ owner = [o \in Object |-> NoThread]
  /\ abandoned = [o \in Object |-> FALSE]
  /\ waitList = [o \in Object |-> {}]
  /\ thread = [t \in Thread |-> "Running"]
  /\ wait = [t \in Thread |-> NoWait]
  /\ status = [t \in Thread |-> Status("Pending")]
  /\ reached = [t \in Thread |-> FALSE]
  /\ alerted = [t \in Thread |-> {}]
  /\ userApc = [t \in Thread |-> FALSE]
  /\ userApcPending = [t \in Thread |-> FALSE]
  /\ kernelApc = [t \in Thread |-> FALSE]
  /\ apcInsert = [t \in Thread |-> FALSE]
  /\ apcs = 0
  /\ lock = NoThread

Signalling(t) ==
  \E o \in Object :
    \/ \E w \in BOOLEAN : \/ KeSetEvent(t, o, w)
                          \/ KePulseEvent(t, o, w)
                          \/ \E c \in Thread : KePulseEventRacingClear(t, c, o, w)
                          \/ KeReleaseMutant(t, o, w)
                          \/ \E a \in 1..LongMax : KeReleaseSemaphore(t, o, a, w)
    \/ KeResetEvent(t, o)
    \/ KeClearEvent(t, o)
    \/ KeSetEventBoostPriority(t, o)

Rundown(t) ==
  \/ KeRundownThread(t)
  \/ \E o \in Object : AbandonMutant(t, o)
  \/ RundownDone(t)

Waits(t) ==
  \/ \E r \in Request : KeWaitForObjects(t, r)
  \/ DropLockForApc(t)
  \/ WaitPass(t)
  \/ ReachDueTime(t)
  \/ ExpireTimer(t)

AlertsAndApcs(t) ==
  \/ \E u \in Thread, m \in Mode : KeAlertThread(t, u, m)
  \/ \E m \in Mode : KeTestAlertThread(t, m)
  \/ \E isExit \in BOOLEAN : QueueUserApc(t, isExit)
  \/ UnwaitForUserApc(t)
  \/ DeliverUserApc(t)
  \/ KeRemoveQueueApc(t)
  \/ QueueKernelApc(t)
  \/ DeliverKernelApc(t)

Next == \E t \in Thread : Signalling(t) \/ Rundown(t) \/ Waits(t) \/ AlertsAndApcs(t)

Spec == Init /\ [][Next]_vars

(***************************************************************************)
(* Fairness: a runnable thread runs, the clock advances, timer DPCs and    *)
(* APC interrupts are delivered.  The dispatcher lock is a queued spin     *)
(* lock, so a thread that competes for it again and again gets it: strong  *)
(* fairness for the actions that need it.                                  *)
(***************************************************************************)
Fairness ==
  \A t \in Thread :
    /\ SF_vars(WaitPass(t))
    /\ SF_vars(ExpireTimer(t))
    /\ WF_vars(ReachDueTime(t))
    /\ WF_vars(DropLockForApc(t))
    /\ WF_vars(DeliverKernelApc(t))
    /\ WF_vars(Rundown(t) /\ lock = t)
    /\ WF_vars(lock = t /\ \E r \in Request : KeWaitForObjects(t, r))

FairSpec == Spec /\ Fairness
-----------------------------------------------------------------------------
TypeOK ==
  /\ signal \in [Object -> Int]
  /\ owner \in [Object -> Thread \union {NoThread}]
  /\ abandoned \in [Object -> BOOLEAN]
  /\ waitList \in [Object -> SUBSET (Thread \X Thread)]
  /\ thread \in [Thread -> ThreadState]
  /\ wait \in [Thread -> Request \union {NoWait}]
  /\ status \in [Thread -> [code : Codes, index : Nat, abandoned : BOOLEAN]]
  /\ reached \in [Thread -> BOOLEAN]
  /\ alerted \in [Thread -> SUBSET Mode]
  /\ userApc \in [Thread -> BOOLEAN]
  /\ userApcPending \in [Thread -> BOOLEAN]
  /\ kernelApc \in [Thread -> BOOLEAN]
  /\ apcInsert \in [Thread -> BOOLEAN]
  /\ apcs \in 0..MaxApcs
  /\ lock \in Thread \union {NoThread}

(* A thread has a wait block in the list of an object exactly while it     *)
(* waits for that object, and every list is a total order: KiUnlinkThread  *)
(* leaves no block behind in the list of another object.                   *)
WaitListsMatchThreads ==
  \A o \in Object :
    /\ Waiters(o) = {t \in Thread : thread[t] = "Waiting" /\ o \in Objects(t)}
    /\ \A t, u \in Waiters(o) :
         /\ <<t, u>> \in waitList[o] \/ <<u, t>> \in waitList[o]
         /\ <<t, u>> \in waitList[o] /\ <<u, t>> \in waitList[o] => t = u
         /\ \A v \in Waiters(o) :
              <<t, u>> \in waitList[o] /\ <<u, v>> \in waitList[o]
                => <<t, v>> \in waitList[o]
    /\ waitList[o] \subseteq Waiters(o) \X Waiters(o)

(* No wakeup is lost: nobody stays blocked whose wait could be satisfied   *)
(* now, whatever order signals, waits and interruptions came in.           *)
NoLostWakeup ==
  \A t \in Thread : thread[t] = "Waiting" =>
    IF WaitsForAny(t) THEN \A o \in Objects(t) : ~CanTake(t, o)
                      ELSE \E o \in Objects(t) : ~CanTake(t, o)

(* A mutant is free exactly when its state is 1, only a free one can be    *)
(* marked abandoned, and no thread exits with a mutant.                    *)
MutantOwnership ==
  \A o \in Object : IsMutant(o) =>
    /\ owner[o] = NoThread <=> signal[o] = 1
    /\ abandoned[o] => owner[o] = NoThread
    /\ owner[o] # NoThread => thread[owner[o]] # "Terminated"

(* The signal state stays in the range of its object: 0 or 1 for an event, *)
(* 0 to the limit for a semaphore, whatever adjustments callers pass to    *)
(* KeReleaseSemaphore, and never below MINLONG for a mutant.               *)
SignalInRange ==
  \A o \in Object :
    signal[o] \in CASE Kind[o] = "Mutant"    -> MINLONG..1
                   [] Kind[o] = "Semaphore" -> 0..Limit[o]
                   [] OTHER                 -> 0..1

(* A thread never blocks, or stays blocked, through an alert or an APC     *)
(* that its wait must give way to; only while a user APC is between its    *)
(* queueing and the test of the wait may it still be waiting.              *)
NoMissedInterrupt ==
  \A t \in Thread : thread[t] = "Waiting" =>
    /\ ~kernelApc[t]
    /\ wait[t].alertable => \A m \in alerted[t] : m > wait[t].mode
    /\ UserApcDue(t) => apcInsert[t]

(* A thread of the set Completes(t) leaves a blocked wait in this step     *)
(* because of an object.                                                   *)
Completes(t) ==
  /\ thread[t] = "Waiting" /\ thread'[t] = "Running"
  /\ status'[t].code = "Object"
CompletesWith(t, o) ==
  /\ Completes(t) /\ WaitsForAny(t)
  /\ o = wait[t].objs[status'[t].index + 1]

(* Waits for one object are satisfied in the order in which they began: a  *)
(* waiter that gets the object leaves nobody in front of it.               *)
WakeupsInOrder ==
  [][\A o \in Object : \A t \in Waiters(o) :
       CompletesWith(t, o) => Ahead(o, t) \intersect Waiters(o)' = {}]_vars

(* A signal is worth what it says: one setting of a synchronization event, *)
(* one release of a mutant satisfies one waiter, and the waiters that a    *)
(* semaphore release satisfies are units that it no longer holds.          *)
NoSignalDuplicated ==
  [][\A o \in Object :
       LET n == Cardinality({t \in Thread : CompletesWith(t, o)})
       IN  n > 0 =>
             CASE Kind[o] = "NotificationEvent" -> TRUE
               [] Kind[o] = "Semaphore" -> n + signal'[o] <= Limit[o]
               [] OTHER                 -> n = 1 /\ signal'[o] <= 0]_vars

(* A wait for all objects takes all of them in one step or none: a thread  *)
(* becomes owner of a mutant only by a wait that ends then, and if that    *)
(* was a wait for all, it owns every mutant it waited for.                 *)
AllOrNothing ==
  [][\A t \in Thread, o \in Object :
       owner'[o] = t /\ owner[o] # t =>
         /\ thread[t] \in {"WaitLoop", "Waiting"} /\ thread'[t] = "Running"
         /\ status'[t].code = "Object"
         /\ ~WaitsForAny(t) => \A x \in Objects(t) : IsMutant(x) => owner'[x] = t]_vars

(* o was abandoned, or is being abandoned by the owner that exits. *)
LeftBehind(o) ==
  abandoned[o] \/ \E t \in Thread : owner[o] = t /\ thread[t] = "Rundown"

(* That a mutant was abandoned is reported to the next thread that owns    *)
(* it, and to no other, whether that thread was blocked when the owner     *)
(* exited or comes later.                                                  *)
AbandonReported ==
  [][\A t \in Thread :
       LET won == {o \in Object : IsMutant(o) /\ owner'[o] = t /\ owner[o] # t}
       IN  won # {} => (status'[t].abandoned <=> \E o \in won : LeftBehind(o))]_vars

(* An alert ends one alertable wait of a mode it reaches, or one           *)
(* KeTestAlertThread: the one that ends a blocked wait is not recorded as  *)
(* well, and one that is recorded is not forgotten otherwise.              *)
AlertConsumedOnce ==
  [][\A t \in Thread :
       /\ \A m \in alerted[t] \ alerted'[t] :
            /\ alerted'[t] = alerted[t] \ {m}
            /\ \/ thread[t] = "Running" /\ KeTestAlertThread(t, m)
               \/ /\ thread[t] = "WaitLoop" /\ status'[t] = Status("Alerted")
                  /\ wait[t].alertable /\ m <= wait[t].mode
       /\ thread[t] = "Waiting" /\ status'[t] = Status("Alerted")
            => alerted'[t] = alerted[t]]_vars

(* A wait with a timeout returns, even when kernel APCs keep restarting    *)
(* its loop.                                                               *)
TimedWaitReturns ==
  \A t \in Thread : wait[t].timeout # "None" ~> wait[t].timeout = "None"
=============================================================================
