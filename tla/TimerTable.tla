----------------------------- MODULE TimerTable -----------------------------
(***************************************************************************)
(* Kernel timers on a 64-bit multiprocessor (base/ntos/ke/timerobj.c,      *)
(* timersup.c, dpcsup.c, ki.h, amd64/clockint.asm).  Timers that are set   *)
(* hang on a wheel of lists, one list for each "hand", that is, for each   *)
(* tick of the clock modulo the size of the wheel.  Every hand has a lock  *)
(* and the due time of its first timer.  Three parties meet there:         *)
(*   - threads that set and cancel timers.  A set computes the due time    *)
(*     under the dispatcher lock, but inserts the timer after giving that  *)
(*     lock up, and looks at the clock again after it has published the    *)
(*     due time of the hand;                                               *)
(*   - the clock interrupt, which moves the time forward and compares it   *)
(*     with the due time of one or two hands, without a lock;              *)
(*   - the expiration, started by the clock on its own processor, which    *)
(*     empties the hands up to the time and tick it has read, and gives up *)
(*     the dispatcher lock from time to time to run DPCs.                  *)
(*                                                                         *)
(* A list is the set of its timers; its head is one with the earliest due  *)
(* time.  What a signaled timer does to the threads that wait for it is in *)
(* Dispatcher.                                                             *)
(*                                                                         *)
(* Operators whose name ends in _<Fault> are faulty variants of the one    *)
(* that follows them; no specification uses them.                          *)
(***************************************************************************)
EXTENDS Integers, FiniteSets

CONSTANTS
  Thread,        (* threads on other processors than the one with the clock *)
  Timer,
  Nobody,        (* holder of a free lock; no timer                        *)
  Never,         (* a Time whose upper half is 0xffffffff; no request      *)
  TableSize,     (* TIMER_TABLE_SIZE                                       *)
  TickLength,    (* clock interrupts in a tick                             *)
  StartTick,
  MaxTime,       (* bound: the interrupt time                              *)
  Intervals,     (* the due times, relative, of the timers that are set    *)
  Period,        (* the period of each, 0 for none                         *)
  MaxCalls       (* bound: calls of each thread                            *)

Expiration == "KiTimerExpiration"
Actor == Thread \union {Expiration}

(* An actor is told from the places of a timer and from nobody. *)
ASSUME TimerTableAssumption ==
  /\ TableSize \in Nat \ {0} /\ TickLength \in Nat \ {0} /\ StartTick \in Nat \ {0}
  /\ MaxTime \in Nat /\ Intervals \subseteq Nat \ {0}
  /\ {"None", "Table", Expiration} \intersect Thread = {}
  /\ Nobody \notin Actor \union Timer /\ Never \notin Nat
  /\ Period \in [Timer -> Nat] /\ MaxCalls \in [Thread -> Nat]

Hand == 0..TableSize - 1
HandOf(time) == (time \div TickLength) % TableSize      (* KiComputeTimerTableIndex *)

VARIABLES
  now,           (* InterruptTime                                          *)
  ticks,         (* TickCount                                              *)
  isr,           (* where the clock interrupt is                           *)
  request,       (* TimerRequest and TimerHand: one word, Never for zero   *)
  dispatcherLock,
  tableLock,     (* the lock of each hand                                  *)
  time,          (* Time of each hand                                      *)
  inserted,      (* Header.Inserted of each timer                          *)
  place,         (* the list it is on: "None", "Table" or "Dummy"          *)
  due, signaled,
  pc, timer,     (* where each actor is, and with which timer              *)
  scan,          (* Index, HandLimit and CurrentTime of the expiration     *)
  calls

clock == <<now, ticks, isr>>
locks == <<dispatcherLock, tableLock>>
timers == <<time, inserted, place, due, signaled>>
vars == <<clock, request, locks, timers, pc, timer, scan, calls>>

Init ==
  /\ now = StartTick * TickLength /\ ticks = StartTick /\ isr = "Idle"
  /\ request = Never
  /\ dispatcherLock = Nobody /\ tableLock = [h \in Hand |-> Nobody]
  /\ time = [h \in Hand |-> Never]
  /\ inserted = [t \in Timer |-> FALSE] /\ place = [t \in Timer |-> "None"]
  /\ due = [t \in Timer |-> 0]
  /\ signaled = [t \in Timer |-> FALSE]
  /\ pc = [a \in Actor |-> "Idle"] /\ timer = [a \in Actor |-> Nobody]
  /\ scan = [index |-> 0, limit |-> 0, current |-> 0]
  /\ calls = [a \in Thread |-> 0]

Goto(a, where) == pc' = [pc EXCEPT ![a] = where]
TakeDispatcherLock(a) == dispatcherLock = Nobody /\ dispatcherLock' = a
ReleaseDispatcherLock == dispatcherLock' = Nobody
InTable(h) == {t \in Timer : place[t] = "Table" /\ HandOf(due[t]) = h}
Reached(h) == time[h] # Never /\ time[h] <= now
-----------------------------------------------------------------------------
(***************************************************************************)
(* The timer table.                                                        *)
(***************************************************************************)
(* KiInsertTimerTable up to its barrier.  The signal state is written      *)
(* without the dispatcher lock.                                            *)
IsFirst_WhenAlone(t) == InTable(HandOf(due[t])) = {}
IsFirst(t) == \A u \in InTable(HandOf(due[t])) : due[t] < due[u]
InsertTimerTable(t) ==
  /\ place' = [place EXCEPT ![t] = "Table"]
  /\ signaled' = [signaled EXCEPT ![t] = @ /\ Period[t] # 0]
  /\ time' = [time EXCEPT ![HandOf(due[t])] = IF IsFirst(t) THEN due[t] ELSE @]

(* KiRemoveEntryTimer, of a timer that is then on the list "list": the due *)
(* time of the hand stays what it was unless the list is empty.            *)
RemoveEntryTimer(t, list) ==
  /\ place' = [place EXCEPT ![t] = list]
  /\ time' = [time EXCEPT ![HandOf(due[t])] = IF InTable(HandOf(due[t])) \subseteq {t}
                                              THEN Never ELSE @]
-----------------------------------------------------------------------------
(***************************************************************************)
(* KeSetTimerEx and KeCancelTimer.                                         *)
(***************************************************************************)
BeginCall(a, t, where) ==
  /\ pc[a] = "Idle" /\ calls[a] < MaxCalls[a]
  /\ TakeDispatcherLock(a)
  /\ calls' = [calls EXCEPT ![a] = @ + 1]
  /\ timer' = [timer EXCEPT ![a] = t]
  /\ Goto(a, where)
  /\ UNCHANGED <<clock, request, tableLock, timers, scan>>

SetTimer(a, t) == BeginCall(a, t, "SetRemove")
CancelTimer(a, t) == BeginCall(a, t, "CancelRemove")

(* KiRemoveTreeTimer; the timer may be on a dummy list. *)
RemoveTreeTimer(a) ==
  LET t == timer[a]
  IN  /\ pc[a] \in {"SetRemove", "CancelRemove"}
      /\ IF inserted[t]
         THEN /\ tableLock[HandOf(due[t])] = Nobody
              /\ inserted' = [inserted EXCEPT ![t] = FALSE]
              /\ RemoveEntryTimer(t, "None")
         ELSE UNCHANGED <<inserted, place, time>>
      /\ IF pc[a] = "SetRemove"
         THEN Goto(a, "SetCompute") /\ UNCHANGED dispatcherLock
         ELSE Goto(a, "Idle") /\ ReleaseDispatcherLock
      /\ UNCHANGED <<clock, request, tableLock, due, signaled, timer, scan, calls>>

(* KiComputeDueTime, with a relative due time or one that has passed. *)
ComputeDueTime(a, d) ==
  LET t == timer[a]
  IN  /\ pc[a] = "SetCompute"
      /\ due' = [due EXCEPT ![t] = d]
      /\ IF d = 0
         THEN Goto(a, "SetPast") /\ UNCHANGED <<inserted, signaled>>
         ELSE /\ inserted' = [inserted EXCEPT ![t] = TRUE]
              /\ signaled' = [signaled EXCEPT ![t] = FALSE]
              /\ Goto(a, "SetLockHand")
      /\ UNCHANGED <<clock, request, locks, time, place, timer, scan, calls>>

LockHand(a) ==
  LET h == HandOf(due[timer[a]])
  IN  /\ pc[a] = "SetLockHand"
      /\ tableLock[h] = Nobody
      /\ tableLock' = [tableLock EXCEPT ![h] = a]
      /\ ReleaseDispatcherLock
      /\ Goto(a, "SetInsert")
      /\ UNCHANGED <<clock, request, timers, timer, scan, calls>>

Insert(a) ==
  LET t == timer[a]
  IN  /\ pc[a] = "SetInsert"
      /\ InsertTimerTable(t)
      /\ IF IsFirst(t)
         THEN Goto(a, "SetCheck") /\ UNCHANGED tableLock
         ELSE Goto(a, "Idle") /\ tableLock' = [tableLock EXCEPT ![HandOf(due[t])] = Nobody]
      /\ UNCHANGED <<clock, request, dispatcherLock, inserted, due, timer, scan, calls>>

(* The clock is read again; KiCompleteTimer moves an expired timer to a    *)
(* dummy list.                                                             *)
Check_Omitted(a) ==
  LET t == timer[a]
  IN  /\ pc[a] = "SetCheck"
      /\ tableLock' = [tableLock EXCEPT ![HandOf(due[t])] = Nobody]
      /\ Goto(a, "Idle") /\ UNCHANGED <<place, time>>
      /\ UNCHANGED <<clock, request, dispatcherLock, inserted, due, signaled, timer,
                     scan, calls>>
Check(a) ==
  LET t == timer[a]
  IN  /\ pc[a] = "SetCheck"
      /\ tableLock' = [tableLock EXCEPT ![HandOf(due[t])] = Nobody]
      /\ IF due[t] <= now
         THEN RemoveEntryTimer(t, a) /\ Goto(a, "SetComplete")
         ELSE Goto(a, "Idle") /\ UNCHANGED <<place, time>>
      /\ UNCHANGED <<clock, request, dispatcherLock, inserted, due, signaled, timer,
                     scan, calls>>

(* KiSignalTimer, by a thread that holds the dispatcher lock or takes it.  *)
Signal(a) ==
  LET t == timer[a]
  IN  /\ inserted' = [inserted EXCEPT ![t] = FALSE]
      /\ signaled' = [signaled EXCEPT ![t] = TRUE]
      /\ place' = [place EXCEPT ![t] = "None"]
      /\ IF Period[t] # 0
         THEN Goto(a, "Reinsert") /\ dispatcherLock' = a
         ELSE Goto(a, "Idle") /\ ReleaseDispatcherLock

SignalPast(a) ==
  /\ pc[a] = "SetPast"
  /\ Signal(a)
  /\ UNCHANGED <<clock, request, tableLock, time, due, timer, scan, calls>>

StillOnDummy_Unchecked(a) == TRUE
StillOnDummy(a) == place[timer[a]] = a
Complete(a) ==
  /\ pc[a] = "SetComplete" /\ dispatcherLock = Nobody
  /\ IF StillOnDummy(a)
     THEN Signal(a)
     ELSE Goto(a, "Idle") /\ UNCHANGED <<inserted, signaled, place, dispatcherLock>>
  /\ UNCHANGED <<clock, request, tableLock, time, due, timer, scan, calls>>
-----------------------------------------------------------------------------
(***************************************************************************)
(* A periodic timer is inserted again by whoever signaled it, under the    *)
(* dispatcher lock (KiInsertTreeTimer), until it is not due at once.       *)
(***************************************************************************)
Reinsert(a) ==
  LET t == timer[a]
  IN  /\ pc[a] = "Reinsert"
      /\ due' = [due EXCEPT ![t] = now + Period[t]]
      /\ inserted' = [inserted EXCEPT ![t] = TRUE]
      /\ Goto(a, "ReinsertInsert")
      /\ UNCHANGED <<clock, request, locks, time, place, signaled, timer, scan, calls>>

(* After MAXIMUM_TIMERS_PROCESSED or MAXIMUM_TIMERS_EXAMINED timers the    *)
(* expiration gives the dispatcher lock up and runs DPCs.                  *)
Processed ==
  \/ Goto(Expiration, "Scan") /\ UNCHANGED dispatcherLock
  \/ Goto(Expiration, "TryLockScan") /\ ReleaseDispatcherLock

Reinserted(a) ==
  IF a = Expiration
  THEN Processed
  ELSE Goto(a, "Idle") /\ ReleaseDispatcherLock

ReinsertInsert(a) ==
  LET t == timer[a]
      h == HandOf(due[t])
  IN  /\ pc[a] = "ReinsertInsert" /\ tableLock[h] = Nobody
      /\ InsertTimerTable(t)
      /\ IF IsFirst(t)
         THEN /\ tableLock' = [tableLock EXCEPT ![h] = a]
              /\ Goto(a, "ReinsertCheck") /\ UNCHANGED dispatcherLock
         ELSE Reinserted(a) /\ UNCHANGED tableLock
      /\ UNCHANGED <<clock, request, inserted, due, timer, scan, calls>>

ReinsertCheck(a) ==
  LET t == timer[a]
  IN  /\ pc[a] = "ReinsertCheck"
      /\ tableLock' = [tableLock EXCEPT ![HandOf(due[t])] = Nobody]
      /\ IF due[t] <= now
         THEN /\ RemoveEntryTimer(t, "None")
              /\ inserted' = [inserted EXCEPT ![t] = FALSE]
              /\ Goto(a, "Reinsert") /\ UNCHANGED dispatcherLock
         ELSE Reinserted(a) /\ UNCHANGED <<place, time, inserted>>
      /\ UNCHANGED <<clock, request, due, signaled, timer, scan, calls>>
-----------------------------------------------------------------------------
(***************************************************************************)
(* The clock interrupt (KeUpdateSystemTime).  The tick count is read on    *)
(* its own processor only, so it moves together with the time.             *)
(***************************************************************************)
ClockInterrupt ==
  /\ isr = "Idle" /\ now < MaxTime
  /\ now' = now + 1
  /\ IF now' % TickLength = 0
     THEN ticks' = ticks + 1 /\ isr' = "OldHand"
     ELSE ticks' = ticks /\ isr' = "Hand"
  /\ UNCHANGED <<request, locks, timers, pc, timer, scan, calls>>

RequestExpiration(tick) == request' = IF request = Never THEN tick ELSE request

CompareOldHand ==
  /\ isr = "OldHand"
  /\ IF Reached((ticks - 1) % TableSize)
     THEN RequestExpiration(ticks - 1) /\ isr' = "Idle"
     ELSE isr' = "Hand" /\ UNCHANGED request
  /\ UNCHANGED <<now, ticks, locks, timers, pc, timer, scan, calls>>

CompareHand ==
  /\ isr = "Hand"
  /\ IF Reached(ticks % TableSize) THEN RequestExpiration(ticks) ELSE UNCHANGED request
  /\ isr' = "Idle"
  /\ UNCHANGED <<now, ticks, locks, timers, pc, timer, scan, calls>>
-----------------------------------------------------------------------------
(***************************************************************************)
(* KiTimerExpiration, called by KiRetireDpcList on the processor of the    *)
(* clock: nothing of it happens during a clock interrupt.                  *)
(***************************************************************************)
At(where) == isr = "Idle" /\ pc[Expiration] = where

TakeRequest ==
  /\ At("Idle") /\ request # Never
  /\ scan' = [scan EXCEPT !.index = request]
  /\ request' = Never
  /\ Goto(Expiration, "Capture")
  /\ UNCHANGED <<clock, locks, timers, timer, calls>>

(* HandLimit - Index is unsigned. *)
LimitOf(index) ==
  IF ticks - index \in Hand THEN ticks % TableSize ELSE (index + TableSize - 1) % TableSize

Capture ==
  /\ At("Capture")
  /\ scan' = [index |-> scan.index % TableSize, limit |-> LimitOf(scan.index), current |-> now]
  /\ Goto(Expiration, "Lock")
  /\ UNCHANGED <<clock, request, locks, timers, timer, calls>>

LockDispatcher ==
  /\ At("Lock") /\ TakeDispatcherLock(Expiration)
  /\ Goto(Expiration, "Scan")
  /\ UNCHANGED <<clock, request, tableLock, timers, timer, scan, calls>>

NextHand ==
  IF scan.index = scan.limit
  THEN ReleaseDispatcherLock /\ Goto(Expiration, "Idle") /\ UNCHANGED scan
  ELSE /\ scan' = [scan EXCEPT !.index = (@ + 1) % TableSize]
       /\ Goto(Expiration, "Scan") /\ UNCHANGED dispatcherLock

(* Whether the list is empty is read without the lock of the hand. *)
SkipHand ==
  /\ At("Scan") /\ InTable(scan.index) = {}
  /\ NextHand
  /\ UNCHANGED <<clock, request, tableLock, timers, timer, calls>>

First(t) == t \in InTable(scan.index) /\ \A u \in InTable(scan.index) : due[t] <= due[u]

ExpireFirst(t) ==
  /\ At("Scan") /\ tableLock[scan.index] = Nobody
  /\ First(t) /\ due[t] <= scan.current
  /\ RemoveEntryTimer(t, "None")
  /\ inserted' = [inserted EXCEPT ![t] = FALSE]
  /\ signaled' = [signaled EXCEPT ![t] = TRUE]
  /\ timer' = [timer EXCEPT ![Expiration] = t]
  /\ IF Period[t] # 0
     THEN Goto(Expiration, "Reinsert") /\ UNCHANGED dispatcherLock
     ELSE Processed
  /\ UNCHANGED <<clock, request, tableLock, due, scan, calls>>

HandDone(t) ==
  /\ At("Scan") /\ tableLock[scan.index] = Nobody
  /\ First(t) /\ due[t] > scan.current
  /\ time' = [time EXCEPT ![scan.index] = due[t]]
  /\ \/ NextHand
     \/ Goto(Expiration, "TryLockNext") /\ ReleaseDispatcherLock /\ UNCHANGED scan
  /\ UNCHANGED <<clock, request, tableLock, inserted, place, due, signaled, timer,
                 calls>>

(* When it does not get the lock back at once it asks for another scan,    *)
(* with a TimerHand of 2^32 + Index: a request even when Index is 0.       *)
TryLock ==
  /\ isr = "Idle" /\ pc[Expiration] \in {"TryLockScan", "TryLockNext"}
  /\ IF dispatcherLock # Nobody
     THEN /\ request' = scan.index
          /\ Goto(Expiration, "Idle")
          /\ UNCHANGED <<dispatcherLock, scan>>
     ELSE /\ IF pc[Expiration] = "TryLockScan"
             THEN /\ dispatcherLock' = Expiration
                  /\ Goto(Expiration, "Scan") /\ UNCHANGED scan
             ELSE IF scan.index = scan.limit
             THEN Goto(Expiration, "Idle") /\ UNCHANGED <<dispatcherLock, scan>>
             ELSE /\ dispatcherLock' = Expiration
                  /\ scan' = [scan EXCEPT !.index = (@ + 1) % TableSize]
                  /\ Goto(Expiration, "Scan")
          /\ UNCHANGED request
  /\ UNCHANGED <<clock, tableLock, timers, timer, calls>>
-----------------------------------------------------------------------------
(* KeClearTimer, without a lock. *)
ClearTimer(a, t) ==
  /\ pc[a] = "Idle" /\ calls[a] < MaxCalls[a] /\ signaled[t]
  /\ calls' = [calls EXCEPT ![a] = @ + 1]
  /\ signaled' = [signaled EXCEPT ![t] = FALSE]
  /\ UNCHANGED <<clock, request, locks, time, inserted, place, due, pc, timer, scan>>

Call(a) == \E t \in Timer : SetTimer(a, t) \/ CancelTimer(a, t) \/ ClearTimer(a, t)
ComputeAnyDueTime(a) ==
  ComputeDueTime(a, 0) \/ \E i \in Intervals : ComputeDueTime(a, now + i)
Run(a) ==
  \/ RemoveTreeTimer(a) \/ ComputeAnyDueTime(a) \/ LockHand(a) \/ Insert(a) \/ Check(a)
  \/ SignalPast(a) \/ Complete(a)
  \/ Reinsert(a) \/ ReinsertInsert(a) \/ ReinsertCheck(a)
Compare == CompareOldHand \/ CompareHand
Expire ==
  \/ TakeRequest \/ Capture \/ LockDispatcher \/ SkipHand
  \/ \E t \in Timer : ExpireFirst(t) \/ HandDone(t)
  \/ TryLock
  \/ isr = "Idle" /\ (Reinsert(Expiration) \/ ReinsertInsert(Expiration)
                        \/ ReinsertCheck(Expiration))

Next ==
  \/ \E a \in Thread : Call(a) \/ Run(a)
  \/ ClockInterrupt \/ Compare \/ Expire

Spec == Init /\ [][Next]_vars

(* The processors run; the clock need not go on.                           *)
FairSpec ==
  /\ Spec
  /\ \A a \in Thread : WF_vars(Run(a))
  /\ WF_vars(Compare) /\ WF_vars(Expire)
-----------------------------------------------------------------------------
TypeOK ==
  /\ now \in Nat /\ ticks \in Nat /\ isr \in {"Idle", "OldHand", "Hand"}
  /\ request \in Nat \union {Never}
  /\ dispatcherLock \in Actor \union {Nobody}
  /\ tableLock \in [Hand -> Actor \union {Nobody}]
  /\ time \in [Hand -> Nat \union {Never}]
  /\ inserted \in [Timer -> BOOLEAN] /\ signaled \in [Timer -> BOOLEAN]
  /\ place \in [Timer -> {"None", "Table"} \union Thread]
  /\ due \in [Timer -> Nat]
  /\ timer \in [Actor -> Timer \union {Nobody}]
  /\ scan \in [index : Nat, limit : Hand, current : Nat]
  /\ calls \in [Thread -> Nat]

(* The clock looks at one number for a list of timers: it is never later   *)
(* than the due time of any of them, through insertions, removals and      *)
(* scans.                                                                  *)
TimeCoversList ==
  \A t \in Timer :
    place[t] = "Table" => /\ inserted[t]
                          /\ time[HandOf(due[t])] # Never /\ time[HandOf(due[t])] <= due[t]

(* The wheel that the clock looks at agrees with the timers in it.         *)
TableConsistent == TypeOK /\ TimeCoversList

(* A timer that is due expires without another tick of the clock, unless   *)
(* it is canceled or set anew: between the thread that inserts it, the     *)
(* clock interrupt and the scan, one of them sees it.                      *)
TimersExpire ==
  \A t \in Timer : inserted[t] /\ due[t] <= now ~> ~inserted[t] \/ due[t] > now

(* The timers are what their users rely on.                                *)
BeingSet(t) ==
  \E a \in Actor : timer[a] = t /\ pc[a] \in {"SetPast", "Reinsert"}
Contract == INSTANCE TimerContract WITH
  set <- {t \in Timer : inserted[t] \/ BeingSet(t)},
  signaled <- {t \in Timer : signaled[t]}
ImplementsContract == Contract!Spec
=============================================================================
