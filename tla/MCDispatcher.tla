--------------------------- MODULE MCDispatcher ---------------------------
(* Instances of Dispatcher for TLC.  Objects are strings; each run takes   *)
(* its objects, its threads and the wait calls they make from below.       *)
EXTENDS Dispatcher, TLC
CONSTANTS t1, t2, t3

TwoThreads == {t1, t2}
ThreeThreads == {t1, t2, t3}
SymmetryThree == Permutations(ThreeThreads)

AllKinds ==
  [sync   |-> "SynchronizationEvent", sync2 |-> "SynchronizationEvent",
   notify |-> "NotificationEvent",    sem   |-> "Semaphore",
   mutant |-> "Mutant",               mutant2 |-> "Mutant"]
MCKind == [o \in Object |-> AllKinds[o]]
LimitOne == [o \in Object |-> 1]
LimitTwo == [o \in Object |-> 2]

Kernel(array, type) ==
  [objs |-> array, type |-> type, mode |-> KernelMode,
   alertable |-> FALSE, timeout |-> "None"]
Timed(r, timeout) == [r EXCEPT !.timeout = timeout]
Delay(timeout) == Timed(Kernel(<<>>, "Any"), timeout)

(* Signals: waits for any and for all of two events and a semaphore, and   *)
(* KeSetEventBoostPriority on an event that nobody waits for together with *)
(* others, except for all of them.  Releases adjust the semaphore by up to *)
(* MAXLONG.                                                                *)
EventObjects == {"sync", "notify"}
EventRequests ==
  {Kernel(<<"sync">>, "Any"), Kernel(<<"notify">>, "Any"),
   Kernel(<<"notify", "sync">>, "Any"), Kernel(<<"sync", "notify">>, "All")}
SignalObjects == {"sync", "notify", "sem", "sync2"}
SignalRequests ==
  EventRequests \union
  {Kernel(<<"sem">>, "Any"), Kernel(<<"sync", "sem">>, "All"),
   Timed(Kernel(<<"sem">>, "Any"), "Zero"),
   Kernel(<<"sync2">>, "Any"), Kernel(<<"sync", "sync2">>, "All")}
OnlySync2 == {"sync2"}

(* Mutants: recursion, two mutants in both orders, waits for all *)
MutantObjects == {"mutant", "mutant2"}
MutantRequests ==
  {Kernel(<<"mutant">>, "Any"), Kernel(<<"mutant2", "mutant">>, "Any"),
   Kernel(<<"mutant", "mutant2">>, "All")}

(* objects: both of these families.  A behaviour may go from one to the    *)
(* other, but not use them at the same time (constraint FamiliesApart).    *)
AllObjects == SignalObjects \union MutantObjects
AllRequests == SignalRequests \union MutantRequests
Unused(S) ==
  /\ \A o \in S : signal[o] = (IF IsMutant(o) THEN 1 ELSE 0) /\ ~abandoned[o]
  /\ \A t \in Thread : Objects(t) \intersect S = {}
NobodyExits == \A t \in Thread : thread[t] \notin {"Rundown", "Terminated"}
FamiliesApart == (Unused(MutantObjects) /\ NobodyExits) \/ Unused(SignalObjects)

(* interrupts: alertable waits of both modes, user mode waits, delays, and *)
(* waits with a timeout that only kernel APCs interrupt                    *)
InterruptObjects == {"sync"}
InterruptRequests ==
  {[objs |-> <<"sync">>, type |-> "Any", mode |-> r[1], alertable |-> r[2],
    timeout |-> "None"] :
      r \in {<<KernelMode, TRUE>>, <<UserMode, FALSE>>, <<UserMode, TRUE>>}}
  \union {Delay("Finite"), Timed(Kernel(<<"sync">>, "All"), "Finite")}
OneThread == {t1}
=============================================================================
