-------------------------- MODULE DispatcherProofs --------------------------
(***************************************************************************)
(* Proofs about Dispatcher, for every set of threads and objects: its      *)
(* invariants, among them that no wakeup is lost and no interruption       *)
(* missed, and what its steps do: the order of wakeups, what a signal is   *)
(* worth, mutants, waits for all, and alerts.                              *)
(***************************************************************************)
EXTENDS Dispatcher, FiniteSetTheorems, FunctionTheorems, NaturalsInduction,
        WellFoundedInduction, TLAPS

StatusSet == [code : Codes, index : Nat, abandoned : BOOLEAN]

-----------------------------------------------------------------------------
(***************************************************************************)
(* The order of a wait list.                                               *)
(***************************************************************************)

LEMMA AnyAheadFinite ==
  ASSUME NEW o \in Object, NEW t \in Thread
  PROVE  /\ AnyAhead(o, t) \subseteq Thread
         /\ IsFiniteSet(AnyAhead(o, t))
         /\ Cardinality(AnyAhead(o, t)) \in Nat
<1>1. AnyAhead(o, t) \subseteq Thread /\ IsFiniteSet(Thread)
  BY DispatcherAssumption DEF AnyAhead, Ahead, DispatcherAssumption
<1> QED  BY <1>1, FS_Subset, FS_CardinalityType

(* A waiter that waits for any object has fewer such waiters ahead of it   *)
(* than each waiter behind it.                                             *)
LEMMA AnyAheadGrows ==
  ASSUME WaitListsMatchThreads, NEW o \in Object,
         NEW x \in Thread, NEW y \in Waiters(o), x \in AnyAhead(o, y)
  PROVE  /\ x \in Waiters(o)
         /\ Cardinality(AnyAhead(o, x)) < Cardinality(AnyAhead(o, y))
<1> DEFINE A == AnyAhead(o, x)
           B == AnyAhead(o, y)
<1>1. /\ y \in Thread /\ x # y /\ <<x, y>> \in waitList[o]
      /\ x \in Waiters(o)
  BY DEF AnyAhead, Ahead, WaitListsMatchThreads, Waiters
<1>2. A \subseteq B
  <2> SUFFICES ASSUME NEW u \in A PROVE u \in B
    OBVIOUS
  <2>1. u \in Thread /\ u # x /\ <<u, x>> \in waitList[o] /\ WaitsForAny(u)
    BY DEF AnyAhead, Ahead
  <2>2. u \in Waiters(o)
    BY <2>1 DEF WaitListsMatchThreads
  <2>3. <<u, y>> \in waitList[o]
    BY <1>1, <2>1, <2>2 DEF WaitListsMatchThreads
  <2>4. u # y
    BY <1>1, <2>1, <2>2 DEF WaitListsMatchThreads
  <2> QED  BY <2>1, <2>3, <2>4 DEF AnyAhead, Ahead
<1>3. x \in B /\ x \notin A
  BY DEF AnyAhead, Ahead
<1>4. /\ IsFiniteSet(B) /\ Cardinality(B) \in Nat
      /\ Cardinality(A) \in Nat
  BY <1>1, AnyAheadFinite
<1>5. Cardinality(A) <= Cardinality(B) /\ (Cardinality(A) = Cardinality(B) => A = B)
  BY <1>2, <1>4, FS_Subset
<1> QED  BY <1>1, <1>3, <1>4, <1>5

(* A wait test with state n gives the object to at most n waiters. *)
LEMMA TakersBound ==
  ASSUME WaitListsMatchThreads, NEW o \in Object, NEW n \in Nat,
         Kind[o] # "NotificationEvent"
  PROVE  /\ IsFiniteSet(Takers(Served(o, n)))
         /\ Cardinality(Takers(Served(o, n))) \in Nat
         /\ Cardinality(Takers(Served(o, n))) <= n
<1> DEFINE T == Takers(Served(o, n))
           f == [t \in T |-> Cardinality(AnyAhead(o, t))]
<1>1. T \subseteq Waiters(o) /\ T \subseteq Thread
  BY DEF Takers, Served, Waiters
<1>2. IsFiniteSet(T) /\ Cardinality(T) \in Nat
  BY <1>1, DispatcherAssumption, FS_Subset, FS_CardinalityType DEF DispatcherAssumption
<1>3. f \in [T -> 0..(n-1)]
  <2> SUFFICES ASSUME NEW t \in T PROVE Cardinality(AnyAhead(o, t)) \in 0..(n-1)
    OBVIOUS
  <2>1. Cardinality(AnyAhead(o, t)) \in Nat
    BY <1>1, AnyAheadFinite
  <2>2. Cardinality(AnyAhead(o, t)) < n
    BY DEF Takers, Served
  <2> QED  BY <2>1, <2>2
<1>4. ASSUME NEW x \in T, NEW y \in T, x # y PROVE f[x] # f[y]
  <2>1. x \in Thread /\ y \in Thread /\ x \in Waiters(o) /\ y \in Waiters(o)
    BY <1>1
  <2>2. WaitsForAny(x) /\ WaitsForAny(y)
    BY DEF Takers
  <2>3. /\ Cardinality(AnyAhead(o, x)) \in Nat
        /\ Cardinality(AnyAhead(o, y)) \in Nat
    BY <2>1, AnyAheadFinite
  <2>4. CASE <<x, y>> \in waitList[o]
    <3>1. x \in AnyAhead(o, y)
      BY <1>4, <2>1, <2>2, <2>4 DEF AnyAhead, Ahead
    <3>2. Cardinality(AnyAhead(o, x)) < Cardinality(AnyAhead(o, y))
      BY <2>1, <3>1, AnyAheadGrows
    <3> QED  BY <2>3, <3>2
  <2>5. CASE <<y, x>> \in waitList[o]
    <3>1. y \in AnyAhead(o, x)
      BY <1>4, <2>1, <2>2, <2>5 DEF AnyAhead, Ahead
    <3>2. Cardinality(AnyAhead(o, y)) < Cardinality(AnyAhead(o, x))
      BY <2>1, <3>1, AnyAheadGrows
    <3> QED  BY <2>3, <3>2
  <2> QED  BY <2>1, <2>4, <2>5 DEF WaitListsMatchThreads
<1>5. IsFiniteSet(0..(n-1)) /\ Cardinality(0..(n-1)) = n
  BY FS_Interval
<1>6. ~(n < Cardinality(T))
  <2> SUFFICES ASSUME n < Cardinality(T) PROVE FALSE
    OBVIOUS
  <2> HIDE DEF f
  <2>1. \E x, y \in T : x # y /\ f[x] = f[y]
    BY <1>2, <1>3, <1>5, FS_PigeonHole
  <2> QED  BY <1>4, <2>1
<1> QED  BY <1>2, <1>6

(* Among the members of a nonempty set some have the least value. *)
LEMMA LeastExists ==
  ASSUME NEW S, S # {}, NEW f \in [S -> Nat]
  PROVE  \E x \in S : \A y \in S : f[x] <= f[y]
<1> DEFINE R == StrictSubsetOrdering(Nat)
           T == {0..f[x] : x \in S}
<1>1. T \subseteq FiniteSubsetsOf(Nat) /\ T # {}
  <2> SUFFICES ASSUME NEW x \in S PROVE 0..f[x] \in FiniteSubsetsOf(Nat)
    OBVIOUS
  <2>1. f[x] \in Nat /\ IsFiniteSet(0..f[x])
    BY FS_Interval
  <2> QED  BY <2>1 DEF FiniteSubsetsOf
<1>2. IsWellFoundedOn(R, FiniteSubsetsOf(Nat))
  BY FS_StrictSubsetOrderingWellFounded
<1>3. PICK m \in T : \A k \in T : ~(<<k, m>> \in R)
  <2> HIDE DEF R, T
  <2> QED  BY <1>1, <1>2, WFMin
<1>4. PICK x \in S : m = 0..f[x]
  OBVIOUS
<1>5. ASSUME NEW y \in S PROVE f[x] <= f[y]
  <2> SUFFICES ASSUME f[y] < f[x] PROVE FALSE
    BY f[x] \in Nat, f[y] \in Nat
  <2>1. 0..f[y] \subseteq 0..f[x] /\ f[x] \notin 0..f[y] /\ f[x] \in 0..f[x]
    BY f[x] \in Nat, f[y] \in Nat
  <2>2. <<0..f[y], 0..f[x]>> \in R
    BY <2>1, f[x] \in Nat, f[y] \in Nat DEF StrictSubsetOrdering
  <2> QED  BY <1>3, <1>4, <2>2
<1> QED  BY <1>5

(* When a wait test leaves somebody blocked, the state was used up. *)
LEMMA TakersExhaust ==
  ASSUME WaitListsMatchThreads, NEW o \in Object, NEW n \in Nat,
         Kind[o] # "NotificationEvent",
         Waiters(o) \ Served(o, n) # {}
  PROVE  Cardinality(Takers(Served(o, n))) = n
<1> DEFINE U == Waiters(o) \ Served(o, n)
           T == Takers(Served(o, n))
           f == [t \in U |-> Cardinality(AnyAhead(o, t))]
<1>1. U \subseteq Thread
  BY DEF Waiters
<1>2. f \in [U -> Nat]
  BY <1>1, AnyAheadFinite
<1>3. PICK x \in U : \A y \in U : f[x] <= f[y]
  <2> HIDE DEF f, U
  <2> QED  BY <1>2, LeastExists DEF U
<1>4. x \in Thread /\ x \in Waiters(o) /\ Cardinality(AnyAhead(o, x)) >= n
  <2>1. x \in Thread /\ x \in Waiters(o) /\ x \notin Served(o, n)
    BY <1>1
  <2> QED  BY <2>1, AnyAheadFinite DEF Served
<1>5. AnyAhead(o, x) \subseteq T
  <2> SUFFICES ASSUME NEW u \in AnyAhead(o, x) PROVE u \in T
    OBVIOUS
  <2>1. u \in Thread /\ WaitsForAny(u)
    BY DEF AnyAhead, Ahead
  <2>2. u \in Waiters(o) /\ Cardinality(AnyAhead(o, u)) < Cardinality(AnyAhead(o, x))
    BY <1>4, <2>1, AnyAheadGrows
  <2>3. Cardinality(AnyAhead(o, u)) \in Nat /\ Cardinality(AnyAhead(o, x)) \in Nat
    BY <1>4, <2>1, AnyAheadFinite
  <2>4. u \notin U
    <3> SUFFICES ASSUME u \in U PROVE FALSE
      OBVIOUS
    <3>1. f[x] <= f[u]
      BY <1>3
    <3> QED  BY <2>2, <2>3, <3>1
  <2> QED  BY <2>1, <2>2, <2>4 DEF Takers
<1>6. /\ IsFiniteSet(T) /\ Cardinality(T) \in Nat /\ Cardinality(T) <= n
  BY TakersBound
<1>7. Cardinality(AnyAhead(o, x)) <= Cardinality(T)
  BY <1>5, <1>6, FS_Subset
<1>8. Cardinality(AnyAhead(o, x)) \in Nat
  BY <1>4, AnyAheadFinite
<1> QED  BY <1>4, <1>6, <1>7, <1>8
-----------------------------------------------------------------------------
(***************************************************************************)
(* What a wait test leaves behind.                                         *)
(***************************************************************************)
Inv ==
  /\ TypeOK
  /\ WaitListsMatchThreads
  /\ SignalInRange
  /\ MutantOwnership
  /\ NoLostWakeup

LEMMA WaitType ==
  ASSUME TypeOK, NEW t \in Thread
  PROVE  /\ wait[t] \in WaitRequest
         /\ wait[t].objs \in Seq(Object)
         /\ DOMAIN wait[t].objs \subseteq Nat \ {0}
         /\ Objects(t) \subseteq Object
<1>1. NoWait \in WaitRequest
  BY DEF NoWait, WaitRequest, Mode, KernelMode
<1>2. wait[t] \in WaitRequest
  BY <1>1, DispatcherAssumption DEF TypeOK, DispatcherAssumption
<1>3. wait[t].objs \in Seq(Object)
  BY <1>2 DEF WaitRequest
<1>4. DOMAIN wait[t].objs = 1..Len(wait[t].objs) /\ Len(wait[t].objs) \in Nat
  BY <1>3
<1>5. \A i \in DOMAIN wait[t].objs : wait[t].objs[i] \in Object
  BY <1>3
<1> QED  BY <1>2, <1>3, <1>4, <1>5 DEF Objects

LEMMA UnwaitType ==
  ASSUME TypeOK, NEW S \in SUBSET Thread, NEW st \in [S -> StatusSet],
         KiUnwaitThread(S, st)
  PROVE  /\ waitList' \in [Object -> SUBSET (Thread \X Thread)]
         /\ thread' \in [Thread -> ThreadState]
         /\ wait' \in [Thread -> Request \union {NoWait}]
         /\ status' \in [Thread -> StatusSet]
         /\ reached' \in [Thread -> BOOLEAN]
<1>1. waitList' \in [Object -> SUBSET (Thread \X Thread)]
  BY DEF TypeOK, KiUnwaitThread, KiUnlinkThread
<1>2. thread' \in [Thread -> ThreadState]
  BY DEF TypeOK, KiUnwaitThread, ThreadState
<1>3. wait' \in [Thread -> Request \union {NoWait}]
  BY DEF TypeOK, KiUnwaitThread
<1>4. status' \in [Thread -> StatusSet]
  BY DEF TypeOK, KiUnwaitThread, StatusSet
<1>5. reached' \in [Thread -> BOOLEAN]
  BY DEF TypeOK, KiUnwaitThread
<1> QED  BY <1>1, <1>2, <1>3, <1>4, <1>5

(* Unwaiting threads keeps lists and threads in step, and touches nobody   *)
(* else.                                                                   *)
LEMMA UnwaitKeepsLists ==
  ASSUME TypeOK, WaitListsMatchThreads,
         NEW S \in SUBSET Thread, NEW st \in [S -> StatusSet],
         \A t \in S : thread[t] = "Waiting",
         KiUnwaitThread(S, st)
  PROVE  /\ WaitListsMatchThreads'
         /\ \A t \in Thread \ S : thread'[t] = thread[t] /\ wait'[t] = wait[t]
         /\ \A t \in S : thread'[t] \in {"Running", "WaitLoop"}
         /\ \A t \in S : st[t] # Status("KernelApc") => thread'[t] = "Running"
         /\ \A o \in Object : Waiters(o)' = Waiters(o) \ S
<1>1. \A t \in Thread \ S : thread'[t] = thread[t] /\ wait'[t] = wait[t]
  BY DEF KiUnwaitThread
<1>2. \A t \in S : thread'[t] \in {"Running", "WaitLoop"}
  BY DEF KiUnwaitThread
<1>3. \A t \in S : st[t] # Status("KernelApc") => thread'[t] = "Running"
  BY DEF KiUnwaitThread
<1>4. \A o \in Object : waitList'[o] = waitList[o] \ ((S \X Thread) \union (Thread \X S))
  BY DEF KiUnwaitThread, KiUnlinkThread
<1>5. \A o \in Object : Waiters(o)' = Waiters(o) \ S
  BY <1>4 DEF Waiters
<1>6. ASSUME NEW o \in Object
      PROVE  /\ Waiters(o)' = {t \in Thread : thread'[t] = "Waiting" /\ o \in Objects(t)'}
             /\ waitList'[o] \subseteq Waiters(o)' \X Waiters(o)'
  <2>1. Waiters(o) = {t \in Thread : thread[t] = "Waiting" /\ o \in Objects(t)}
    BY DEF WaitListsMatchThreads
  <2>2. ASSUME NEW t \in Thread
        PROVE  (thread'[t] = "Waiting" /\ o \in Objects(t)')
                 <=> (t \notin S /\ thread[t] = "Waiting" /\ o \in Objects(t))
    BY <1>1, <1>2 DEF Objects
  <2>3. Waiters(o)' = {t \in Thread : thread'[t] = "Waiting" /\ o \in Objects(t)'}
    BY <1>5, <2>1, <2>2
  <2>4. waitList[o] \subseteq Waiters(o) \X Waiters(o)
    BY DEF WaitListsMatchThreads
  <2>5. Waiters(o) \subseteq Thread
    BY DEF Waiters
  <2> QED  BY <1>4, <1>5, <2>3, <2>4, <2>5
<1>7. ASSUME NEW o \in Object, NEW t \in Waiters(o)', NEW u \in Waiters(o)'
      PROVE  /\ <<t, u>> \in waitList'[o] \/ <<u, t>> \in waitList'[o]
             /\ <<t, u>> \in waitList'[o] /\ <<u, t>> \in waitList'[o] => t = u
             /\ \A v \in Waiters(o)' :
                  <<t, u>> \in waitList'[o] /\ <<u, v>> \in waitList'[o]
                    => <<t, v>> \in waitList'[o]
  <2>1. t \in Waiters(o) \ S /\ u \in Waiters(o) \ S
    BY <1>5
  <2>2. \A x, y \in Waiters(o) \ S : <<x, y>> \in waitList'[o] <=> <<x, y>> \in waitList[o]
    BY <1>4 DEF Waiters
  <2>3. /\ <<t, u>> \in waitList[o] \/ <<u, t>> \in waitList[o]
        /\ <<t, u>> \in waitList[o] /\ <<u, t>> \in waitList[o] => t = u
        /\ \A v \in Waiters(o) :
             <<t, u>> \in waitList[o] /\ <<u, v>> \in waitList[o]
               => <<t, v>> \in waitList[o]
    BY <2>1 DEF WaitListsMatchThreads
  <2>4. \A v \in Waiters(o)' : v \in Waiters(o) \ S
    BY <1>5
  <2> HIDE DEF Waiters
  <2> QED  BY <2>1, <2>2, <2>3, <2>4
<1>8. WaitListsMatchThreads'
  BY <1>6, <1>7 DEF WaitListsMatchThreads
<1> QED  BY <1>1, <1>2, <1>3, <1>5, <1>8

(* The status function of a wait test is a function to statuses. *)
LEMMA WaitTestStatus ==
  ASSUME TypeOK, WaitListsMatchThreads, NEW o \in Object,
         NEW S \in SUBSET Waiters(o), NEW ab \in BOOLEAN
  PROVE  /\ S \subseteq Thread
         /\ \A t \in S : thread[t] = "Waiting"
         /\ [t \in S |-> IF t \in Takers(S) THEN Satisfied(IndexOf(t, o) - 1, ab)
                                            ELSE Status("KernelApc")] \in [S -> StatusSet]
<1>1. S \subseteq Thread /\ \A t \in S : thread[t] = "Waiting" /\ o \in Objects(t)
  BY DEF WaitListsMatchThreads
<1>2. ASSUME NEW t \in S PROVE Satisfied(IndexOf(t, o) - 1, ab) \in StatusSet
  <2>1. \E i \in DOMAIN wait[t].objs : wait[t].objs[i] = o
    BY <1>1 DEF Objects
  <2>2. IndexOf(t, o) \in DOMAIN wait[t].objs
    BY <2>1 DEF IndexOf
  <2>3. IndexOf(t, o) \in Nat \ {0}
    BY <1>1, <2>2, WaitType
  <2> QED  BY <2>3 DEF Satisfied, StatusSet, Codes
<1>3. Status("KernelApc") \in StatusSet
  BY DEF Status, StatusSet, Codes
<1> QED  BY <1>1, <1>2, <1>3

(* The signal state after a wait test: within its range, 0 when somebody   *)
(* stays blocked, and 0 for a mutant exactly when it was given away.       *)
LEMMA StateAfterTest ==
  ASSUME WaitListsMatchThreads, NEW o \in Object, NEW n \in Nat \ {0},
         Kind[o] = "Semaphore" \/ n = 1
  PROVE  LET S == Served(o, n) IN
         /\ StateAfter(o, n, S) \in 0..n
         /\ Waiters(o) # S => StateAfter(o, n, S) = 0
         /\ IsMutant(o) => (Takers(S) = {} <=> StateAfter(o, n, S) = 1)
<1> DEFINE S == Served(o, n)
           T == Takers(S)
           k == Cardinality(T)
<1>1. Kind[o] \in Kinds
  BY DispatcherAssumption DEF DispatcherAssumption
<1>2. S \subseteq Waiters(o)
  BY DEF Served
<1>3. CASE Kind[o] = "NotificationEvent"
  <2>1. S = Waiters(o)
    BY <1>3 DEF Served
  <2>2. StateAfter(o, n, S) = n
    BY <1>3 DEF StateAfter, KiWaitSatisfyAny
  <2> QED  BY <1>3, <2>1, <2>2 DEF IsMutant
<1>4. CASE Kind[o] # "NotificationEvent"
  <2>1. IsFiniteSet(T) /\ k \in Nat /\ k <= n
    BY <1>4, TakersBound
  <2>2. k = 0 <=> T = {}
    BY <2>1, FS_EmptySet
  <2>3. Waiters(o) # S => k = n
    BY <1>2, <1>4, TakersExhaust
  <2> HIDE DEF T
  <2>4. CASE Kind[o] = "SynchronizationEvent"
    BY <2>1, <2>2, <2>3, <2>4 DEF StateAfter, KiWaitSatisfyAny, IsMutant, k, T
  <2>5. CASE Kind[o] \in {"Semaphore", "Mutant"}
    <3>1. StateAfter(o, n, S) = n - k
      BY <2>1, <2>5 DEF StateAfter, KiWaitSatisfyAny, T
    <3> HIDE DEF k
    <3>2. IsMutant(o) => n = 1
      BY DEF IsMutant
    <3> QED  BY <2>1, <2>2, <2>3, <3>1, <3>2 DEF T
  <2> QED  BY <1>1, <1>4, <2>4, <2>5 DEF Kinds
<1> QED  BY <1>3, <1>4

(***************************************************************************)
(* A wait test by a caller that has set the state of o to n and that holds *)
(* on to nothing of o keeps the invariant.                                 *)
(***************************************************************************)
LEMMA WaitTestKeepsInv ==
  ASSUME Inv, NEW o \in Object, NEW n \in Nat \ {0}, NEW ab \in BOOLEAN,
         IF Kind[o] = "Semaphore" THEN n <= Limit[o] ELSE n = 1,
         signal' = [signal EXCEPT ![o] = StateAfter(o, n, Served(o, n))],
         KiWaitTest(o, ab, Served(o, n)),
         UNCHANGED <<apcVars, alerted>>,
         lock' \in Thread \union {NoThread}
  PROVE  Inv'
<1> DEFINE S == Served(o, n)
           T == Takers(S)
           st == [t \in S |-> IF t \in T THEN Satisfied(IndexOf(t, o) - 1, ab)
                                         ELSE Status("KernelApc")]
<1>0. /\ TypeOK /\ WaitListsMatchThreads /\ SignalInRange
      /\ MutantOwnership /\ NoLostWakeup
  BY DEF Inv
<1>1. S \subseteq Waiters(o) /\ T \subseteq S
  BY DEF Served, Takers
<1>2. /\ S \subseteq Thread /\ \A t \in S : thread[t] = "Waiting"
      /\ st \in [S -> StatusSet]
  BY <1>0, <1>1, WaitTestStatus
<1>3. KiUnwaitThread(S, st)
  BY DEF KiWaitTest
<1>4. /\ waitList' \in [Object -> SUBSET (Thread \X Thread)]
      /\ thread' \in [Thread -> ThreadState]
      /\ wait' \in [Thread -> Request \union {NoWait}]
      /\ status' \in [Thread -> StatusSet]
      /\ reached' \in [Thread -> BOOLEAN]
  <2> HIDE DEF S, st
  <2> QED  BY <1>0, <1>2, <1>3, UnwaitType
<1>5. /\ WaitListsMatchThreads'
      /\ \A t \in Thread \ S : thread'[t] = thread[t] /\ wait'[t] = wait[t]
      /\ \A t \in S : thread'[t] \in {"Running", "WaitLoop"}
      /\ \A x \in Object : Waiters(x)' = Waiters(x) \ S
  <2> HIDE DEF S, st
  <2> QED  BY <1>0, <1>2, <1>3, UnwaitKeepsLists
<1>6. /\ StateAfter(o, n, S) \in 0..n
      /\ Waiters(o) # S => StateAfter(o, n, S) = 0
      /\ IsMutant(o) => (T = {} <=> StateAfter(o, n, S) = 1)
  <2>1. Kind[o] = "Semaphore" \/ n = 1
    OBVIOUS
  <2> QED  BY <1>0, <2>1, StateAfterTest
<1>7. /\ signal'[o] = StateAfter(o, n, S)
      /\ \A x \in Object \ {o} : signal'[x] = signal[x]
      /\ signal' \in [Object -> Int]
  BY <1>0, <1>6 DEF TypeOK
<1>8. /\ owner'[o] = IF IsMutant(o) /\ T # {} THEN CHOOSE t \in T : TRUE ELSE NoThread
      /\ \A x \in Object \ {o} : owner'[x] = owner[x]
      /\ owner'[o] \in T \union {NoThread}
      /\ owner' \in [Object -> Thread \union {NoThread}]
  BY <1>0, <1>1, <1>2 DEF KiWaitTest, TypeOK
<1>9. /\ abandoned'[o] = (ab /\ T = {})
      /\ \A x \in Object \ {o} : abandoned'[x] = abandoned[x]
      /\ abandoned' \in [Object -> BOOLEAN]
  BY <1>0 DEF KiWaitTest, TypeOK
<1> HIDE DEF S, T, st
<1>10. TypeOK'
  BY <1>0, <1>4, <1>7, <1>8, <1>9 DEF TypeOK, StatusSet, apcVars
<1>11. SignalInRange'
  <2> SUFFICES ASSUME NEW x \in Object
               PROVE  signal'[x] \in CASE Kind[x] = "Mutant"    -> MINLONG..1
                                       [] Kind[x] = "Semaphore" -> 0..Limit[x]
                                       [] OTHER                 -> 0..1
    BY DEF SignalInRange
  <2>1. CASE x # o
    BY <1>0, <1>7, <2>1 DEF SignalInRange
  <2>2. CASE x = o
    BY <1>6, <1>7, <2>2, DispatcherAssumption DEF DispatcherAssumption, MINLONG
  <2> QED  BY <2>1, <2>2
<1>12. MutantOwnership'
  <2> SUFFICES ASSUME NEW x \in Object, IsMutant(x)
               PROVE  /\ owner'[x] = NoThread <=> signal'[x] = 1
                      /\ abandoned'[x] => owner'[x] = NoThread
                      /\ owner'[x] # NoThread => thread'[owner'[x]] # "Terminated"
    BY DEF MutantOwnership
  <2>1. NoThread \notin Thread
    BY DispatcherAssumption DEF DispatcherAssumption
  <2>2. CASE x # o
    <3>1. /\ owner'[x] = owner[x] /\ signal'[x] = signal[x] /\ abandoned'[x] = abandoned[x]
          /\ owner[x] \in Thread \union {NoThread}
      BY <1>0, <1>7, <1>8, <1>9, <2>2 DEF TypeOK
    <3> QED  BY <1>0, <1>5, <3>1 DEF MutantOwnership
  <2>3. CASE x = o
    <3>1. CASE T = {}
      BY <1>6, <1>7, <1>8, <1>9, <2>3, <3>1
    <3>2. CASE T # {}
      <4>1. owner'[o] \in T
        BY <1>8, <2>3, <3>2
      <4> QED  BY <1>1, <1>2, <1>5, <1>6, <1>7, <1>9, <2>1, <2>3, <3>2, <4>1
    <3> QED  BY <3>1, <3>2
  <2> QED  BY <2>2, <2>3
<1>13. NoLostWakeup'
  <2> SUFFICES ASSUME NEW t \in Thread, thread'[t] = "Waiting"
               PROVE  IF WaitsForAny(t)' THEN \A x \in Objects(t)' : ~CanTake(t, x)'
                                         ELSE \E x \in Objects(t)' : ~CanTake(t, x)'
    BY DEF NoLostWakeup
  <2>1. t \notin S /\ thread[t] = "Waiting" /\ wait'[t] = wait[t]
    BY <1>5
  <2>2. (WaitsForAny(t)' <=> WaitsForAny(t)) /\ Objects(t)' = Objects(t)
    BY <2>1 DEF WaitsForAny, Objects
  <2>3. Objects(t) \subseteq Object
    BY <1>0, WaitType
  <2>4. ASSUME NEW x \in Objects(t), ~CanTake(t, x) PROVE ~CanTake(t, x)'
    <3>1. CASE x # o
      BY <1>7, <1>8, <2>3, <2>4, <3>1 DEF CanTake, IsMutant
    <3>2. CASE x = o
      <4>1. t \in Waiters(o)
        BY <1>0, <2>1, <2>4, <3>2 DEF WaitListsMatchThreads
      <4>2. signal'[o] = 0
        BY <1>6, <1>7, <2>1, <4>1
      <4>3. owner'[o] # t
        BY <1>1, <1>8, <2>1, DispatcherAssumption DEF DispatcherAssumption
      <4> QED  BY <3>2, <4>2, <4>3 DEF CanTake, IsMutant
    <3> QED  BY <3>1, <3>2
  <2> QED  BY <1>0, <2>1, <2>2, <2>4 DEF NoLostWakeup
<1> QED  BY <1>5, <1>10, <1>11, <1>12, <1>13 DEF Inv
-----------------------------------------------------------------------------
(***************************************************************************)
(* Steps that leave parts of the state alone keep the parts of the         *)
(* invariant about them.                                                   *)
(***************************************************************************)
LEMMA ListsFrame ==
  ASSUME WaitListsMatchThreads, waitList' = waitList,
         \A t \in Thread : thread'[t] = "Waiting" <=> thread[t] = "Waiting",
         \A t \in Thread : thread[t] = "Waiting" => wait'[t] = wait[t]
  PROVE  WaitListsMatchThreads'
<1>1. ASSUME NEW o \in Object
      PROVE  /\ Waiters(o)' = Waiters(o)
             /\ Waiters(o) = {t \in Thread : thread'[t] = "Waiting" /\ o \in Objects(t)'}
  <2>1. Waiters(o)' = Waiters(o)
    BY DEF Waiters
  <2>2. Waiters(o) = {t \in Thread : thread[t] = "Waiting" /\ o \in Objects(t)}
    BY DEF WaitListsMatchThreads
  <2>3. \A t \in Thread : thread[t] = "Waiting" => Objects(t)' = Objects(t)
    BY DEF Objects
  <2> QED  BY <2>1, <2>2, <2>3
<1>2. ASSUME NEW o \in Object, NEW t \in Waiters(o)', NEW u \in Waiters(o)'
      PROVE  /\ <<t, u>> \in waitList'[o] \/ <<u, t>> \in waitList'[o]
             /\ <<t, u>> \in waitList'[o] /\ <<u, t>> \in waitList'[o] => t = u
             /\ \A v \in Waiters(o)' :
                  <<t, u>> \in waitList'[o] /\ <<u, v>> \in waitList'[o]
                    => <<t, v>> \in waitList'[o]
  <2>1. t \in Waiters(o) /\ u \in Waiters(o) /\ Waiters(o)' = Waiters(o)
    BY <1>1
  <2>2. /\ <<t, u>> \in waitList[o] \/ <<u, t>> \in waitList[o]
        /\ <<t, u>> \in waitList[o] /\ <<u, t>> \in waitList[o] => t = u
        /\ \A v \in Waiters(o) :
             <<t, u>> \in waitList[o] /\ <<u, v>> \in waitList[o]
               => <<t, v>> \in waitList[o]
    BY <2>1 DEF WaitListsMatchThreads
  <2> HIDE DEF Waiters
  <2> QED  BY <2>1, <2>2
<1>3. ASSUME NEW o \in Object
      PROVE  waitList'[o] \subseteq Waiters(o)' \X Waiters(o)'
  BY <1>1 DEF WaitListsMatchThreads
<1>4. ASSUME NEW o \in Object
      PROVE  Waiters(o)' = {t \in Thread : thread'[t] = "Waiting" /\ o \in Objects(t)'}
  BY <1>1
<1> QED  BY <1>2, <1>3, <1>4 DEF WaitListsMatchThreads

LEMMA WakeupFrame ==
  ASSUME TypeOK, NoLostWakeup,
         \A t \in Thread : thread'[t] = "Waiting" =>
            thread[t] = "Waiting" /\ wait'[t] = wait[t],
         \A x \in Object : signal'[x] > 0 => signal[x] > 0,
         \A x \in Object, t \in Thread :
            thread'[t] = "Waiting" /\ owner'[x] = t => owner[x] = t
  PROVE  NoLostWakeup'
<1> SUFFICES ASSUME NEW t \in Thread, thread'[t] = "Waiting"
             PROVE  IF WaitsForAny(t)' THEN \A x \in Objects(t)' : ~CanTake(t, x)'
                                       ELSE \E x \in Objects(t)' : ~CanTake(t, x)'
  BY DEF NoLostWakeup
<1>1. thread[t] = "Waiting" /\ wait'[t] = wait[t]
  OBVIOUS
<1>2. (WaitsForAny(t)' <=> WaitsForAny(t)) /\ Objects(t)' = Objects(t)
  BY <1>1 DEF WaitsForAny, Objects
<1>3. Objects(t) \subseteq Object
  BY WaitType
<1>4. \A x \in Objects(t) : ~CanTake(t, x) => ~CanTake(t, x)'
  BY <1>3 DEF CanTake, IsMutant
<1> QED  BY <1>1, <1>2, <1>4 DEF NoLostWakeup

LEMMA OwnershipFrame ==
  ASSUME TypeOK, MutantOwnership,
         \A x \in Object : IsMutant(x) =>
            signal'[x] = signal[x] /\ owner'[x] = owner[x] /\ abandoned'[x] = abandoned[x],
         \A t \in Thread : thread'[t] = "Terminated" => thread[t] = "Terminated"
  PROVE  MutantOwnership'
  BY DEF TypeOK, MutantOwnership, IsMutant

LEMMA RangeFrame ==
  ASSUME SignalInRange, signal' = signal
  PROVE  SignalInRange'
  BY DEF SignalInRange

(* Unwaiting threads, whatever the reason, with the objects left alone. *)
LEMMA UnwaitKeepsInv ==
  ASSUME Inv, NEW S \in SUBSET Thread, NEW st \in [S -> StatusSet],
         \A t \in S : thread[t] = "Waiting",
         KiUnwaitThread(S, st),
         UNCHANGED <<signal, owner, abandoned>>
  PROVE  /\ waitList' \in [Object -> SUBSET (Thread \X Thread)]
         /\ thread' \in [Thread -> ThreadState]
         /\ wait' \in [Thread -> Request \union {NoWait}]
         /\ status' \in [Thread -> StatusSet]
         /\ reached' \in [Thread -> BOOLEAN]
         /\ WaitListsMatchThreads' /\ SignalInRange'
         /\ MutantOwnership' /\ NoLostWakeup'
<1>0. /\ TypeOK /\ WaitListsMatchThreads /\ SignalInRange
      /\ MutantOwnership /\ NoLostWakeup
  BY DEF Inv
<1>1. /\ waitList' \in [Object -> SUBSET (Thread \X Thread)]
      /\ thread' \in [Thread -> ThreadState]
      /\ wait' \in [Thread -> Request \union {NoWait}]
      /\ status' \in [Thread -> StatusSet]
      /\ reached' \in [Thread -> BOOLEAN]
  BY <1>0, UnwaitType
<1>2. /\ WaitListsMatchThreads'
      /\ \A t \in Thread \ S : thread'[t] = thread[t] /\ wait'[t] = wait[t]
      /\ \A t \in S : thread'[t] \in {"Running", "WaitLoop"}
  BY <1>0, UnwaitKeepsLists
<1>3. SignalInRange'
  BY <1>0, RangeFrame
<1>4. MutantOwnership'
  BY <1>0, <1>2, OwnershipFrame
<1>5. NoLostWakeup'
  BY <1>0, <1>2, WakeupFrame
<1> QED  BY <1>1, <1>2, <1>3, <1>4, <1>5

(* A step that leaves the objects alone and blocks or unblocks nobody. *)
LEMMA QuietKeepsInv ==
  ASSUME Inv, UNCHANGED objectVars,
         \A t \in Thread : thread'[t] = "Waiting" <=> thread[t] = "Waiting",
         \A t \in Thread : thread[t] = "Waiting" => wait'[t] = wait[t],
         \A t \in Thread : thread'[t] = "Terminated" => thread[t] = "Terminated"
  PROVE  /\ WaitListsMatchThreads' /\ SignalInRange'
         /\ MutantOwnership' /\ NoLostWakeup'
<1>0. /\ TypeOK /\ WaitListsMatchThreads /\ SignalInRange
      /\ MutantOwnership /\ NoLostWakeup /\ UNCHANGED <<signal, owner, abandoned, waitList>>
  BY DEF Inv, objectVars
<1>1. WaitListsMatchThreads'
  BY <1>0, ListsFrame
<1>2. SignalInRange'
  BY <1>0, RangeFrame
<1>3. MutantOwnership'
  BY <1>0, OwnershipFrame
<1>4. NoLostWakeup'
  BY <1>0, WakeupFrame
<1> QED  BY <1>1, <1>2, <1>3, <1>4

-----------------------------------------------------------------------------
(***************************************************************************)
(* The signalling actions.                                                 *)
(***************************************************************************)

(* Waking waiters of o without making o signaled when it was not. *)
LEMMA SettledTest ==
  ASSUME Inv, NEW o \in Object, ~IsMutant(o), NEW S \in SUBSET Waiters(o),
         NEW n \in IF Kind[o] = "Semaphore" THEN 0..Limit[o] ELSE 0..1,
         n > 0 => signal[o] > 0,
         signal' = [signal EXCEPT ![o] = n],
         KiWaitTest(o, FALSE, S),
         UNCHANGED <<apcVars, alerted>>,
         lock' \in Thread \union {NoThread}
  PROVE  Inv'
<1> DEFINE T == Takers(S)
           st == [t \in S |-> IF t \in T THEN Satisfied(IndexOf(t, o) - 1, FALSE)
                                         ELSE Status("KernelApc")]
<1>0. /\ TypeOK /\ WaitListsMatchThreads /\ SignalInRange
      /\ MutantOwnership /\ NoLostWakeup
  BY DEF Inv
<1>1. /\ S \subseteq Thread /\ \A t \in S : thread[t] = "Waiting"
      /\ st \in [S -> StatusSet]
  BY <1>0, WaitTestStatus
<1>2. KiUnwaitThread(S, st)
  BY DEF KiWaitTest
<1>3. /\ waitList' \in [Object -> SUBSET (Thread \X Thread)]
      /\ thread' \in [Thread -> ThreadState]
      /\ wait' \in [Thread -> Request \union {NoWait}]
      /\ status' \in [Thread -> StatusSet]
      /\ reached' \in [Thread -> BOOLEAN]
  <2> HIDE DEF st
  <2> QED  BY <1>0, <1>1, <1>2, UnwaitType
<1>4. /\ WaitListsMatchThreads'
      /\ \A t \in Thread \ S : thread'[t] = thread[t] /\ wait'[t] = wait[t]
      /\ \A t \in S : thread'[t] \in {"Running", "WaitLoop"}
  <2> HIDE DEF st
  <2> QED  BY <1>0, <1>1, <1>2, UnwaitKeepsLists
<1>5. /\ signal'[o] = n /\ n \in Int
      /\ \A x \in Object \ {o} : signal'[x] = signal[x]
      /\ signal' \in [Object -> Int]
  <2>1. n \in Int
    BY DispatcherAssumption DEF DispatcherAssumption
  <2> QED  BY <1>0, <2>1 DEF TypeOK
<1>6. /\ owner'[o] = NoThread
      /\ \A x \in Object \ {o} : owner'[x] = owner[x]
      /\ owner' \in [Object -> Thread \union {NoThread}]
  BY <1>0 DEF KiWaitTest, TypeOK
<1>7. /\ \A x \in Object \ {o} : abandoned'[x] = abandoned[x]
      /\ abandoned' \in [Object -> BOOLEAN]
  BY <1>0 DEF KiWaitTest, TypeOK
<1> HIDE DEF T, st
<1>8. TypeOK'
  BY <1>0, <1>3, <1>5, <1>6, <1>7 DEF TypeOK, StatusSet, apcVars
<1>9. SignalInRange'
  <2> SUFFICES ASSUME NEW x \in Object
               PROVE  signal'[x] \in CASE Kind[x] = "Mutant"    -> MINLONG..1
                                       [] Kind[x] = "Semaphore" -> 0..Limit[x]
                                       [] OTHER                 -> 0..1
    BY DEF SignalInRange
  <2>1. CASE x # o
    BY <1>0, <1>5, <2>1 DEF SignalInRange
  <2>2. CASE x = o
    BY <1>5, <2>2 DEF IsMutant
  <2> QED  BY <2>1, <2>2
<1>10. MutantOwnership'
  BY <1>0, <1>4, <1>5, <1>6, <1>7, OwnershipFrame
<1>11. NoLostWakeup'
  <2>1. \A x \in Object : signal'[x] > 0 => signal[x] > 0
    BY <1>5
  <2>2. \A x \in Object, t \in Thread :
           thread'[t] = "Waiting" /\ owner'[x] = t => owner[x] = t
    BY <1>6, DispatcherAssumption DEF DispatcherAssumption
  <2>3. \A t \in Thread : thread'[t] = "Waiting" => thread[t] = "Waiting" /\ wait'[t] = wait[t]
    BY <1>4
  <2> QED  BY <1>0, <2>1, <2>2, <2>3, WakeupFrame
<1> QED  BY <1>4, <1>8, <1>9, <1>10, <1>11 DEF Inv

LEMMA UnlockType ==
  ASSUME NEW t \in Thread, NEW w \in BOOLEAN, UnlockUnlessWait(t, w)
  PROVE  lock' \in Thread \union {NoThread}
  BY DEF UnlockUnlessWait

(* An event is never a mutant or a semaphore, and its state is 0 or 1. *)
LEMMA EventState ==
  ASSUME Inv, NEW o \in Object, IsEvent(o)
  PROVE  /\ ~IsMutant(o) /\ Kind[o] # "Semaphore"
         /\ signal[o] \in 0..1
<1>1. SignalInRange
  BY DEF Inv
<1>2. ~IsMutant(o) /\ Kind[o] # "Semaphore" /\ Kind[o] # "Mutant"
  BY DEF IsEvent, IsMutant
<1> QED  BY <1>1, <1>2 DEF SignalInRange

LEMMA StateAfterNone ==
  ASSUME NEW o \in Object, NEW n
  PROVE  StateAfter(o, n, {}) = n
<1>1. Takers({}) = {} /\ Cardinality({}) = 0
  BY FS_EmptySet DEF Takers
<1> QED  BY <1>1 DEF StateAfter, KiWaitSatisfyAny

LEMMA SetEventKeepsInv ==
  ASSUME Inv, NEW t \in Thread, NEW o \in Object, NEW w \in BOOLEAN,
         KeSetEvent(t, o, w)
  PROVE  Inv'
<1>1. IsEvent(o) /\ lock' \in Thread \union {NoThread} /\ UNCHANGED <<apcVars, alerted>>
  BY UnlockType DEF KeSetEvent
<1>2. ~IsMutant(o) /\ Kind[o] # "Semaphore" /\ signal[o] \in 0..1
  BY <1>1, EventState
<1>3. CASE signal[o] = 0
  <2>1. /\ signal' = [signal EXCEPT ![o] = StateAfter(o, 1, Served(o, 1))]
        /\ KiWaitTest(o, FALSE, Served(o, 1))
    BY <1>3 DEF KeSetEvent
  <2>2. FALSE \in BOOLEAN /\ 1 \in Nat \ {0} /\ (Kind[o] = "Semaphore" => 1 <= Limit[o])
    BY <1>2
  <2> QED  BY <1>1, <1>2, <2>1, <2>2, WaitTestKeepsInv
<1>4. CASE signal[o] # 0
  <2>1. /\ signal' = [signal EXCEPT ![o] = StateAfter(o, 1, {})]
        /\ KiWaitTest(o, FALSE, {})
    BY <1>4 DEF KeSetEvent
  <2>2. signal' = [signal EXCEPT ![o] = 1]
    BY <2>1, StateAfterNone
  <2>3. /\ signal[o] > 0 /\ {} \in SUBSET Waiters(o)
        /\ 1 \in IF Kind[o] = "Semaphore" THEN 0..Limit[o] ELSE 0..1
    BY <1>2, <1>4
  <2> QED  BY <1>1, <1>2, <2>1, <2>2, <2>3, SettledTest
<1> QED  BY <1>3, <1>4

LEMMA PulseEventKeepsInv ==
  ASSUME Inv, NEW t \in Thread, NEW o \in Object, NEW w \in BOOLEAN,
         \/ KePulseEvent(t, o, w)
         \/ \E c \in Thread : KePulseEventRacingClear(t, c, o, w)
  PROVE  Inv'
<1>1. /\ IsEvent(o) /\ lock' \in Thread \union {NoThread} /\ UNCHANGED <<apcVars, alerted>>
      /\ signal' = [signal EXCEPT ![o] = 0]
  BY UnlockType DEF KePulseEvent, KePulseEventRacingClear
<1>2. ~IsMutant(o) /\ Kind[o] # "Semaphore"
  BY <1>1, EventState
<1>3. PICK S \in SUBSET Waiters(o) : KiWaitTest(o, FALSE, S)
  <2>1. Served(o, 1) \subseteq Waiters(o)
    BY DEF Served
  <2>2. CASE KePulseEvent(t, o, w)
    BY <2>1, <2>2 DEF KePulseEvent
  <2>3. CASE \E c \in Thread : KePulseEventRacingClear(t, c, o, w)
    BY <2>1, <2>3 DEF KePulseEventRacingClear
  <2> QED  BY <2>2, <2>3
<1>4. /\ 0 \in IF Kind[o] = "Semaphore" THEN 0..Limit[o] ELSE 0..1
      /\ ~(0 > 0)
  BY <1>2
<1> QED  BY <1>1, <1>2, <1>3, <1>4, SettledTest

LEMMA ClearEventKeepsInv ==
  ASSUME Inv, NEW t \in Thread, NEW o \in Object,
         KeResetEvent(t, o) \/ KeClearEvent(t, o)
  PROVE  Inv'
<1>0. /\ TypeOK /\ WaitListsMatchThreads /\ SignalInRange
      /\ MutantOwnership /\ NoLostWakeup
  BY DEF Inv
<1>1. /\ IsEvent(o) /\ signal' = [signal EXCEPT ![o] = 0]
      /\ UNCHANGED <<owner, abandoned, waitList, waitVars, apcVars, alerted, lock>>
  BY DEF KeResetEvent, KeClearEvent
<1>2. ~IsMutant(o) /\ Kind[o] # "Semaphore"
  BY <1>1, EventState
<1>3. UNCHANGED <<thread, wait, status, reached, owner, abandoned, waitList>>
  BY <1>1 DEF waitVars
<1>4. signal'[o] = 0 /\ \A x \in Object \ {o} : signal'[x] = signal[x]
  BY <1>0, <1>1 DEF TypeOK
<1>5. TypeOK'
  BY <1>0, <1>1, <1>3 DEF TypeOK, apcVars
<1>6. SignalInRange'
  BY <1>0, <1>2, <1>4 DEF SignalInRange, IsMutant
<1>7. WaitListsMatchThreads'
  BY <1>0, <1>3, ListsFrame
<1>8. MutantOwnership'
  BY <1>0, <1>2, <1>3, <1>4, OwnershipFrame
<1>9. NoLostWakeup'
  <2>1. \A x \in Object : signal'[x] > 0 => signal[x] > 0
    BY <1>4
  <2> QED  BY <1>0, <1>3, <2>1, WakeupFrame
<1> QED  BY <1>5, <1>6, <1>7, <1>8, <1>9 DEF Inv

LEMMA BoostKeepsInv ==
  ASSUME Inv, NEW t \in Thread, NEW o \in Object, KeSetEventBoostPriority(t, o)
  PROVE  Inv'
<1>0. /\ TypeOK /\ WaitListsMatchThreads
      /\ UNCHANGED <<apcVars, alerted, lock>> /\ lock' \in Thread \union {NoThread}
      /\ Kind[o] = "SynchronizationEvent"
  BY DispatcherAssumption DEF Inv, KeSetEventBoostPriority, TypeOK, DispatcherAssumption
<1>1. CASE /\ signal' = [signal EXCEPT ![o] = StateAfter(o, 1, Served(o, 1))]
           /\ KiWaitTest(o, FALSE, Served(o, 1))
  <2>1. FALSE \in BOOLEAN /\ 1 \in Nat \ {0} /\ (Kind[o] = "Semaphore" => 1 <= Limit[o])
    BY <1>0
  <2> QED  BY <1>0, <1>1, <2>1, WaitTestKeepsInv
<1>2. ASSUME NEW u \in Thread, IsFirst(o, u),
             KiUnwaitThread({u}, [x \in {u} |-> Satisfied(0, FALSE)]),
             UNCHANGED <<signal, owner, abandoned>>
      PROVE  Inv'
  <2> DEFINE st == [x \in {u} |-> Satisfied(0, FALSE)]
  <2>1. thread[u] = "Waiting"
    BY <1>0, <1>2 DEF IsFirst, WaitListsMatchThreads
  <2>2. Satisfied(0, FALSE) \in StatusSet
    BY DEF Satisfied, StatusSet, Codes
  <2>3. {u} \in SUBSET Thread /\ st \in [{u} -> StatusSet] /\ KiUnwaitThread({u}, st)
        /\ \A x \in {u} : thread[x] = "Waiting"
    BY <1>2, <2>1, <2>2
  <2> HIDE DEF st
  <2>4. /\ waitList' \in [Object -> SUBSET (Thread \X Thread)]
        /\ thread' \in [Thread -> ThreadState]
        /\ wait' \in [Thread -> Request \union {NoWait}]
        /\ status' \in [Thread -> StatusSet]
        /\ reached' \in [Thread -> BOOLEAN]
        /\ WaitListsMatchThreads' /\ SignalInRange'
        /\ MutantOwnership' /\ NoLostWakeup'
    BY <1>2, <2>3, UnwaitKeepsInv
  <2>5. TypeOK'
    BY <1>0, <1>2, <2>4 DEF TypeOK, StatusSet, apcVars
  <2> QED  BY <2>4, <2>5 DEF Inv
<1> QED  BY <1>1, <1>2 DEF KeSetEventBoostPriority

(* The remainder of a number at most once above the modulus. *)
LEMMA ModAbove ==
  ASSUME NEW m \in Nat \ {0}, NEW x \in m .. (2 * m - 1)
  PROVE  x % m = x - m
<1> DEFINE d == x \div m
           r == x % m
<1>1. x \in Int /\ d \in Int /\ r \in 0..(m - 1) /\ x = m * d + r
  OBVIOUS
<1> HIDE DEF d, r
<1>2. ~(d <= 0)
  <2> SUFFICES ASSUME d <= 0 PROVE FALSE
    OBVIOUS
  <2>1. m * d <= 0
    BY <1>1
  <2> QED  BY <1>1, <2>1
<1>3. ~(d >= 2)
  <2> SUFFICES ASSUME d >= 2 PROVE FALSE
    OBVIOUS
  <2>1. m * d >= m * 2
    BY <1>1
  <2> QED  BY <1>1, <2>1
<1>4. d = 1
  BY <1>1, <1>2, <1>3
<1> QED  BY <1>1, <1>4 DEF r

LEMMA ToLongType ==
  ASSUME NEW n \in Int
  PROVE  ToLong(n) \in Int
  BY DispatcherAssumption DEF DispatcherAssumption, ToLong, MINLONG

(* A count that passes MAXLONG once wraps around. *)
LEMMA ToLongAbove ==
  ASSUME NEW n \in (LongMax + 1) .. (2 * LongMax)
  PROVE  ToLong(n) = n - 2 * (LongMax + 1)
<1> DEFINE m == 2 * (LongMax + 1)
           x == n - MINLONG
<1>1. LongMax \in Nat \ {0}
  BY DispatcherAssumption DEF DispatcherAssumption
<1>2. m \in Nat \ {0} /\ x \in m .. (2 * m - 1) /\ MINLONG \in Int /\ n \in Int
      /\ x = n - MINLONG
  BY <1>1 DEF MINLONG
<1>3. ToLong(n) = (x % m) + MINLONG
  BY DEF ToLong
<1> HIDE DEF m, x
<1>4. x % m = x - m
  BY <1>2, ModAbove
<1>5. ToLong(n) = n - m
  BY <1>2, <1>3, <1>4
<1> QED  BY <1>5 DEF m

(* A release that is not refused leaves a count from 1 to the limit. *)
LEMMA ReleasedCount ==
  ASSUME Inv, NEW t \in Thread, NEW o \in Object, NEW w \in BOOLEAN,
         NEW adjustment \in 1..LongMax, KeReleaseSemaphore(t, o, adjustment, w)
  PROVE  /\ ToLong(signal[o] + adjustment) \in Nat \ {0}
         /\ ToLong(signal[o] + adjustment) <= Limit[o]
         /\ signal[o] \in 0..Limit[o] /\ Limit[o] \in Nat
<1> DEFINE sum == signal[o] + adjustment
           n == ToLong(sum)
<1>0. SignalInRange
  BY DEF Inv
<1>1. Kind[o] = "Semaphore" /\ ~(n > Limit[o] \/ n < signal[o])
  BY DEF KeReleaseSemaphore
<1>2. signal[o] \in 0..Limit[o] /\ Limit[o] \in 1..LongMax /\ LongMax \in Nat \ {0}
  <2>1. Kind[o] # "Mutant" /\ Limit[o] \in 1..LongMax /\ LongMax \in Nat \ {0}
    BY <1>1, DispatcherAssumption DEF DispatcherAssumption
  <2> QED  BY <1>0, <1>1, <2>1 DEF SignalInRange
<1>3. n \in Int /\ n # signal[o]
  <2>1. sum \in Int /\ sum > signal[o] /\ sum <= 2 * LongMax /\ sum >= 0
        /\ signal[o] \in Int
    BY <1>2
  <2> HIDE DEF sum
  <2>2. n \in Int
    BY <2>1, ToLongType
  <2>3. CASE sum <= LongMax
    <3>1. sum - MINLONG \in 0 .. (2 * (LongMax + 1) - 1)
      BY <1>2, <2>1, <2>3 DEF MINLONG
    <3>2. (sum - MINLONG) % (2 * (LongMax + 1)) = sum - MINLONG
      BY <1>2, <3>1
    <3>3. n = sum
      BY <1>2, <2>1, <3>2 DEF ToLong, MINLONG
    <3> QED  BY <2>1, <3>3
  <2>4. CASE sum > LongMax
    <3>1. sum \in (LongMax + 1) .. (2 * LongMax)
      BY <1>2, <2>1, <2>4
    <3>2. n = sum - 2 * (LongMax + 1)
      BY <3>1, ToLongAbove
    <3> HIDE DEF n
    <3> QED  BY <1>2, <2>1, <3>1, <3>2
  <2> QED  BY <1>2, <2>1, <2>2, <2>3, <2>4
<1>4. n \in 1..Limit[o]
  BY <1>1, <1>2, <1>3
<1>5. n \in Nat \ {0} /\ n <= Limit[o]
  BY <1>2, <1>4
<1> QED  BY <1>2, <1>5

LEMMA ReleaseSemaphoreKeepsInv ==
  ASSUME Inv, NEW t \in Thread, NEW o \in Object, NEW w \in BOOLEAN,
         NEW adjustment \in 1..LongMax, KeReleaseSemaphore(t, o, adjustment, w)
  PROVE  Inv'
<1> DEFINE n == ToLong(signal[o] + adjustment)
<1>1. /\ Kind[o] = "Semaphore" /\ ~IsMutant(o)
      /\ lock' \in Thread \union {NoThread} /\ UNCHANGED <<apcVars, alerted>>
  BY UnlockType DEF KeReleaseSemaphore, IsMutant
<1>2. n \in Nat \ {0} /\ n <= Limit[o] /\ signal[o] \in 0..Limit[o] /\ Limit[o] \in Nat
  BY ReleasedCount
<1>3. CASE signal[o] = 0
  <2>1. /\ signal' = [signal EXCEPT ![o] = StateAfter(o, n, Served(o, n))]
        /\ KiWaitTest(o, FALSE, Served(o, n))
    BY <1>3 DEF KeReleaseSemaphore
  <2>2. n \in Nat \ {0} /\ n <= Limit[o] /\ FALSE \in BOOLEAN
    BY <1>2
  <2> HIDE DEF n
  <2> QED  BY <1>1, <2>1, <2>2, WaitTestKeepsInv
<1>4. CASE signal[o] # 0
  <2>1. /\ signal' = [signal EXCEPT ![o] = StateAfter(o, n, {})]
        /\ KiWaitTest(o, FALSE, {})
    BY <1>4 DEF KeReleaseSemaphore
  <2> HIDE DEF n
  <2>2. signal' = [signal EXCEPT ![o] = n]
    BY <2>1, StateAfterNone
  <2>3. /\ signal[o] > 0 /\ {} \in SUBSET Waiters(o)
        /\ n \in IF Kind[o] = "Semaphore" THEN 0..Limit[o] ELSE 0..1
    BY <1>1, <1>2, <1>4
  <2> QED  BY <1>1, <2>1, <2>2, <2>3, SettledTest
<1> QED  BY <1>3, <1>4

LEMMA AbandonMutantKeepsInv ==
  ASSUME Inv, NEW t \in Thread, NEW o \in Object, AbandonMutant(t, o)
  PROVE  Inv'
<1>1. /\ Kind[o] = "Mutant" /\ lock' = lock /\ UNCHANGED <<apcVars, alerted>>
      /\ signal' = [signal EXCEPT ![o] = StateAfter(o, 1, Served(o, 1))]
      /\ KiWaitTest(o, TRUE, Served(o, 1))
  BY DEF AbandonMutant, IsMutant
<1>2. lock' \in Thread \union {NoThread} /\ TRUE \in BOOLEAN /\ 1 \in Nat \ {0}
  BY <1>1 DEF Inv, TypeOK
<1> QED  BY <1>1, <1>2, WaitTestKeepsInv

LEMMA ReleaseMutantKeepsInv ==
  ASSUME Inv, NEW t \in Thread, NEW o \in Object, NEW w \in BOOLEAN,
         KeReleaseMutant(t, o, w)
  PROVE  Inv'
<1>0. /\ TypeOK /\ WaitListsMatchThreads /\ SignalInRange
      /\ MutantOwnership /\ NoLostWakeup
  BY DEF Inv
<1>1. /\ Kind[o] = "Mutant" /\ IsMutant(o) /\ owner[o] = t
      /\ lock' \in Thread \union {NoThread} /\ UNCHANGED <<apcVars, alerted>>
  BY UnlockType DEF KeReleaseMutant, IsMutant
<1>2. CASE signal[o] + 1 = 1
  <2>1. /\ signal' = [signal EXCEPT ![o] = StateAfter(o, 1, Served(o, 1))]
        /\ KiWaitTest(o, abandoned[o], Served(o, 1))
    BY <1>2 DEF KeReleaseMutant
  <2>2. abandoned[o] \in BOOLEAN /\ 1 \in Nat \ {0}
    BY <1>0 DEF TypeOK
  <2> QED  BY <1>1, <2>1, <2>2, WaitTestKeepsInv
<1>3. CASE signal[o] + 1 # 1
  <2>1. /\ signal' = [signal EXCEPT ![o] = signal[o] + 1]
        /\ UNCHANGED <<owner, abandoned, waitList, waitVars>>
    BY <1>3 DEF KeReleaseMutant
  <2>2. signal[o] \in MINLONG..1 /\ signal[o] # 1 /\ MINLONG \in Int
    BY <1>0, <1>1, DispatcherAssumption
    DEF SignalInRange, MutantOwnership, DispatcherAssumption, MINLONG
  <2>3. signal[o] + 1 \in MINLONG..0
    BY <1>3, <2>2
  <2>4. /\ signal'[o] = signal[o] + 1 /\ signal'[o] \in MINLONG..0
        /\ \A x \in Object \ {o} : signal'[x] = signal[x]
        /\ signal' \in [Object -> Int]
    BY <1>0, <2>1, <2>3 DEF TypeOK
  <2>5. UNCHANGED <<thread, wait, status, reached, owner, abandoned, waitList>>
    BY <2>1 DEF waitVars
  <2>6. TypeOK'
    BY <1>0, <1>1, <2>4, <2>5 DEF TypeOK, apcVars
  <2>7. SignalInRange'
    <3> SUFFICES ASSUME NEW x \in Object
                 PROVE  signal'[x] \in CASE Kind[x] = "Mutant"    -> MINLONG..1
                                         [] Kind[x] = "Semaphore" -> 0..Limit[x]
                                         [] OTHER                 -> 0..1
      BY DEF SignalInRange
    <3>1. CASE x # o
      BY <1>0, <2>4, <3>1 DEF SignalInRange
    <3>2. CASE x = o
      BY <1>1, <2>2, <2>4, <3>2
    <3> QED  BY <3>1, <3>2
  <2>8. WaitListsMatchThreads'
    BY <1>0, <2>5, ListsFrame
  <2>9. MutantOwnership'
    <3> SUFFICES ASSUME NEW x \in Object, IsMutant(x)
                 PROVE  /\ owner[x] = NoThread <=> signal'[x] = 1
                        /\ abandoned[x] => owner[x] = NoThread
                        /\ owner[x] # NoThread => thread[owner[x]] # "Terminated"
      BY <2>5 DEF MutantOwnership
    <3>1. CASE x # o
      BY <1>0, <2>4, <3>1 DEF MutantOwnership
    <3>2. CASE x = o
      <4>1. signal'[o] # 1 /\ owner[o] # NoThread
        BY <1>1, <2>2, <2>4, DispatcherAssumption DEF DispatcherAssumption
      <4> QED  BY <1>0, <3>2, <4>1 DEF MutantOwnership
    <3> QED  BY <3>1, <3>2
  <2>10. NoLostWakeup'
    <3>1. \A x \in Object : signal'[x] > 0 => signal[x] > 0
      BY <2>2, <2>4
    <3> QED  BY <1>0, <2>5, <3>1, WakeupFrame
  <2> QED  BY <2>6, <2>7, <2>8, <2>9, <2>10 DEF Inv
<1> QED  BY <1>2, <1>3

-----------------------------------------------------------------------------
(***************************************************************************)
(* Waits: the evaluation of the objects and its outcomes.                  *)
(***************************************************************************)

(* A mutant at its recursion limit is never taken. *)
LEMMA TakenObjects ==
  ASSUME TypeOK, NEW t \in Thread, NEW x \in Taken(t)
  PROVE  x \in Object /\ x \in Objects(t) /\ CanTake(t, x) /\ ~AtMutantLimit(t, x)
<1>1. ~RaisesLimit(t)
  BY DEF Taken
<1>2. Objects(t) \subseteq Object
  BY WaitType
<1>3. CASE WaitsForAny(t)
  <2>1. PICK i \in DOMAIN wait[t].objs : StopsAt(t, i) /\ x = Objectx(t, i)
    BY <1>1, <1>3 DEF Taken
  <2>2. x \in Objects(t)
    BY <2>1 DEF Objects, Objectx
  <2> QED  BY <1>1, <1>2, <1>3, <2>1, <2>2 DEF StopsAt, RaisesLimit
<1>4. CASE ~WaitsForAny(t)
  <2>1. x \in Objects(t) /\ \A y \in Objects(t) : CanTake(t, y)
    BY <1>1, <1>4 DEF Taken
  <2>2. PICK i \in DOMAIN wait[t].objs : x = Objectx(t, i)
    BY <2>1 DEF Objects, Objectx
  <2>3. \A j \in Before(t, i) : CanTake(t, Objectx(t, j))
    BY <2>1 DEF Before, Objects, Objectx
  <2>4. AtMutantLimit(t, x) => StopsAt(t, i)
    BY <1>4, <2>2, <2>3 DEF StopsAt
  <2> QED  BY <1>1, <1>2, <2>1, <2>2, <2>4 DEF RaisesLimit
<1> QED  BY <1>3, <1>4

(* The thread keeps whatever the invariant says about others when its wait *)
(* returns without having blocked.                                         *)
LEMMA ReturnFacts ==
  ASSUME TypeOK, NEW t \in Thread, thread[t] = "WaitLoop", NEW st \in StatusSet,
         ReturnAtOnce(t, st)
  PROVE  /\ thread' \in [Thread -> ThreadState] /\ thread'[t] = "Running"
         /\ wait' \in [Thread -> Request \union {NoWait}]
         /\ status' \in [Thread -> StatusSet]
         /\ reached' \in [Thread -> BOOLEAN]
         /\ lock' \in Thread \union {NoThread}
         /\ \A u \in Thread : thread'[u] = "Waiting" <=> thread[u] = "Waiting"
         /\ \A u \in Thread : thread[u] = "Waiting" => wait'[u] = wait[u]
         /\ \A u \in Thread : thread'[u] = "Terminated" => thread[u] = "Terminated"
<1>1. thread' \in [Thread -> ThreadState] /\ thread'[t] = "Running"
  BY DEF TypeOK, ReturnAtOnce, ThreadState
<1>2. wait' \in [Thread -> Request \union {NoWait}]
  BY DEF TypeOK, ReturnAtOnce
<1>3. status' \in [Thread -> StatusSet]
  BY DEF TypeOK, ReturnAtOnce, StatusSet
<1>4. reached' \in [Thread -> BOOLEAN] /\ lock' \in Thread \union {NoThread}
  BY DEF TypeOK, ReturnAtOnce
<1>5. \A u \in Thread \ {t} : thread'[u] = thread[u] /\ wait'[u] = wait[u]
  BY DEF TypeOK, ReturnAtOnce
<1> QED  BY <1>1, <1>2, <1>3, <1>4, <1>5

LEMMA StatusType ==
  ASSUME NEW c \in Codes
  PROVE  Status(c) \in StatusSet
  BY DEF Status, StatusSet

(* Every return that takes no object. *)
LEMMA QuietReturnKeepsInv ==
  ASSUME Inv, NEW t \in Thread,
         \/ MutantLimitExceeded(t)
         \/ AlertWait(t)
         \/ UserApcWait(t)
         \/ TimeoutAtOnce(t)
  PROVE  Inv'
<1>0. TypeOK
  BY DEF Inv
<1>1. thread[t] = "WaitLoop" /\ UNCHANGED objectVars
  BY DEF MutantLimitExceeded, AlertWait, UserApcWait, TimeoutAtOnce, MustBlock, Evaluates, InLoop
<1>2. PICK st \in StatusSet : ReturnAtOnce(t, st)
  <2>1. \A c \in {"MutantLimit", "Alerted", "UserApc", "Timeout"} : Status(c) \in StatusSet
    BY StatusType DEF Codes
  <2> QED  BY <2>1 DEF MutantLimitExceeded, AlertWait, UserApcWait, TimeoutAtOnce
<1>3. /\ thread' \in [Thread -> ThreadState] /\ wait' \in [Thread -> Request \union {NoWait}]
      /\ status' \in [Thread -> StatusSet] /\ reached' \in [Thread -> BOOLEAN]
      /\ lock' \in Thread \union {NoThread}
      /\ \A u \in Thread : thread'[u] = "Waiting" <=> thread[u] = "Waiting"
      /\ \A u \in Thread : thread[u] = "Waiting" => wait'[u] = wait[u]
      /\ \A u \in Thread : thread'[u] = "Terminated" => thread[u] = "Terminated"
  BY <1>0, <1>1, <1>2, ReturnFacts
<1>4. /\ alerted' \in [Thread -> SUBSET Mode]
      /\ userApcPending' \in [Thread -> BOOLEAN]
      /\ UNCHANGED <<userApc, kernelApc, apcInsert, apcs>>
  BY ZenonT(60), <1>0 DEF MutantLimitExceeded, AlertWait, UserApcWait, TimeoutAtOnce, apcVars, TypeOK
<1>5. TypeOK'
  BY <1>0, <1>1, <1>3, <1>4 DEF TypeOK, StatusSet, objectVars
<1> QED  BY <1>1, <1>3, <1>5, QuietKeepsInv DEF Inv

LEMMA SatisfyKeepsInv ==
  ASSUME Inv, NEW t \in Thread, SatisfyAtOnce(t)
  PROVE  Inv'
<1> DEFINE S == Taken(t)
           won == {o \in S : Acquires(t, o)}
           index == IF WaitsForAny(t) THEN IndexOf(t, CHOOSE o \in S : TRUE) - 1 ELSE 0
           st == Satisfied(index, \E o \in won : abandoned[o])
<1>0. /\ TypeOK /\ WaitListsMatchThreads /\ SignalInRange
      /\ MutantOwnership /\ NoLostWakeup
  BY DEF Inv
<1>1. /\ thread[t] = "WaitLoop" /\ S # {}
      /\ waitList' = waitList /\ UNCHANGED <<apcVars, alerted>>
      /\ ReturnAtOnce(t, st)
      /\ \A x \in Object :
           /\ signal'[x] = KiWaitSatisfyAny(x, signal[x], IF x \in S THEN 1 ELSE 0)
           /\ owner'[x] = IF x \in won THEN t ELSE owner[x]
           /\ abandoned'[x] = (abandoned[x] /\ x \notin won)
      /\ signal' = [x \in Object |-> signal'[x]]
      /\ owner' = [x \in Object |-> owner'[x]]
      /\ abandoned' = [x \in Object |-> abandoned'[x]]
  BY DEF SatisfyAtOnce, Evaluates, InLoop
<1>2. \A x \in S : x \in Object /\ x \in Objects(t) /\ CanTake(t, x) /\ ~AtMutantLimit(t, x)
  BY <1>0, TakenObjects
<1>3. index \in Nat
  <2>1. CASE WaitsForAny(t)
    <3>1. PICK o \in S : o = CHOOSE x \in S : TRUE
      BY <1>1
    <3>2. \E i \in DOMAIN wait[t].objs : wait[t].objs[i] = o
      BY <1>2 DEF Objects
    <3>3. IndexOf(t, o) \in DOMAIN wait[t].objs
      BY <3>2 DEF IndexOf
    <3>4. IndexOf(t, o) \in Nat \ {0}
      BY <1>0, <3>3, WaitType
    <3>5. index = IndexOf(t, o) - 1
      BY <2>1, <3>1
    <3> QED  BY <3>4, <3>5
  <2>2. CASE ~WaitsForAny(t)
    BY <2>2
  <2> QED  BY <2>1, <2>2
<1>4. st \in StatusSet
  <2> HIDE DEF index
  <2> QED  BY <1>3 DEF Satisfied, StatusSet, Codes
<1> HIDE DEF index, st
<1>5. /\ thread' \in [Thread -> ThreadState] /\ thread'[t] = "Running"
      /\ wait' \in [Thread -> Request \union {NoWait}]
      /\ status' \in [Thread -> StatusSet] /\ reached' \in [Thread -> BOOLEAN]
      /\ lock' \in Thread \union {NoThread}
      /\ \A u \in Thread : thread'[u] = "Waiting" <=> thread[u] = "Waiting"
      /\ \A u \in Thread : thread[u] = "Waiting" => wait'[u] = wait[u]
      /\ \A u \in Thread : thread'[u] = "Terminated" => thread[u] = "Terminated"
  BY <1>0, <1>1, <1>4, ReturnFacts
<1>6. ASSUME NEW x \in Object
      PROVE  /\ signal'[x] \in Int
             /\ signal'[x] \in CASE Kind[x] = "Mutant"    -> MINLONG..1
                                  [] Kind[x] = "Semaphore" -> 0..Limit[x]
                                  [] OTHER                 -> 0..1
             /\ signal'[x] > 0 => signal[x] > 0
             /\ IsMutant(x) => IF x \in S THEN signal'[x] = signal[x] - 1
                                           ELSE signal'[x] = signal[x]
  <2>1. /\ signal[x] \in Int /\ Kind[x] \in Kinds /\ LongMax \in Nat \ {0}
        /\ MINLONG \in Int /\ MINLONG < 0 /\ Limit[x] \in Nat
    BY <1>0, DispatcherAssumption DEF TypeOK, DispatcherAssumption, MINLONG
  <2>2. signal[x] \in CASE Kind[x] = "Mutant"    -> MINLONG..1
                         [] Kind[x] = "Semaphore" -> 0..Limit[x]
                         [] OTHER                 -> 0..1
    BY <1>0 DEF SignalInRange
  <2>3. CASE x \notin S
    <3>1. signal'[x] = signal[x]
      BY <1>1, <2>3 DEF KiWaitSatisfyAny
    <3> QED  BY <2>1, <2>2, <2>3, <3>1
  <2>4. CASE x \in S
    <3>1. signal'[x] = KiWaitSatisfyAny(x, signal[x], 1)
      BY <1>1, <2>4
    <3>2. CanTake(t, x) /\ ~AtMutantLimit(t, x)
      BY <1>2, <2>4
    <3>3. CASE Kind[x] = "NotificationEvent"
      BY <2>1, <2>2, <3>1, <3>3 DEF KiWaitSatisfyAny, IsMutant
    <3>4. CASE Kind[x] = "SynchronizationEvent"
      BY <2>1, <2>2, <3>1, <3>2, <3>4 DEF KiWaitSatisfyAny, IsMutant, CanTake
    <3>5. CASE Kind[x] = "Semaphore"
      <4>1. signal'[x] = signal[x] - 1
        BY <3>1, <3>5 DEF KiWaitSatisfyAny
      <4>2. signal[x] > 0 /\ signal[x] \in 0..Limit[x]
        BY <2>2, <3>2, <3>5 DEF CanTake, IsMutant
      <4> QED  BY <2>1, <3>5, <4>1, <4>2 DEF IsMutant
    <3>6. CASE Kind[x] = "Mutant"
      <4>1. signal'[x] = signal[x] - 1
        BY <3>1, <3>6 DEF KiWaitSatisfyAny
      <4>2. signal[x] \in MINLONG..1 /\ signal[x] # MINLONG
        BY <2>1, <2>2, <3>2, <3>6 DEF CanTake, AtMutantLimit, IsMutant
      <4> QED  BY <2>1, <2>4, <3>6, <4>1, <4>2
    <3> QED  BY <2>1, <3>3, <3>4, <3>5, <3>6 DEF Kinds
  <2> QED  BY <2>3, <2>4
<1>14. \A x \in Object :
         /\ owner'[x] = IF x \in won THEN t ELSE owner[x]
         /\ abandoned'[x] = (abandoned[x] /\ x \notin won)
  BY <1>1
<1> HIDE DEF S
<1>13. \A x \in Object :
         IsMutant(x) => IF x \in S THEN signal'[x] = signal[x] - 1
                                   ELSE signal'[x] = signal[x]
  BY <1>6
<1>7. /\ signal' \in [Object -> Int]
      /\ owner' \in [Object -> Thread \union {NoThread}]
      /\ abandoned' \in [Object -> BOOLEAN]
  BY ZenonT(60), <1>0, <1>1, <1>6 DEF TypeOK
<1>8. TypeOK'
  BY <1>0, <1>1, <1>5, <1>7 DEF TypeOK, StatusSet, apcVars
<1>9. SignalInRange'
  BY <1>6 DEF SignalInRange
<1>10. WaitListsMatchThreads'
  BY <1>0, <1>1, <1>5, ListsFrame
<1>11. MutantOwnership'
  <2> SUFFICES ASSUME NEW x \in Object, IsMutant(x)
               PROVE  /\ owner'[x] = NoThread <=> signal'[x] = 1
                      /\ abandoned'[x] => owner'[x] = NoThread
                      /\ owner'[x] # NoThread => thread'[owner'[x]] # "Terminated"
    BY DEF MutantOwnership
  <2>1. /\ owner[x] = NoThread <=> signal[x] = 1
        /\ abandoned[x] => owner[x] = NoThread
        /\ owner[x] # NoThread => thread[owner[x]] # "Terminated"
        /\ owner[x] \in Thread \union {NoThread} /\ t # NoThread
        /\ signal[x] \in Int /\ signal[x] <= 1
    <3>1. signal[x] \in MINLONG..1 /\ MINLONG \in Int
      BY <1>0, DispatcherAssumption DEF SignalInRange, IsMutant, DispatcherAssumption, MINLONG
    <3> QED  BY <1>0, <3>1, DispatcherAssumption DEF MutantOwnership, DispatcherAssumption, TypeOK
  <2>2. CASE x \notin S
    <3>1. owner'[x] = owner[x] /\ (abandoned'[x] => abandoned[x]) /\ signal'[x] = signal[x]
      BY <1>13, <1>14, <2>2
    <3> QED  BY <1>5, <2>1, <3>1
  <2>3. CASE x \in S /\ signal[x] = 1
    <3>1. x \in won
      BY <2>3 DEF Acquires
    <3>2. owner'[x] = t /\ ~abandoned'[x]
      BY <1>14, <3>1
    <3>3. signal'[x] = 0
      BY <1>13, <2>3
    <3> QED  BY <1>5, <2>1, <3>2, <3>3
  <2>4. CASE x \in S /\ signal[x] # 1
    <3>1. owner'[x] = owner[x] /\ (abandoned'[x] => abandoned[x]) /\ signal'[x] = signal[x] - 1
      BY <1>13, <1>14, <2>4 DEF Acquires
    <3>2. signal'[x] # 1 /\ owner[x] # NoThread
      BY <2>1, <2>4, <3>1
    <3> QED  BY <1>5, <2>1, <3>1, <3>2
  <2> QED  BY <2>2, <2>3, <2>4
<1>12. NoLostWakeup'
  <2>1. \A x \in Object, u \in Thread :
          thread'[u] = "Waiting" /\ owner'[x] = u => owner[x] = u
    BY <1>1, <1>5
  <2> QED  BY <1>0, <1>5, <1>6, <2>1, WakeupFrame
<1> QED  BY <1>8, <1>9, <1>10, <1>11, <1>12 DEF Inv

(* A thread that takes nothing cannot be satisfied by the present states. *)
LEMMA NothingTaken ==
  ASSUME TypeOK, NEW t \in Thread, Taken(t) = {}, ~RaisesLimit(t)
  PROVE  IF WaitsForAny(t) THEN \A x \in Objects(t) : ~CanTake(t, x)
                           ELSE \E x \in Objects(t) : ~CanTake(t, x)
<1>1. CASE WaitsForAny(t)
  <2> DEFINE I == {i \in DOMAIN wait[t].objs : CanTake(t, Objectx(t, i))}
             f == [i \in I |-> i]
  <2> SUFFICES ASSUME I # {} PROVE FALSE
    BY <1>1 DEF Objects, Objectx
  <2>1. f \in [I -> Nat]
    BY WaitType
  <2>2. PICK i \in I : \A j \in I : f[i] <= f[j]
    <3> HIDE DEF I, f
    <3> QED  BY <2>1, LeastExists
  <2>3. \A j \in I : ~(j < i)
    <3>1. \A j \in I : f[j] = j /\ j \in Nat
      BY WaitType
    <3> HIDE DEF I, f
    <3> QED  BY <2>2, <3>1
  <2>4. \A j \in Before(t, i) : ~CanTake(t, Objectx(t, j))
    BY <2>3 DEF Before
  <2>5. StopsAt(t, i)
    BY <1>1, <2>4 DEF StopsAt
  <2>6. Objectx(t, i) \in Taken(t)
    BY <1>1, <2>5 DEF Taken
  <2> QED  BY <2>6
<1>2. CASE ~WaitsForAny(t)
  <2>1. wait[t] \in Request
    BY <1>2 DEF TypeOK, NoWait, WaitsForAny
  <2>2. wait[t].type = "All" /\ wait[t].objs \in Seq(Object)
    BY <1>2, WaitType DEF WaitsForAny, WaitRequest
  <2>3. wait[t].objs # <<>>
    BY <2>1, <2>2, DispatcherAssumption DEF DispatcherAssumption
  <2>4. 1 \in DOMAIN wait[t].objs
    BY <2>2, <2>3
  <2>5. Objects(t) # {}
    BY <2>4 DEF Objects
  <2> QED  BY <1>2, <2>5 DEF Taken
<1> QED  BY <1>1, <1>2

(* The new block goes behind all others in every list it enters. *)
LEMMA InsertKeepsLists ==
  ASSUME TypeOK, WaitListsMatchThreads, NEW t \in Thread,
         thread[t] # "Waiting",
         thread' = [thread EXCEPT ![t] = "Waiting"], wait' = wait,
         waitList' = InsertWaitBlocks(t)
  PROVE  /\ WaitListsMatchThreads'
         /\ waitList' \in [Object -> SUBSET (Thread \X Thread)]
<1>1. waitList' \in [Object -> SUBSET (Thread \X Thread)]
  BY DEF TypeOK, InsertWaitBlocks, Waiters
<1>2. /\ thread'[t] = "Waiting"
      /\ \A u \in Thread \ {t} : thread'[u] = thread[u]
      /\ \A u \in Thread : Objects(u)' = Objects(u)
  BY DEF TypeOK, Objects
<1>3. ASSUME NEW o \in Object
      PROVE  /\ \A u \in Thread : u \in Waiters(o) <=> thread[u] = "Waiting" /\ o \in Objects(u)
             /\ t \notin Waiters(o)
             /\ \A a, b \in Thread : <<a, b>> \in waitList[o] =>
                  a \in Waiters(o) /\ b \in Waiters(o)
  BY DEF WaitListsMatchThreads
<1>4. ASSUME NEW o \in Object, NEW a \in Thread, NEW b \in Thread
      PROVE  <<a, b>> \in waitList'[o] <=>
               \/ <<a, b>> \in waitList[o]
               \/ o \in Objects(t) /\ b = t /\ (a = t \/ a \in Waiters(o))
  <2>1. waitList'[o] = IF o \in Objects(t)
                       THEN waitList[o] \union ((Waiters(o) \union {t}) \X {t})
                       ELSE waitList[o]
    BY DEF InsertWaitBlocks
  <2>2. CASE o \in Objects(t)
    <3>1. waitList'[o] = waitList[o] \union ((Waiters(o) \union {t}) \X {t})
      BY <2>1, <2>2
    <3>2. <<a, b>> \in (Waiters(o) \union {t}) \X {t} <=>
            b = t /\ (a = t \/ a \in Waiters(o))
      OBVIOUS
    <3> QED  BY <2>2, <3>1, <3>2
  <2>3. CASE o \notin Objects(t)
    BY <2>1, <2>3
  <2> QED  BY <2>2, <2>3
<1>5. ASSUME NEW o \in Object, NEW u \in Thread
      PROVE  u \in Waiters(o)' <=> u \in Waiters(o) \/ (u = t /\ o \in Objects(t))
  <2>1. u \in Waiters(o)' <=> <<u, u>> \in waitList'[o]
    BY DEF Waiters
  <2>2. u \in Waiters(o) <=> <<u, u>> \in waitList[o]
    BY DEF Waiters
  <2> QED  BY <1>4, <2>1, <2>2
<1>6. ASSUME NEW o \in Object
      PROVE  /\ Waiters(o)' = {u \in Thread : thread'[u] = "Waiting" /\ o \in Objects(u)'}
             /\ waitList'[o] \subseteq Waiters(o)' \X Waiters(o)'
  <2>1. \A u \in Thread : u \in Waiters(o)' <=> thread'[u] = "Waiting" /\ o \in Objects(u)'
    BY <1>2, <1>3, <1>5
  <2>2. Waiters(o)' \subseteq Thread /\ waitList'[o] \subseteq Thread \X Thread
    BY <1>1 DEF Waiters
  <2>3. \A a, b \in Thread : <<a, b>> \in waitList'[o] => a \in Waiters(o)' /\ b \in Waiters(o)'
    BY <1>3, <1>4, <1>5
  <2> HIDE DEF Waiters
  <2>4. waitList'[o] \subseteq Waiters(o)' \X Waiters(o)'
    BY <2>2, <2>3
  <2> QED  BY <2>1, <2>2, <2>4
<1>7. ASSUME NEW o \in Object, NEW u \in Waiters(o)', NEW v \in Waiters(o)'
      PROVE  /\ <<u, v>> \in waitList'[o] \/ <<v, u>> \in waitList'[o]
             /\ <<u, v>> \in waitList'[o] /\ <<v, u>> \in waitList'[o] => u = v
             /\ \A x \in Waiters(o)' :
                  <<u, v>> \in waitList'[o] /\ <<v, x>> \in waitList'[o]
                    => <<u, x>> \in waitList'[o]
  <2>1. Waiters(o)' \subseteq Thread
    BY DEF Waiters
  <2>2. \A a, b \in Waiters(o) :
          /\ <<a, b>> \in waitList[o] \/ <<b, a>> \in waitList[o]
          /\ <<a, b>> \in waitList[o] /\ <<b, a>> \in waitList[o] => a = b
          /\ \A c \in Waiters(o) :
               <<a, b>> \in waitList[o] /\ <<b, c>> \in waitList[o] => <<a, c>> \in waitList[o]
    BY DEF WaitListsMatchThreads
  <2>3. /\ t \notin Waiters(o)
        /\ \A a, b \in Thread : <<a, b>> \in waitList[o] =>
             a \in Waiters(o) /\ b \in Waiters(o)
    BY <1>3
  <2>4. \A a \in Thread : a \in Waiters(o)' <=> a \in Waiters(o) \/ (a = t /\ o \in Objects(t))
    BY <1>5
  <2>5. \A a, b \in Thread : <<a, b>> \in waitList'[o] <=>
               \/ <<a, b>> \in waitList[o]
               \/ o \in Objects(t) /\ b = t /\ (a = t \/ a \in Waiters(o))
    BY <1>4
  <2> HIDE DEF Waiters
  <2> QED  BY ZenonT(60), <2>1, <2>2, <2>3, <2>4, <2>5
<1>8. WaitListsMatchThreads'
  BY <1>6, <1>7 DEF WaitListsMatchThreads
<1> QED  BY <1>1, <1>8

LEMMA BlockKeepsInv ==
  ASSUME Inv, NEW t \in Thread, Block(t)
  PROVE  Inv'
<1>0. /\ TypeOK /\ WaitListsMatchThreads /\ SignalInRange
      /\ MutantOwnership /\ NoLostWakeup
  BY DEF Inv
<1>1. /\ thread[t] = "WaitLoop" /\ Taken(t) = {} /\ ~RaisesLimit(t)
      /\ waitList' = InsertWaitBlocks(t)
      /\ thread' = [thread EXCEPT ![t] = "Waiting"] /\ lock' = NoThread
      /\ UNCHANGED <<signal, owner, abandoned, wait, status, reached, apcVars, alerted>>
  BY DEF Block, MustBlock, Evaluates, InLoop
<1>2. /\ WaitListsMatchThreads'
      /\ waitList' \in [Object -> SUBSET (Thread \X Thread)]
  BY <1>0, <1>1, InsertKeepsLists
<1>3. /\ thread' \in [Thread -> ThreadState]
      /\ thread'[t] = "Waiting" /\ \A u \in Thread \ {t} : thread'[u] = thread[u]
  BY <1>0, <1>1 DEF TypeOK, ThreadState
<1>4. TypeOK'
  BY <1>0, <1>1, <1>2, <1>3 DEF TypeOK, apcVars
<1>5. SignalInRange'
  BY <1>0, <1>1, RangeFrame
<1>6. MutantOwnership'
  BY <1>0, <1>1, <1>3, OwnershipFrame
<1>7. NoLostWakeup'
  <2> SUFFICES ASSUME NEW u \in Thread, thread'[u] = "Waiting"
               PROVE  IF WaitsForAny(u) THEN \A x \in Objects(u) : ~CanTake(u, x)
                                        ELSE \E x \in Objects(u) : ~CanTake(u, x)
    BY <1>1 DEF NoLostWakeup, WaitsForAny, Objects, CanTake, IsMutant
  <2>1. CASE u = t
    BY <1>0, <1>1, <2>1, NothingTaken
  <2>2. CASE u # t
    BY <1>0, <1>3, <2>2 DEF NoLostWakeup
  <2> QED  BY <2>1, <2>2
<1> QED  BY <1>2, <1>4, <1>5, <1>6, <1>7 DEF Inv

LEMMA WaitPassKeepsInv ==
  ASSUME Inv, NEW t \in Thread, WaitPass(t)
  PROVE  Inv'
  BY SatisfyKeepsInv, QuietReturnKeepsInv, BlockKeepsInv DEF WaitPass

(* Threads that enter a wait function, and the passing of time. *)
LEMMA CallKeepsInv ==
  ASSUME Inv, NEW t \in Thread,
         \/ \E r \in Request : KeWaitForObjects(t, r)
         \/ DropLockForApc(t)
         \/ ReachDueTime(t)
  PROVE  Inv'
<1>0. TypeOK
  BY DEF Inv
<1>1. /\ UNCHANGED objectVars
      /\ \A u \in Thread : thread'[u] = "Waiting" <=> thread[u] = "Waiting"
      /\ \A u \in Thread : thread[u] = "Waiting" => wait'[u] = wait[u]
      /\ \A u \in Thread : thread'[u] = "Terminated" => thread[u] = "Terminated"
  BY <1>0 DEF KeWaitForObjects, DropLockForApc, ReachDueTime, TypeOK, waitVars
<1>2. Status("Pending") \in StatusSet
  BY StatusType DEF Codes
<1>3. TypeOK'
  <2>1. CASE \E r \in Request : KeWaitForObjects(t, r)
    BY <1>0, <1>2, <2>1 DEF KeWaitForObjects, TypeOK, StatusSet, ThreadState, objectVars, apcVars
  <2>2. CASE DropLockForApc(t)
    BY <1>0, <2>2 DEF DropLockForApc, TypeOK, objectVars, waitVars, apcVars
  <2>3. CASE ReachDueTime(t)
    BY <1>0, <2>3 DEF ReachDueTime, TypeOK, objectVars, apcVars
  <2> QED  BY <2>1, <2>2, <2>3
<1> QED  BY <1>1, <1>3, QuietKeepsInv DEF Inv

(* A thread whose wait is ended by anything but an object. *)
LEMMA UnwaitOneFacts ==
  ASSUME Inv, NEW u \in Thread, thread[u] = "Waiting", NEW c \in Codes,
         UnwaitOne(u, c), UNCHANGED <<signal, owner, abandoned>>
  PROVE  /\ waitList' \in [Object -> SUBSET (Thread \X Thread)]
         /\ thread' \in [Thread -> ThreadState]
         /\ wait' \in [Thread -> Request \union {NoWait}]
         /\ status' \in [Thread -> StatusSet]
         /\ reached' \in [Thread -> BOOLEAN]
         /\ WaitListsMatchThreads' /\ SignalInRange'
         /\ MutantOwnership' /\ NoLostWakeup'
<1> DEFINE st == [x \in {u} |-> Status(c)]
<1>1. /\ {u} \in SUBSET Thread /\ st \in [{u} -> StatusSet]
      /\ \A x \in {u} : thread[x] = "Waiting" /\ KiUnwaitThread({u}, st)
  BY StatusType DEF UnwaitOne
<1> HIDE DEF st
<1> QED  BY <1>1, UnwaitKeepsInv

(* Timers, alerts and APCs that end a wait. *)
LEMMA InterruptKeepsInv ==
  ASSUME Inv, NEW t \in Thread, NEW u \in Thread,
         \/ ExpireTimer(u)
         \/ \E m \in Mode : KeAlertThread(t, u, m)
         \/ UnwaitForUserApc(u)
         \/ QueueKernelApc(u)
  PROVE  Inv'
<1>0. TypeOK
  BY DEF Inv
<1>1. /\ UNCHANGED <<signal, owner, abandoned, userApc, lock>>
      /\ userApcPending' \in [Thread -> BOOLEAN] /\ apcInsert' \in [Thread -> BOOLEAN]
      /\ kernelApc' \in [Thread -> BOOLEAN] /\ alerted' \in [Thread -> SUBSET Mode]
      /\ apcs' \in 0..MaxApcs
  <2>1. CASE ExpireTimer(u)
    BY <1>0, <2>1 DEF ExpireTimer, TypeOK, apcVars
  <2>2. CASE \E m \in Mode : KeAlertThread(t, u, m)
    BY SMTT(30), <1>0, <2>2 DEF KeAlertThread, TypeOK, apcVars
  <2>3. CASE UnwaitForUserApc(u)
    BY <1>0, <2>3 DEF UnwaitForUserApc, TypeOK
  <2>4. CASE QueueKernelApc(u)
    BY <1>0, <2>4, DispatcherAssumption DEF QueueKernelApc, TypeOK, DispatcherAssumption
  <2> QED  BY <2>1, <2>2, <2>3, <2>4
<1>2. \/ UNCHANGED <<waitList, waitVars>>
      \/ /\ thread[u] = "Waiting"
         /\ \E c \in Codes : UnwaitOne(u, c)
  BY DEF ExpireTimer, KeAlertThread, UnwaitForUserApc, QueueKernelApc, Codes
<1>3. /\ waitList' \in [Object -> SUBSET (Thread \X Thread)]
      /\ thread' \in [Thread -> ThreadState]
      /\ wait' \in [Thread -> Request \union {NoWait}]
      /\ status' \in [Thread -> StatusSet]
      /\ reached' \in [Thread -> BOOLEAN]
      /\ WaitListsMatchThreads' /\ SignalInRange'
      /\ MutantOwnership' /\ NoLostWakeup'
  <2>1. CASE UNCHANGED <<waitList, waitVars>>
    <3>1. UNCHANGED objectVars /\ UNCHANGED <<thread, wait, status, reached>>
      BY <1>1, <2>1 DEF objectVars, waitVars
    <3>2. /\ WaitListsMatchThreads' /\ SignalInRange'
          /\ MutantOwnership' /\ NoLostWakeup'
      BY <3>1, QuietKeepsInv
    <3> QED  BY <1>0, <3>1, <3>2 DEF TypeOK, StatusSet, objectVars
  <2>2. CASE thread[u] = "Waiting" /\ \E c \in Codes : UnwaitOne(u, c)
    BY <1>1, <2>2, UnwaitOneFacts
  <2> QED  BY <1>2, <2>1, <2>2
<1>4. TypeOK'
  BY <1>0, <1>1, <1>3 DEF TypeOK, StatusSet
<1> QED  BY <1>3, <1>4 DEF Inv

(* Alerts and APCs that touch no wait. *)
LEMMA QuietApcKeepsInv ==
  ASSUME Inv, NEW t \in Thread,
         \/ \E m \in Mode : KeTestAlertThread(t, m)
         \/ \E isExit \in BOOLEAN : QueueUserApc(t, isExit)
         \/ DeliverUserApc(t)
         \/ KeRemoveQueueApc(t)
         \/ DeliverKernelApc(t)
  PROVE  Inv'
<1>0. TypeOK
  BY DEF Inv
<1>1. UNCHANGED <<objectVars, waitVars>>
  BY DEF KeTestAlertThread, QueueUserApc, DeliverUserApc, KeRemoveQueueApc, DeliverKernelApc
<1>2. UNCHANGED <<thread, wait, status, reached>> /\ UNCHANGED objectVars
  BY <1>1 DEF waitVars
<1>3. /\ userApc' \in [Thread -> BOOLEAN] /\ userApcPending' \in [Thread -> BOOLEAN]
      /\ apcInsert' \in [Thread -> BOOLEAN] /\ kernelApc' \in [Thread -> BOOLEAN]
      /\ alerted' \in [Thread -> SUBSET Mode] /\ UNCHANGED <<apcs, lock>>
  <2>1. CASE \E m \in Mode : KeTestAlertThread(t, m)
    <3>1. PICK m \in Mode : KeTestAlertThread(t, m)
      BY <2>1
    <3>2. UNCHANGED <<userApc, kernelApc, apcInsert, apcs, lock>>
      BY <3>1 DEF KeTestAlertThread
    <3>3. CASE m \in alerted[t]
      BY SMTT(30), <1>0, <3>1, <3>2, <3>3 DEF KeTestAlertThread, TypeOK
    <3>4. CASE m \notin alerted[t]
      BY <1>0, <3>1, <3>2, <3>4 DEF KeTestAlertThread, TypeOK
    <3> QED  BY <3>3, <3>4
  <2>2. CASE \E isExit \in BOOLEAN : QueueUserApc(t, isExit)
    BY <1>0, <2>2 DEF QueueUserApc, TypeOK
  <2>3. CASE DeliverUserApc(t)
    BY <1>0, <2>3 DEF DeliverUserApc, TypeOK
  <2>4. CASE KeRemoveQueueApc(t)
    BY <1>0, <2>4 DEF KeRemoveQueueApc, TypeOK
  <2>5. CASE DeliverKernelApc(t)
    BY <1>0, <2>5 DEF DeliverKernelApc, TypeOK
  <2> QED  BY <2>1, <2>2, <2>3, <2>4, <2>5
<1>4. TypeOK'
  BY <1>0, <1>2, <1>3 DEF TypeOK, objectVars
<1> QED  BY <1>2, <1>4, QuietKeepsInv DEF Inv

(* An exiting thread: it terminates only when it owns no mutant. *)
LEMMA RundownKeepsInv ==
  ASSUME Inv, NEW t \in Thread, Rundown(t)
  PROVE  Inv'
<1>0. /\ TypeOK /\ WaitListsMatchThreads /\ SignalInRange
      /\ MutantOwnership /\ NoLostWakeup
  BY DEF Inv
<1>1. CASE KeRundownThread(t)
  <2>1. /\ UNCHANGED objectVars /\ wait' = wait
        /\ \A u \in Thread : thread'[u] = "Waiting" <=> thread[u] = "Waiting"
        /\ \A u \in Thread : thread'[u] = "Terminated" => thread[u] = "Terminated"
    BY <1>0, <1>1 DEF KeRundownThread, CanLock, TypeOK
  <2>2. TypeOK'
    BY <1>0, <1>1 DEF KeRundownThread, TypeOK, ThreadState, objectVars, apcVars
  <2> QED  BY <2>1, <2>2, QuietKeepsInv DEF Inv
<1>2. CASE \E o \in Object : AbandonMutant(t, o)
  BY <1>2, AbandonMutantKeepsInv
<1>3. CASE RundownDone(t)
  <2>1. /\ UNCHANGED <<signal, owner, abandoned, waitList, wait>>
        /\ thread[t] = "Rundown" /\ thread'[t] = "Terminated"
        /\ \A u \in Thread \ {t} : thread'[u] = thread[u]
        /\ \A o \in Object : owner[o] # t
    BY <1>0, <1>3 DEF RundownDone, TypeOK, objectVars
  <2>2. TypeOK'
    BY <1>0, <1>3 DEF RundownDone, TypeOK, ThreadState, objectVars, apcVars
  <2>3. WaitListsMatchThreads'
    BY <1>0, <2>1, ListsFrame
  <2>4. SignalInRange'
    BY <1>0, <2>1, RangeFrame
  <2>5. MutantOwnership'
    BY <1>0, <2>1 DEF MutantOwnership, TypeOK, IsMutant
  <2>6. NoLostWakeup'
    BY <1>0, <2>1, WakeupFrame
  <2> QED  BY <2>2, <2>3, <2>4, <2>5, <2>6 DEF Inv
<1> QED  BY <1>1, <1>2, <1>3 DEF Rundown
-----------------------------------------------------------------------------
(***************************************************************************)
(* The invariants of the specification.                                    *)
(***************************************************************************)

LEMMA InitInv == Init => Inv
<1> SUFFICES ASSUME Init PROVE Inv
  OBVIOUS
<1>1. /\ signal \in [Object -> 0..LongMax] /\ owner = [o \in Object |-> NoThread]
      /\ abandoned = [o \in Object |-> FALSE] /\ waitList = [o \in Object |-> {}]
      /\ thread = [t \in Thread |-> "Running"]
  BY DEF Init
<1>2. ASSUME NEW o \in Object
      PROVE  CASE Kind[o] = "Mutant"    -> signal[o] = 1
               [] Kind[o] = "Semaphore" -> signal[o] <= Limit[o]
               [] OTHER                 -> signal[o] <= 1
  BY <1>2 DEF Init
<1>3. LongMax \in Nat \ {0} /\ MINLONG \in Int /\ MINLONG < 0
  BY DispatcherAssumption DEF DispatcherAssumption, MINLONG
<1>4. TypeOK
  <2>1. NoWait \in Request \union {NoWait} /\ Status("Pending") \in StatusSet /\ 0 \in 0..MaxApcs
    BY StatusType, DispatcherAssumption DEF Codes, DispatcherAssumption
  <2>2. signal \in [Object -> Int]
    BY <1>1, <1>3
  <2> QED  BY <2>1, <2>2 DEF Init, TypeOK, StatusSet, ThreadState
<1>5. WaitListsMatchThreads
  BY <1>1 DEF WaitListsMatchThreads, Waiters
<1>6. SignalInRange
  <2> SUFFICES ASSUME NEW o \in Object
               PROVE  signal[o] \in CASE Kind[o] = "Mutant"    -> MINLONG..1
                                      [] Kind[o] = "Semaphore" -> 0..Limit[o]
                                      [] OTHER                 -> 0..1
    BY DEF SignalInRange
  <2>1. signal[o] \in 0..LongMax /\ Limit[o] \in Nat /\ signal[o] \in Int
    BY <1>1, DispatcherAssumption DEF DispatcherAssumption
  <2>2. CASE Kind[o] = "Mutant"
    BY <1>2, <1>3, <2>2
  <2>3. CASE Kind[o] = "Semaphore"
    BY <1>2, <1>3, <2>1, <2>3
  <2>4. CASE Kind[o] \notin {"Mutant", "Semaphore"}
    BY <1>2, <1>3, <2>1, <2>4
  <2> QED  BY <2>2, <2>3, <2>4
<1>7. MutantOwnership
  <2>1. \A o \in Object : IsMutant(o) => signal[o] = 1
    BY <1>2 DEF IsMutant
  <2> QED  BY <1>1, <2>1 DEF MutantOwnership
<1>8. NoLostWakeup
  BY <1>1 DEF NoLostWakeup
<1> QED  BY <1>4, <1>5, <1>6, <1>7, <1>8 DEF Inv

LEMMA NextInv == Inv /\ [Next]_vars => Inv'
<1> SUFFICES ASSUME Inv, [Next]_vars PROVE Inv'
  OBVIOUS
<1>1. CASE UNCHANGED vars
  <2>1. UNCHANGED objectVars /\ UNCHANGED waitVars /\ UNCHANGED apcVars /\ UNCHANGED <<alerted, lock>>
    BY <1>1 DEF vars
  <2>2. UNCHANGED <<thread, wait, status, reached>>
    BY <2>1 DEF waitVars
  <2>3. TypeOK'
    BY <2>1, <2>2 DEF Inv, TypeOK, objectVars, apcVars
  <2> QED  BY <2>1, <2>2, <2>3, QuietKeepsInv DEF Inv
<1>2. ASSUME NEW t \in Thread, Signalling(t)
      PROVE  Inv'
  BY <1>2, SetEventKeepsInv, PulseEventKeepsInv, ClearEventKeepsInv, BoostKeepsInv,
     ReleaseSemaphoreKeepsInv, ReleaseMutantKeepsInv DEF Signalling
<1>3. ASSUME NEW t \in Thread, Rundown(t)
      PROVE  Inv'
  BY <1>3, RundownKeepsInv
<1>4. ASSUME NEW t \in Thread, Waits(t)
      PROVE  Inv'
  BY <1>4, CallKeepsInv, WaitPassKeepsInv, InterruptKeepsInv DEF Waits
<1>5. ASSUME NEW t \in Thread, AlertsAndApcs(t)
      PROVE  Inv'
  BY <1>5, InterruptKeepsInv, QuietApcKeepsInv DEF AlertsAndApcs
<1> QED  BY <1>1, <1>2, <1>3, <1>4, <1>5 DEF Next

LEMMA SpecInv == Spec => []Inv
  BY InitInv, NextInv, PTL DEF Spec

(* Type correctness of the wait core. *)
THEOREM TypeCorrect == Spec => []TypeOK
<1>1. Inv => TypeOK
  BY DEF Inv
<1> QED  BY <1>1, SpecInv, PTL

(* The wait lists hold the blocks of the waiting threads and no others:    *)
(* KiUnlinkThread and the block loop of the wait functions agree.          *)
THEOREM ListsMatch == Spec => []WaitListsMatchThreads
<1>1. Inv => WaitListsMatchThreads
  BY DEF Inv
<1> QED  BY <1>1, SpecInv, PTL

(* Signal states stay in range, overflow of KeReleaseSemaphore included.   *)
THEOREM SignalsInRange == Spec => []SignalInRange
<1>1. Inv => SignalInRange
  BY DEF Inv
<1> QED  BY <1>1, SpecInv, PTL

(* Owner, state and Abandoned flag of a mutant agree, and KeRundownThread  *)
(* leaves no mutant to a terminated thread.                                *)
THEOREM OwnersConsistent == Spec => []MutantOwnership
<1>1. Inv => MutantOwnership
  BY DEF Inv
<1> QED  BY <1>1, SpecInv, PTL

(* Nobody stays blocked on objects that would satisfy the wait.            *)
THEOREM WakeupsNotLost == Spec => []NoLostWakeup
<1>1. Inv => NoLostWakeup
  BY DEF Inv
<1> QED  BY <1>1, SpecInv, PTL
-----------------------------------------------------------------------------
(***************************************************************************)
(* Interruptions: what every step does to the waits, alerts and APCs of    *)
(* each thread.                                                            *)
(***************************************************************************)

(* What KiUnwaitThread does to each thread. *)
LEMMA UnwaitEffect ==
  ASSUME TypeOK, NEW S \in SUBSET Thread, NEW st, KiUnwaitThread(S, st), NEW t \in Thread
  PROVE  /\ t \notin S => /\ thread'[t] = thread[t] /\ wait'[t] = wait[t]
                          /\ status'[t] = status[t]
         /\ t \in S /\ st[t] = Status("KernelApc") =>
              /\ thread'[t] = "WaitLoop" /\ wait'[t] = wait[t]
              /\ status'[t] = status[t]
         /\ t \in S /\ st[t] # Status("KernelApc") =>
              /\ thread'[t] = "Running" /\ wait'[t] = NoWait
              /\ status'[t] = st[t]
  BY DEF KiUnwaitThread

(* A wait test: takers return, the others of S retry. *)
LEMMA WaitTestEffect ==
  ASSUME TypeOK, WaitListsMatchThreads, NEW o \in Object, NEW ab \in BOOLEAN,
         NEW S \in SUBSET Waiters(o), KiWaitTest(o, ab, S), NEW t \in Thread
  PROVE  /\ t \notin S => /\ thread'[t] = thread[t] /\ wait'[t] = wait[t]
                          /\ status'[t] = status[t]
         /\ t \in S \ Takers(S) =>
              /\ thread'[t] = "WaitLoop" /\ wait'[t] = wait[t]
              /\ status'[t] = status[t]
         /\ t \in Takers(S) =>
              /\ t \in S /\ WaitsForAny(t)
              /\ thread'[t] = "Running" /\ wait'[t] = NoWait
              /\ status'[t] = Satisfied(IndexOf(t, o) - 1, ab)
         /\ t \in S => thread[t] = "Waiting" /\ o \in Objects(t)
         /\ \A x \in Object : Waiters(x)' = Waiters(x) \ S
<1> DEFINE T == Takers(S)
           st == [u \in S |-> IF u \in T THEN Satisfied(IndexOf(u, o) - 1, ab)
                                         ELSE Status("KernelApc")]
<1>1. S \subseteq Thread /\ \A u \in S : thread[u] = "Waiting"
  BY WaitTestStatus
<1>2. KiUnwaitThread(S, st)
  BY DEF KiWaitTest
<1>3. /\ \A u \in T : st[u] = Satisfied(IndexOf(u, o) - 1, ab) /\ st[u] # Status("KernelApc")
      /\ \A u \in S \ T : st[u] = Status("KernelApc")
      /\ \A u \in T : u \in S /\ WaitsForAny(u)
  BY DEF Takers, Satisfied, Status
<1>4. st \in [S -> StatusSet]
  BY WaitTestStatus
<1> HIDE DEF st, T
<1>5. \A x \in Object : Waiters(x)' = Waiters(x) \ S
  BY <1>1, <1>2, <1>4, UnwaitKeepsLists
<1>6. t \in S => o \in Objects(t)
  BY DEF WaitListsMatchThreads
<1>7. /\ t \notin S => /\ thread'[t] = thread[t] /\ wait'[t] = wait[t]
                       /\ status'[t] = status[t]
      /\ t \in S /\ st[t] = Status("KernelApc") =>
           /\ thread'[t] = "WaitLoop" /\ wait'[t] = wait[t]
           /\ status'[t] = status[t]
      /\ t \in S /\ st[t] # Status("KernelApc") =>
           /\ thread'[t] = "Running" /\ wait'[t] = NoWait
           /\ status'[t] = st[t]
  BY <1>1, <1>2, UnwaitEffect
<1> QED  BY <1>1, <1>3, <1>5, <1>6, <1>7 DEF T

(***************************************************************************)
(* The steps that serve waiters of an object: every one of them is a wait  *)
(* test of some of its waiters, but for the hand-off of                    *)
(* KeSetEventBoostPriority.                                                *)
(***************************************************************************)
(* The waiters ahead of one that is served are served too. *)
InOrder(o, S) == \A u \in S : Ahead(o, u) \subseteq S

(* The object is not given to more waiters than its state is worth. *)
Worth(o, S) ==
  Takers(S) # {} =>
    CASE Kind[o] = "NotificationEvent" -> TRUE
      [] Kind[o] = "Semaphore" -> Cardinality(Takers(S)) + signal'[o] <= Limit[o]
      [] OTHER                 -> Cardinality(Takers(S)) = 1 /\ signal'[o] <= 0

Tests(o, ab, S) ==
  /\ S \subseteq Waiters(o)
  /\ InOrder(o, S) /\ Worth(o, S)
  /\ KiWaitTest(o, ab, S)
  /\ UNCHANGED <<apcVars, alerted>>

HandsOff(o, u) ==
  /\ o \in BoostEvent
  /\ IsFirst(o, u) /\ WaitsForAny(u)
  /\ KiUnwaitThread({u}, [x \in {u} |-> Satisfied(0, FALSE)])
  /\ UNCHANGED <<signal, owner, abandoned, apcVars, alerted>>

LEMMA NoneServed ==
  ASSUME NEW o
  PROVE  {} \subseteq Waiters(o) /\ {} \in SUBSET Thread /\ InOrder(o, {}) /\ Worth(o, {})
  BY DEF InOrder, Worth, Takers

(* Nobody is ahead of a waiter that has fewer threads ahead of it. *)
LEMMA AheadTransitive ==
  ASSUME WaitListsMatchThreads, NEW o \in Object,
         NEW u \in Waiters(o), NEW v \in Ahead(o, u)
  PROVE  v \in Waiters(o) /\ Ahead(o, v) \subseteq Ahead(o, u)
<1>1. /\ u \in Thread /\ v \in Thread /\ v # u /\ <<v, u>> \in waitList[o]
      /\ v \in Waiters(o)
  BY DEF Ahead, WaitListsMatchThreads, Waiters
<1>2. ASSUME NEW x \in Ahead(o, v) PROVE x \in Ahead(o, u)
  <2>0. x \in Thread /\ x # v /\ <<x, v>> \in waitList[o]
    BY <1>2 DEF Ahead
  <2>1. x \in Thread /\ x # v /\ <<x, v>> \in waitList[o] /\ x \in Waiters(o)
    BY <2>0 DEF WaitListsMatchThreads
  <2>2. <<x, u>> \in waitList[o]
    BY <1>1, <2>1 DEF WaitListsMatchThreads
  <2>3. x # u
    BY <1>1, <2>1 DEF WaitListsMatchThreads
  <2> QED  BY <2>1, <2>2, <2>3 DEF Ahead
<1> QED  BY <1>1, <1>2

(* Sets of threads are finite, and a larger one has no fewer members. *)
LEMMA ThreadCount ==
  ASSUME NEW A \in SUBSET Thread, NEW B \in SUBSET A
  PROVE  /\ IsFiniteSet(A) /\ Cardinality(A) \in Nat /\ Cardinality(B) \in Nat
         /\ Cardinality(B) <= Cardinality(A)
<1>1. IsFiniteSet(A) /\ IsFiniteSet(B)
  BY DispatcherAssumption, FS_Subset DEF DispatcherAssumption
<1> QED  BY <1>1, FS_Subset, FS_CardinalityType

LEMMA ServedInOrder ==
  ASSUME WaitListsMatchThreads, NEW o \in Object, NEW n \in Nat
  PROVE  /\ Served(o, n) \subseteq Waiters(o) /\ Served(o, n) \in SUBSET Thread
         /\ InOrder(o, Served(o, n))
<1>1. Served(o, n) \subseteq Waiters(o) /\ Served(o, n) \in SUBSET Thread
  BY DEF Served, Waiters
<1>2. ASSUME NEW u \in Served(o, n), NEW v \in Ahead(o, u) PROVE v \in Served(o, n)
  <2>1. /\ u \in Waiters(o) /\ v \in Waiters(o) /\ u \in Thread /\ v \in Thread
        /\ Ahead(o, v) \subseteq Ahead(o, u)
    BY <1>1, AheadTransitive DEF Ahead
  <2>2. AnyAhead(o, v) \subseteq AnyAhead(o, u) /\ AnyAhead(o, u) \subseteq Thread
    BY <2>1 DEF AnyAhead, Ahead
  <2>3. /\ Cardinality(AnyAhead(o, v)) <= Cardinality(AnyAhead(o, u))
        /\ Cardinality(AnyAhead(o, v)) \in Nat /\ Cardinality(AnyAhead(o, u)) \in Nat
    BY <2>2, ThreadCount
  <2>4. CASE Kind[o] = "NotificationEvent"
    BY <2>1, <2>4 DEF Served
  <2>5. CASE Kind[o] # "NotificationEvent"
    <3>1. Cardinality(AnyAhead(o, u)) < n
      BY <2>5 DEF Served
    <3>2. Cardinality(AnyAhead(o, v)) < n
      BY <2>3, <3>1
    <3> QED  BY <2>1, <3>2 DEF Served
  <2> QED  BY <2>4, <2>5
<1> QED  BY <1>1, <1>2 DEF InOrder

(* The first k waiters of a pulse that a KeClearEvent cuts short. *)
LEMMA FirstInOrder ==
  ASSUME WaitListsMatchThreads, NEW o \in Object, NEW S \in SUBSET Waiters(o),
         InOrder(o, S), NEW k \in Int
  PROVE  InOrder(o, {u \in S : Cardinality(Ahead(o, u)) < k})
<1> DEFINE F == {u \in S : Cardinality(Ahead(o, u)) < k}
<1>1. ASSUME NEW u \in F, NEW v \in Ahead(o, u) PROVE v \in F
  <2>1. u \in S /\ v \in S /\ Cardinality(Ahead(o, u)) < k
    BY DEF InOrder
  <2>2. u \in Waiters(o) /\ Ahead(o, v) \subseteq Ahead(o, u) /\ Ahead(o, u) \subseteq Thread
    BY <2>1, AheadTransitive DEF Ahead
  <2>3. /\ Cardinality(Ahead(o, v)) <= Cardinality(Ahead(o, u))
        /\ Cardinality(Ahead(o, v)) \in Nat /\ Cardinality(Ahead(o, u)) \in Nat
    BY <2>2, ThreadCount
  <2>4. Cardinality(Ahead(o, v)) < k
    BY <2>1, <2>3
  <2> QED  BY <2>1, <2>4
<1> HIDE DEF F
<1>2. InOrder(o, F)
  BY <1>1 DEF InOrder
<1> QED  BY <1>2 DEF F

(* A test with the state n that leaves StateAfter. *)
LEMMA ServedWorth ==
  ASSUME WaitListsMatchThreads, NEW o \in Object, NEW n \in Nat \ {0},
         IF Kind[o] = "Semaphore" THEN n <= Limit[o] ELSE n = 1,
         signal'[o] = StateAfter(o, n, Served(o, n))
  PROVE  Worth(o, Served(o, n))
<1> DEFINE T == Takers(Served(o, n))
           k == Cardinality(T)
<1>1. Kind[o] \in Kinds /\ Limit[o] \in Nat
  BY DispatcherAssumption DEF DispatcherAssumption
<1>2. CASE Kind[o] = "NotificationEvent"
  BY <1>2 DEF Worth
<1>3. CASE Kind[o] # "NotificationEvent" /\ T # {}
  <2>1. k \in Nat /\ k <= n /\ k # 0
    BY <1>3, TakersBound, FS_EmptySet
  <2>2. signal'[o] = KiWaitSatisfyAny(o, n, k)
    BY DEF StateAfter
  <2> HIDE DEF k, T
  <2>3. CASE Kind[o] = "SynchronizationEvent"
    <3>1. signal'[o] = 0 /\ k = 1
      BY <2>1, <2>2, <2>3 DEF KiWaitSatisfyAny
    <3> QED  BY <2>3, <3>1 DEF Worth, T, k
  <2>4. CASE Kind[o] = "Semaphore"
    <3>1. signal'[o] = n - k /\ n <= Limit[o]
      BY <2>1, <2>2, <2>4 DEF KiWaitSatisfyAny
    <3>2. k + signal'[o] <= Limit[o]
      BY <1>1, <2>1, <3>1
    <3> QED  BY <2>4, <3>2 DEF Worth, T, k
  <2>5. CASE Kind[o] = "Mutant"
    <3>1. signal'[o] = n - k /\ n = 1
      BY <2>1, <2>2, <2>5 DEF KiWaitSatisfyAny
    <3>2. k = 1 /\ signal'[o] <= 0
      BY <2>1, <3>1
    <3> QED  BY <2>5, <3>2 DEF Worth, T, k
  <2> QED  BY <1>1, <1>3, <2>3, <2>4, <2>5 DEF Kinds
<1>4. CASE T = {}
  BY <1>4 DEF Worth
<1> QED  BY <1>2, <1>3, <1>4

(* A pulse: some of the waiters that a test would serve, and the state 0. *)
LEMMA PulseWorth ==
  ASSUME WaitListsMatchThreads, NEW o \in Object, IsEvent(o),
         NEW S \in SUBSET Served(o, 1), signal'[o] = 0
  PROVE  Worth(o, S)
<1>1. CASE Kind[o] = "NotificationEvent"
  BY <1>1 DEF Worth
<1>2. CASE Kind[o] = "SynchronizationEvent" /\ Takers(S) # {}
  <2>1. Takers(S) \subseteq Takers(Served(o, 1))
    BY DEF Takers
  <2>2. Takers(Served(o, 1)) \in SUBSET Thread
    BY DEF Takers, Served, Waiters
  <2>3. /\ Cardinality(Takers(S)) <= Cardinality(Takers(Served(o, 1)))
        /\ Cardinality(Takers(S)) \in Nat /\ IsFiniteSet(Takers(S))
    BY <2>1, <2>2, ThreadCount
  <2>4. Cardinality(Takers(Served(o, 1))) <= 1 /\ Cardinality(Takers(Served(o, 1))) \in Nat
    BY <1>2, TakersBound
  <2>5. Cardinality(Takers(S)) # 0
    BY <1>2, <2>3, FS_EmptySet
  <2>6. Cardinality(Takers(S)) = 1
    BY <2>3, <2>4, <2>5
  <2> QED  BY <1>2, <2>6 DEF Worth
<1>3. CASE Takers(S) = {}
  BY <1>3 DEF Worth
<1> QED  BY <1>1, <1>2, <1>3 DEF IsEvent


(* A signalling thread tests an object, hands an event to one waiter, or   *)
(* touches no wait.                                                        *)
LEMMA SignallingCases ==
  ASSUME Inv, NEW t \in Thread, Signalling(t)
  PROVE  \/ \E o \in Object, S \in SUBSET Thread : Tests(o, FALSE, S) /\ ~IsMutant(o)
         \/ \E o \in Object : /\ Tests(o, abandoned[o], Served(o, 1))
                              /\ IsMutant(o) /\ owner[o] = t /\ thread[t] = "Running"
         \/ \E o \in Object, u \in Thread : HandsOff(o, u)
         \/ /\ UNCHANGED <<waitList, thread, wait, status, reached, owner, abandoned>>
            /\ UNCHANGED <<apcVars, alerted>>
<1>0. TypeOK /\ WaitListsMatchThreads
  BY DEF Inv
<1>a. ASSUME NEW o \in Object, NEW n \in Nat \ {0},
             IF Kind[o] = "Semaphore" THEN n <= Limit[o] ELSE n = 1,
             signal' = [signal EXCEPT ![o] = StateAfter(o, n, Served(o, n))]
      PROVE  /\ Served(o, n) \subseteq Waiters(o) /\ Served(o, n) \in SUBSET Thread
             /\ InOrder(o, Served(o, n)) /\ Worth(o, Served(o, n))
  <2>1. signal'[o] = StateAfter(o, n, Served(o, n))
    BY <1>0, <1>a DEF TypeOK
  <2> QED  BY <1>0, <1>a, <2>1, ServedInOrder, ServedWorth
<1>b. 1 \in Nat \ {0}
  OBVIOUS
<1>1. CASE \E o \in Object, w \in BOOLEAN : KeSetEvent(t, o, w)
  <2>1. PICK o \in Object, w \in BOOLEAN : KeSetEvent(t, o, w)
    BY <1>1
  <2>2. ~IsMutant(o) /\ Kind[o] # "Semaphore"
    BY <2>1 DEF KeSetEvent, IsEvent, IsMutant
  <2>3. CASE signal[o] = 0
    <3>1. /\ signal' = [signal EXCEPT ![o] = StateAfter(o, 1, Served(o, 1))]
          /\ KiWaitTest(o, FALSE, Served(o, 1)) /\ UNCHANGED <<apcVars, alerted>>
      BY <2>1, <2>3 DEF KeSetEvent
    <3>2. Tests(o, FALSE, Served(o, 1)) /\ Served(o, 1) \in SUBSET Thread
      BY <1>a, <1>b, <2>2, <3>1 DEF Tests
    <3> QED  BY <2>2, <3>2
  <2>4. CASE signal[o] # 0
    <3>1. Tests(o, FALSE, {}) /\ {} \in SUBSET Thread
      BY <2>1, <2>4, NoneServed DEF KeSetEvent, Tests
    <3> QED  BY <2>2, <3>1
  <2> QED  BY <2>3, <2>4
<1>2. CASE \E o \in Object, w \in BOOLEAN :
              KePulseEvent(t, o, w) \/ \E c \in Thread : KePulseEventRacingClear(t, c, o, w)
  <2>1. PICK o \in Object, w \in BOOLEAN :
              KePulseEvent(t, o, w) \/ \E c \in Thread : KePulseEventRacingClear(t, c, o, w)
    BY <1>2
  <2>2. ~IsMutant(o) /\ IsEvent(o) /\ signal' = [signal EXCEPT ![o] = 0]
        /\ UNCHANGED <<apcVars, alerted>>
    BY <2>1 DEF KePulseEvent, KePulseEventRacingClear, IsEvent, IsMutant
  <2>3. signal'[o] = 0
    BY <1>0, <2>2 DEF TypeOK
  <2>4. /\ Served(o, 1) \subseteq Waiters(o) /\ Served(o, 1) \in SUBSET Thread
        /\ InOrder(o, Served(o, 1))
    BY <1>0, ServedInOrder
  <2>5. PICK S \in SUBSET Served(o, 1) : KiWaitTest(o, FALSE, S) /\ InOrder(o, S)
    <3>1. CASE KePulseEvent(t, o, w)
      <4>1. KiWaitTest(o, FALSE, Served(o, 1)) \/ KiWaitTest(o, FALSE, {})
        BY <3>1 DEF KePulseEvent
      <4> QED  BY <2>4, <4>1, NoneServed
    <3>2. CASE \E c \in Thread : KePulseEventRacingClear(t, c, o, w)
      <4>1. Cardinality(Served(o, 1)) \in Nat
        BY <2>4, ThreadCount
      <4>2. PICK k \in 0..(Cardinality(Served(o, 1)) - 1) :
               KiWaitTest(o, FALSE, {u \in Served(o, 1) : Cardinality(Ahead(o, u)) < k})
        BY <3>2 DEF KePulseEventRacingClear
      <4>3. k \in Int
        BY <4>1
      <4>4. InOrder(o, {u \in Served(o, 1) : Cardinality(Ahead(o, u)) < k})
        BY <1>0, <2>4, <4>3, FirstInOrder
      <4> QED  BY <4>2, <4>4
    <3> QED  BY <2>1, <3>1, <3>2
  <2>6. Worth(o, S)
    BY <1>0, <2>2, <2>3, PulseWorth
  <2>7. Tests(o, FALSE, S) /\ S \in SUBSET Thread
    BY <2>2, <2>4, <2>5, <2>6 DEF Tests
  <2> QED  BY <2>2, <2>7
<1>3. CASE \E o \in Object, w \in BOOLEAN : KeReleaseMutant(t, o, w)
  <2>1. PICK o \in Object, w \in BOOLEAN : KeReleaseMutant(t, o, w)
    BY <1>3
  <2>2. CASE signal[o] + 1 = 1
    <3>1. /\ signal' = [signal EXCEPT ![o] = StateAfter(o, 1, Served(o, 1))]
          /\ KiWaitTest(o, abandoned[o], Served(o, 1)) /\ UNCHANGED <<apcVars, alerted>>
          /\ IsMutant(o) /\ owner[o] = t /\ thread[t] = "Running"
      BY <2>1, <2>2 DEF KeReleaseMutant, CanLock
    <3>2. Kind[o] # "Semaphore"
      BY <3>1 DEF IsMutant
    <3>3. Tests(o, abandoned[o], Served(o, 1))
      BY <1>a, <1>b, <3>1, <3>2 DEF Tests
    <3> QED  BY <3>1, <3>3
  <2>3. CASE signal[o] + 1 # 1
    BY <2>1, <2>3 DEF KeReleaseMutant, waitVars
  <2> QED  BY <2>2, <2>3
<1>4. CASE \E o \in Object, w \in BOOLEAN, a \in 1..LongMax : KeReleaseSemaphore(t, o, a, w)
  <2>1. PICK o \in Object, w \in BOOLEAN, a \in 1..LongMax : KeReleaseSemaphore(t, o, a, w)
    BY <1>4
  <2> DEFINE n == ToLong(signal[o] + a)
  <2>2. ~IsMutant(o) /\ Kind[o] = "Semaphore"
    BY <2>1 DEF KeReleaseSemaphore, IsMutant
  <2>3. n \in Nat \ {0} /\ n <= Limit[o]
    BY <2>1, ReleasedCount
  <2>4. /\ signal[o] = 0 => /\ signal' = [signal EXCEPT ![o] = StateAfter(o, n, Served(o, n))]
                            /\ KiWaitTest(o, FALSE, Served(o, n))
        /\ signal[o] # 0 => KiWaitTest(o, FALSE, {})
        /\ UNCHANGED <<apcVars, alerted>>
    BY <2>1 DEF KeReleaseSemaphore
  <2> HIDE DEF n
  <2>5. CASE signal[o] = 0
    <3>1. Tests(o, FALSE, Served(o, n)) /\ Served(o, n) \in SUBSET Thread
      BY <1>a, <2>2, <2>3, <2>4, <2>5 DEF Tests
    <3> QED  BY <2>2, <3>1
  <2>6. CASE signal[o] # 0
    <3>1. Tests(o, FALSE, {}) /\ {} \in SUBSET Thread
      BY <2>4, <2>6, NoneServed DEF Tests
    <3> QED  BY <2>2, <3>1
  <2> QED  BY <2>5, <2>6
<1>5. CASE \E o \in Object : KeResetEvent(t, o) \/ KeClearEvent(t, o)
  BY <1>5 DEF KeResetEvent, KeClearEvent, waitVars
<1>6. CASE \E o \in Object : KeSetEventBoostPriority(t, o)
  <2>1. PICK o \in Object : KeSetEventBoostPriority(t, o)
    BY <1>6
  <2>2. ~IsMutant(o) /\ Kind[o] # "Semaphore" /\ o \in BoostEvent
        /\ UNCHANGED <<apcVars, alerted>>
    BY <2>1, DispatcherAssumption DEF DispatcherAssumption, KeSetEventBoostPriority, IsMutant
  <2>3. CASE /\ signal' = [signal EXCEPT ![o] = StateAfter(o, 1, Served(o, 1))]
             /\ KiWaitTest(o, FALSE, Served(o, 1))
    <3>1. Tests(o, FALSE, Served(o, 1)) /\ Served(o, 1) \in SUBSET Thread
      BY <1>a, <1>b, <2>2, <2>3 DEF Tests
    <3> QED  BY <2>2, <3>1
  <2>4. CASE \E u \in Thread :
               /\ IsFirst(o, u) /\ WaitsForAny(u)
               /\ KiUnwaitThread({u}, [x \in {u} |-> Satisfied(0, FALSE)])
               /\ UNCHANGED <<signal, owner, abandoned>>
    BY <2>2, <2>4 DEF HandsOff
  <2> QED  BY <2>1, <2>3, <2>4 DEF KeSetEventBoostPriority
<1> QED  BY <1>1, <1>2, <1>3, <1>4, <1>5, <1>6 DEF Signalling

LEMMA AbandonCase ==
  ASSUME Inv, NEW t \in Thread, NEW o \in Object, AbandonMutant(t, o)
  PROVE  /\ Tests(o, TRUE, Served(o, 1))
         /\ IsMutant(o) /\ owner[o] = t /\ thread[t] = "Rundown"
<1>0. TypeOK /\ WaitListsMatchThreads
  BY DEF Inv
<1>1. /\ signal' = [signal EXCEPT ![o] = StateAfter(o, 1, Served(o, 1))]
      /\ KiWaitTest(o, TRUE, Served(o, 1)) /\ UNCHANGED <<apcVars, alerted>>
      /\ IsMutant(o) /\ owner[o] = t /\ thread[t] = "Rundown"
  BY DEF AbandonMutant
<1>2. signal'[o] = StateAfter(o, 1, Served(o, 1)) /\ 1 \in Nat \ {0} /\ Kind[o] # "Semaphore"
  BY <1>0, <1>1 DEF TypeOK, IsMutant
<1>3. /\ Served(o, 1) \subseteq Waiters(o) /\ InOrder(o, Served(o, 1))
      /\ Worth(o, Served(o, 1))
  BY <1>0, <1>2, ServedInOrder, ServedWorth
<1> QED  BY <1>1, <1>3 DEF Tests

(* Somebody's wait ends without an object. *)
Interrupts(u) ==
  /\ thread[u] = "Waiting"
  /\ \E c \in Codes \ {"Object"} : UnwaitOne(u, c)
  /\ UNCHANGED <<signal, owner, abandoned>>

(* A step that ends no blocked wait and changes no owner. *)
EndsNoWait ==
  /\ \A u \in Thread : thread[u] = "Waiting" => thread'[u] = "Waiting"
  /\ UNCHANGED <<owner, abandoned>>

LEMMA WaitsCases ==
  ASSUME Inv, NEW t \in Thread, Waits(t)
  PROVE  SatisfyAtOnce(t) \/ EndsNoWait \/ Interrupts(t)
<1>0. TypeOK
  BY DEF Inv
<1>1. CASE \E r \in Request : KeWaitForObjects(t, r)
  BY <1>0, <1>1 DEF KeWaitForObjects, EndsNoWait, TypeOK, objectVars
<1>2. CASE DropLockForApc(t) \/ ReachDueTime(t)
  BY <1>0, <1>2 DEF DropLockForApc, ReachDueTime, EndsNoWait, waitVars, objectVars
<1>3. CASE ExpireTimer(t)
  <2>1. "Timeout" \in Codes \ {"Object"}
    BY DEF Codes
  <2> QED  BY <1>3, <2>1 DEF ExpireTimer, Interrupts
<1>4. CASE WaitPass(t)
  <2>1. CASE Block(t)
    BY <1>0, <2>1 DEF Block, EndsNoWait, TypeOK
  <2>2. CASE MutantLimitExceeded(t) \/ AlertWait(t) \/ UserApcWait(t) \/ TimeoutAtOnce(t)
    <3>1. /\ thread[t] = "WaitLoop" /\ UNCHANGED objectVars
          /\ thread' = [thread EXCEPT ![t] = "Running"]
      BY <2>2 DEF MutantLimitExceeded, AlertWait, UserApcWait, TimeoutAtOnce, MustBlock,
                  Evaluates, InLoop, ReturnAtOnce
    <3> QED  BY <1>0, <3>1 DEF EndsNoWait, TypeOK, objectVars
  <2> QED  BY <1>4, <2>1, <2>2 DEF WaitPass
<1> QED  BY <1>1, <1>2, <1>3, <1>4 DEF Waits

LEMMA ApcCases ==
  ASSUME Inv, NEW t \in Thread, AlertsAndApcs(t)
  PROVE  EndsNoWait \/ \E u \in Thread : Interrupts(u)
<1>1. {"Alerted", "UserApc", "KernelApc"} \subseteq Codes \ {"Object"}
  BY DEF Codes
<1>2. CASE \E u \in Thread, m \in Mode : KeAlertThread(t, u, m)
  BY <1>1, <1>2 DEF KeAlertThread, Interrupts, EndsNoWait, waitVars
<1>3. CASE \/ \E m \in Mode : KeTestAlertThread(t, m)
           \/ \E isExit \in BOOLEAN : QueueUserApc(t, isExit)
           \/ DeliverUserApc(t) \/ KeRemoveQueueApc(t) \/ DeliverKernelApc(t)
  <2>1. UNCHANGED <<objectVars, waitVars>>
    BY <1>3 DEF KeTestAlertThread, QueueUserApc, DeliverUserApc, KeRemoveQueueApc,
                DeliverKernelApc
  <2> QED  BY <2>1 DEF EndsNoWait, objectVars, waitVars
<1>4. CASE UnwaitForUserApc(t)
  BY <1>1, <1>4 DEF UnwaitForUserApc, Interrupts, EndsNoWait, waitVars
<1>5. CASE QueueKernelApc(t)
  BY <1>1, <1>5 DEF QueueKernelApc, Interrupts, EndsNoWait, waitVars
<1> QED  BY <1>2, <1>3, <1>4, <1>5 DEF AlertsAndApcs

(* Every step of the specification, by the way it ends waits and changes   *)
(* owners.                                                                 *)
LEMMA StepCases ==
  ASSUME Inv, [Next]_vars
  PROVE  \/ \E o \in Object, S \in SUBSET Thread : Tests(o, FALSE, S) /\ ~IsMutant(o)
         \/ \E o \in Object : /\ Tests(o, abandoned[o], Served(o, 1)) /\ IsMutant(o)
                              /\ owner[o] \in Thread /\ thread[owner[o]] = "Running"
         \/ \E o \in Object : /\ Tests(o, TRUE, Served(o, 1)) /\ IsMutant(o)
                              /\ owner[o] \in Thread /\ thread[owner[o]] = "Rundown"
         \/ \E o \in Object, u \in Thread : HandsOff(o, u)
         \/ \E t \in Thread : SatisfyAtOnce(t)
         \/ \E u \in Thread : Interrupts(u)
         \/ EndsNoWait
<1>0. TypeOK
  BY DEF Inv
<1>1. CASE UNCHANGED vars
  BY <1>1 DEF vars, objectVars, waitVars, EndsNoWait
<1>2. ASSUME NEW t \in Thread, Signalling(t)
      PROVE  \/ \E o \in Object, S \in SUBSET Thread : Tests(o, FALSE, S) /\ ~IsMutant(o)
             \/ \E o \in Object : /\ Tests(o, abandoned[o], Served(o, 1)) /\ IsMutant(o)
                                  /\ owner[o] \in Thread /\ thread[owner[o]] = "Running"
             \/ \E o \in Object, u \in Thread : HandsOff(o, u)
             \/ EndsNoWait
  <2>1. CASE /\ UNCHANGED <<waitList, thread, wait, status, reached, owner, abandoned>>
             /\ UNCHANGED <<apcVars, alerted>>
    BY <2>1 DEF EndsNoWait
  <2>2. CASE \E o \in Object : /\ Tests(o, abandoned[o], Served(o, 1))
                              /\ IsMutant(o) /\ owner[o] = t /\ thread[t] = "Running"
    <3>1. PICK o \in Object : /\ Tests(o, abandoned[o], Served(o, 1))
                             /\ IsMutant(o) /\ owner[o] = t /\ thread[t] = "Running"
      BY <2>2
    <3>2. owner[o] \in Thread /\ thread[owner[o]] = "Running"
      BY <3>1
    <3> QED  BY <3>1, <3>2
  <2>3. CASE \E o \in Object, S \in SUBSET Thread : Tests(o, FALSE, S) /\ ~IsMutant(o)
    BY <2>3
  <2> QED  BY <1>2, <2>1, <2>2, <2>3, SignallingCases
<1>3. ASSUME NEW t \in Thread, Rundown(t)
      PROVE  \/ \E o \in Object : /\ Tests(o, TRUE, Served(o, 1)) /\ IsMutant(o)
                                  /\ owner[o] \in Thread /\ thread[owner[o]] = "Rundown"
             \/ EndsNoWait
  <2>1. CASE KeRundownThread(t) \/ RundownDone(t)
    BY <1>0, <2>1 DEF KeRundownThread, CanLock, RundownDone, EndsNoWait, TypeOK, objectVars
  <2>2. CASE \E o \in Object : AbandonMutant(t, o)
    BY ZenonT(60), <2>2, AbandonCase
  <2> QED  BY <1>3, <2>1, <2>2 DEF Rundown
<1>4. ASSUME NEW t \in Thread, Waits(t)
      PROVE  SatisfyAtOnce(t) \/ EndsNoWait \/ Interrupts(t)
  BY <1>4, WaitsCases
<1>5. ASSUME NEW t \in Thread, AlertsAndApcs(t)
      PROVE  EndsNoWait \/ \E u \in Thread : Interrupts(u)
  BY <1>5, ApcCases
<1>6. CASE Next
  BY <1>2, <1>3, <1>4, <1>5, <1>6 DEF Next
<1> QED  BY <1>1, <1>6
-----------------------------------------------------------------------------
(***************************************************************************)
(* Who gets an object: in order, and to what the signal is worth.          *)
(***************************************************************************)

(* The code reports a hand-off of KeSetEventBoostPriority as the object of *)
(* index 0, so that a wait for any of several objects can learn from it    *)
(* which one it got only if the event is its first.                        *)
BoostedFirst ==
  \A r \in Request, o \in BoostEvent : \A i \in DOMAIN r.objs :
     r.type = "Any" /\ r.objs[i] = o => i = 1

(* What a step may do with an object o: hand it to the waiters of S.       *)
GivesTo(o, S) ==
  /\ \A t \in Thread : Completes(t) => t \in S /\ WaitsForAny(t)
  /\ \A t \in Thread, x \in Object : CompletesWith(t, x) => x = o
  /\ S \in SUBSET Thread
  /\ InOrder(o, S) /\ Worth(o, S)
  /\ Waiters(o)' = Waiters(o) \ S

(* The index that a satisfied wait reports is that of the object.          *)
LEMMA IndexFound ==
  ASSUME TypeOK, NEW t \in Thread, NEW o \in Objects(t)
  PROVE  /\ IndexOf(t, o) \in DOMAIN wait[t].objs /\ wait[t].objs[IndexOf(t, o)] = o
         /\ IndexOf(t, o) \in Nat \ {0} /\ (IndexOf(t, o) - 1) + 1 = IndexOf(t, o)
<1>1. \E i \in DOMAIN wait[t].objs : wait[t].objs[i] = o
  BY DEF Objects
<1>2. IndexOf(t, o) \in DOMAIN wait[t].objs /\ wait[t].objs[IndexOf(t, o)] = o
  BY <1>1 DEF IndexOf
<1>3. IndexOf(t, o) \in Nat \ {0}
  BY <1>2, WaitType
<1> HIDE DEF IndexOf
<1> QED  BY <1>2, <1>3

LEMMA TestGives ==
  ASSUME Inv, NEW o \in Object, NEW ab \in BOOLEAN, NEW S, Tests(o, ab, S)
  PROVE  GivesTo(o, S)
<1>0. TypeOK /\ WaitListsMatchThreads /\ S \in SUBSET Waiters(o) /\ KiWaitTest(o, ab, S)
      /\ InOrder(o, S) /\ Worth(o, S) /\ S \in SUBSET Thread
  BY DEF Inv, Tests, Waiters
<1>1. ASSUME NEW t \in Thread, Completes(t)
      PROVE  /\ t \in S /\ WaitsForAny(t)
             /\ status'[t] = Satisfied(IndexOf(t, o) - 1, ab) /\ o \in Objects(t)
  <2>1. thread[t] = "Waiting" /\ thread'[t] = "Running"
    BY <1>1 DEF Completes
  <2>2. t \in Takers(S)
    BY <1>0, <2>1, WaitTestEffect
  <2> QED  BY <1>0, <2>2, WaitTestEffect
<1>2. ASSUME NEW t \in Thread, NEW x \in Object, CompletesWith(t, x)
      PROVE  x = o
  <2>1. Completes(t) /\ x = wait[t].objs[status'[t].index + 1]
    BY <1>2 DEF CompletesWith
  <2>2. status'[t].index = IndexOf(t, o) - 1 /\ o \in Objects(t)
    <3>1. status'[t] = Satisfied(IndexOf(t, o) - 1, ab) /\ o \in Objects(t)
      BY <1>1, <2>1
    <3> HIDE DEF IndexOf, Objects
    <3> QED  BY <3>1 DEF Satisfied
  <2>3. x = wait[t].objs[(IndexOf(t, o) - 1) + 1]
    BY <2>1, <2>2
  <2> QED  BY <1>0, <2>2, <2>3, IndexFound
<1>3. Waiters(o)' = Waiters(o) \ S
  <2>1. CASE Thread = {}
    BY <2>1 DEF Waiters
  <2>2. CASE Thread # {}
    BY <1>0, <2>2, WaitTestEffect
  <2> QED  BY <2>1, <2>2
<1> QED  BY <1>0, <1>1, <1>2, <1>3 DEF GivesTo

LEMMA HandOffGives ==
  ASSUME Inv, BoostedFirst, NEW o \in Object, NEW u \in Thread, HandsOff(o, u)
  PROVE  GivesTo(o, {u})
<1> DEFINE st == [x \in {u} |-> Satisfied(0, FALSE)]
<1>0. /\ TypeOK /\ WaitListsMatchThreads /\ SignalInRange /\ NoLostWakeup
      /\ o \in BoostEvent /\ Kind[o] = "SynchronizationEvent"
      /\ u \in Waiters(o) /\ Ahead(o, u) = {} /\ WaitsForAny(u)
      /\ signal' = signal /\ KiUnwaitThread({u}, st)
  BY DispatcherAssumption DEF Inv, HandsOff, IsFirst, DispatcherAssumption
<1>1. thread[u] = "Waiting" /\ o \in Objects(u)
  BY <1>0 DEF WaitListsMatchThreads
<1>2. st \in [{u} -> StatusSet] /\ st[u] = Satisfied(0, FALSE) /\ st[u] # Status("KernelApc")
  BY DEF Satisfied, Status, StatusSet, Codes
<1> HIDE DEF st
<1>3. Waiters(o)' = Waiters(o) \ {u}
  BY ZenonT(60), <1>0, <1>1, <1>2, UnwaitKeepsLists
<1>4. ASSUME NEW t \in Thread, Completes(t)
      PROVE  t = u /\ status'[t] = Satisfied(0, FALSE)
  <2>1. thread[t] = "Waiting" /\ thread'[t] = "Running"
    BY <1>4 DEF Completes
  <2>2. CASE t \notin {u}
    BY <1>0, <2>1, <2>2, UnwaitEffect
  <2>3. CASE t = u
    <3>1. {u} \in SUBSET Thread /\ u \in {u}
      OBVIOUS
    <3>2. u \in {u} /\ st[u] # Status("KernelApc") => status'[u] = st[u]
      BY <1>0, <3>1, UnwaitEffect
    <3> QED  BY <1>2, <2>3, <3>2
  <2> QED  BY <2>2, <2>3
<1>5. wait[u].objs[1] = o
  <2>1. PICK i \in DOMAIN wait[u].objs : wait[u].objs[i] = o
    BY <1>1 DEF Objects
  <2>2. wait[u] \in Request
    <3>1. wait[u] # NoWait
      BY <2>1 DEF NoWait
    <3> QED  BY <1>0, <3>1 DEF TypeOK
  <2>3. i = 1
    BY <1>0, <2>1, <2>2 DEF BoostedFirst, WaitsForAny
  <2> QED  BY <2>1, <2>3
<1>6. ASSUME NEW t \in Thread, NEW x \in Object, CompletesWith(t, x)
      PROVE  x = o
  <2>1. Completes(t) /\ x = wait[t].objs[status'[t].index + 1]
    BY <1>6 DEF CompletesWith
  <2>2. t = u /\ status'[t].index = 0
    BY <1>4, <2>1 DEF Satisfied
  <2> QED  BY <1>5, <2>1, <2>2
<1>7. InOrder(o, {u})
  BY <1>0 DEF InOrder
<1>8. Worth(o, {u})
  <2>1. Takers({u}) = {u}
    BY <1>0 DEF Takers
  <2>2. Cardinality(Takers({u})) = 1
    BY <2>1, FS_Singleton
  <2>3. ~CanTake(u, o)
    BY <1>0, <1>1 DEF NoLostWakeup
  <2>4. signal[o] \in 0..1 /\ ~(signal[o] > 0)
    BY <1>0, <2>3 DEF SignalInRange, CanTake
  <2>5. signal'[o] <= 0
    BY <1>0, <2>4
  <2> QED  BY <1>0, <2>2, <2>5 DEF Worth
<1> QED  BY <1>0, <1>3, <1>4, <1>6, <1>7, <1>8 DEF GivesTo

(* Every step gives at most one object, and by GivesTo, or ends no wait    *)
(* with an object.                                                         *)
LEMMA StepGives ==
  ASSUME Inv, BoostedFirst, [Next]_vars
  PROVE  \/ \A t \in Thread : ~Completes(t)
         \/ \E o \in Object, S \in SUBSET Thread : GivesTo(o, S)
<1>0. TypeOK
  BY DEF Inv
<1>1. ASSUME NEW o \in Object, NEW ab \in BOOLEAN, NEW S, Tests(o, ab, S)
      PROVE  \E x \in Object, R \in SUBSET Thread : GivesTo(x, R)
  <2>1. GivesTo(o, S)
    BY <1>1, TestGives
  <2>2. S \in SUBSET Thread
    BY <2>1 DEF GivesTo
  <2> QED  BY <2>1, <2>2
<1>2. ASSUME NEW o \in Object, NEW u \in Thread, HandsOff(o, u)
      PROVE  \E x \in Object, R \in SUBSET Thread : GivesTo(x, R)
  BY <1>2, HandOffGives
<1>3. ASSUME NEW t \in Thread, SatisfyAtOnce(t), NEW v \in Thread
      PROVE  ~Completes(v)
  BY <1>0, <1>3 DEF SatisfyAtOnce, Evaluates, InLoop, ReturnAtOnce, Completes, TypeOK
<1>4. ASSUME NEW u \in Thread, Interrupts(u), NEW v \in Thread
      PROVE  ~Completes(v)
  <2>1. PICK c \in Codes \ {"Object"} : UnwaitOne(u, c)
    BY <1>4 DEF Interrupts
  <2> DEFINE st == [x \in {u} |-> Status(c)]
  <2>2. KiUnwaitThread({u}, st) /\ st[u] = Status(c)
    BY <2>1 DEF UnwaitOne
  <2> HIDE DEF st
  <2>3. thread[v] = "Waiting" /\ thread'[v] = "Running" => status'[v] = Status(c)
    BY <1>0, <2>2, UnwaitEffect
  <2> QED  BY <2>3 DEF Completes, Status
<1>5. ASSUME EndsNoWait, NEW v \in Thread
      PROVE  ~Completes(v)
  BY <1>5 DEF EndsNoWait, Completes
<1>6. \A o \in Object : abandoned[o] \in BOOLEAN /\ FALSE \in BOOLEAN /\ TRUE \in BOOLEAN
  BY <1>0 DEF TypeOK
<1> QED  BY <1>1, <1>2, <1>3, <1>4, <1>5, <1>6, StepCases

OrderStep ==
  \A o \in Object : \A t \in Waiters(o) :
     CompletesWith(t, o) => Ahead(o, t) \intersect Waiters(o)' = {}

LEMMA NextOrder == Inv /\ BoostedFirst /\ [Next]_vars => OrderStep
<1> SUFFICES ASSUME Inv, BoostedFirst, [Next]_vars,
                    NEW o \in Object, NEW t \in Waiters(o), CompletesWith(t, o)
             PROVE  Ahead(o, t) \intersect Waiters(o)' = {}
  BY DEF OrderStep
<1>1. t \in Thread /\ Completes(t)
  BY DEF Waiters, CompletesWith
<1>2. PICK x \in Object, S \in SUBSET Thread : GivesTo(x, S)
  BY <1>1, StepGives
<1>3. x = o /\ t \in S
  BY <1>1, <1>2 DEF GivesTo
<1>4. Ahead(o, t) \subseteq S /\ Waiters(o)' = Waiters(o) \ S
  BY <1>2, <1>3 DEF GivesTo, InOrder
<1> QED  BY <1>4

DuplicationStep ==
  \A o \in Object :
     LET n == Cardinality({t \in Thread : CompletesWith(t, o)})
     IN  n > 0 =>
           CASE Kind[o] = "NotificationEvent" -> TRUE
             [] Kind[o] = "Semaphore" -> n + signal'[o] <= Limit[o]
             [] OTHER                 -> n = 1 /\ signal'[o] <= 0

LEMMA NextDuplication == Inv /\ BoostedFirst /\ [Next]_vars => DuplicationStep
<1> SUFFICES ASSUME Inv, BoostedFirst, [Next]_vars, NEW o \in Object,
                    Cardinality({t \in Thread : CompletesWith(t, o)}) > 0
             PROVE  LET n == Cardinality({t \in Thread : CompletesWith(t, o)})
                    IN  CASE Kind[o] = "NotificationEvent" -> TRUE
                          [] Kind[o] = "Semaphore" -> n + signal'[o] <= Limit[o]
                          [] OTHER                 -> n = 1 /\ signal'[o] <= 0
  BY DEF DuplicationStep
<1> DEFINE C == {t \in Thread : CompletesWith(t, o)}
           n == Cardinality(C)
<1>1. C # {}
  <2> SUFFICES ASSUME C = {} PROVE FALSE
    OBVIOUS
  <2> QED  BY FS_EmptySet
<1>2. PICK t \in Thread : CompletesWith(t, o) /\ Completes(t)
  BY <1>1 DEF CompletesWith
<1>3. PICK x \in Object, S \in SUBSET Thread : GivesTo(x, S)
  BY <1>2, StepGives
<1>4. x = o /\ t \in Takers(S)
  BY <1>2, <1>3 DEF GivesTo, Takers
<1>5. C \subseteq Takers(S) /\ Takers(S) \subseteq Thread
  BY <1>3 DEF GivesTo, CompletesWith, Takers
<1>6. n \in Nat /\ Cardinality(Takers(S)) \in Nat /\ n <= Cardinality(Takers(S)) /\ n > 0
  BY <1>5, ThreadCount
<1>7. /\ Kind[o] = "Semaphore" => Cardinality(Takers(S)) + signal'[o] <= Limit[o]
      /\ Kind[o] \notin {"NotificationEvent", "Semaphore"} =>
           Cardinality(Takers(S)) = 1 /\ signal'[o] <= 0
  BY <1>3, <1>4 DEF GivesTo, Worth
<1>8. signal'[o] \in Int /\ Limit[o] \in Int
  BY NextInv, DispatcherAssumption DEF Inv, TypeOK, DispatcherAssumption
<1> HIDE DEF C, n
<1>9. /\ Kind[o] = "Semaphore" => n + signal'[o] <= Limit[o]
      /\ Kind[o] \notin {"NotificationEvent", "Semaphore"} => n = 1 /\ signal'[o] <= 0
  <2>2. CASE Kind[o] = "Semaphore"
    <3>1. Cardinality(Takers(S)) + signal'[o] <= Limit[o]
      BY <1>7, <2>2
    <3>2. n + signal'[o] <= Limit[o]
      BY <1>6, <1>8, <3>1
    <3> QED  BY <2>2, <3>2
  <2>3. CASE Kind[o] \notin {"NotificationEvent", "Semaphore"}
    <3>1. Cardinality(Takers(S)) = 1 /\ signal'[o] <= 0
      BY <1>7, <2>3
    <3>2. n = 1
      BY <1>6, <3>1
    <3> QED  BY <2>3, <3>1, <3>2
  <2> QED  BY <2>2, <2>3
<1> QED  BY <1>9 DEF C, n
-----------------------------------------------------------------------------
(***************************************************************************)
(* Mutants: who becomes owner, and what it learns.                         *)
(***************************************************************************)

(* A wait test gives at most the object it tests, to one of the takers.    *)
LEMMA TestOwner ==
  ASSUME Inv, NEW o \in Object, NEW ab \in BOOLEAN, NEW S, Tests(o, ab, S),
         NEW x \in Object, NEW t \in Thread, owner'[x] = t, owner[x] # t
  PROVE  /\ x = o /\ IsMutant(o) /\ t \in Takers(S)
         /\ thread[t] = "Waiting" /\ thread'[t] = "Running" /\ WaitsForAny(t)
         /\ status'[t].code = "Object" /\ status'[t].abandoned = ab
<1>0. TypeOK /\ WaitListsMatchThreads /\ S \in SUBSET Waiters(o) /\ KiWaitTest(o, ab, S)
  BY DEF Inv, Tests
<1>1. owner' = [owner EXCEPT ![o] = IF IsMutant(o) /\ Takers(S) # {}
                                    THEN CHOOSE u \in Takers(S) : TRUE
                                    ELSE NoThread]
  BY <1>0 DEF KiWaitTest
<1>2. x = o
  BY <1>0, <1>1 DEF TypeOK
<1>3. t = IF IsMutant(o) /\ Takers(S) # {} THEN CHOOSE u \in Takers(S) : TRUE ELSE NoThread
  BY <1>0, <1>1, <1>2 DEF TypeOK
<1>4. IsMutant(o) /\ t \in Takers(S)
  BY <1>3, DispatcherAssumption DEF DispatcherAssumption
<1>5. /\ thread[t] = "Waiting" /\ thread'[t] = "Running" /\ WaitsForAny(t)
      /\ status'[t] = Satisfied(IndexOf(t, o) - 1, ab)
  BY <1>0, <1>4, WaitTestEffect
<1> HIDE DEF IndexOf
<1> QED  BY <1>2, <1>4, <1>5 DEF Satisfied

(* A wait that is satisfied at once makes its thread the owner of every    *)
(* free mutant it takes, and of no other object.                           *)
LEMMA SatisfyOwner ==
  ASSUME Inv, NEW t \in Thread, SatisfyAtOnce(t), NEW x \in Object
  PROVE  /\ owner'[x] = IF x \in Taken(t) /\ Acquires(t, x) THEN t ELSE owner[x]
         /\ x \in Taken(t) /\ Acquires(t, x) =>
              IsMutant(x) /\ owner[x] = NoThread
         /\ thread[t] = "WaitLoop" /\ thread'[t] = "Running" /\ Taken(t) # {}
         /\ status'[t].code = "Object"
         /\ status'[t].abandoned <=>
              \E o \in Taken(t) : Acquires(t, o) /\ abandoned[o]
<1>0. TypeOK /\ MutantOwnership
  BY DEF Inv
<1> DEFINE won == {o \in Taken(t) : Acquires(t, o)}
           index == IF WaitsForAny(t)
                    THEN IndexOf(t, CHOOSE o \in Taken(t) : TRUE) - 1 ELSE 0
<1>1. /\ thread[t] = "WaitLoop" /\ Taken(t) # {}
      /\ owner' = [o \in Object |-> IF o \in won THEN t ELSE owner[o]]
      /\ ReturnAtOnce(t, Satisfied(index, \E o \in won : abandoned[o]))
  BY DEF SatisfyAtOnce, Evaluates, InLoop
<1> HIDE DEF index
<1>2. owner'[x] = IF x \in Taken(t) /\ Acquires(t, x) THEN t ELSE owner[x]
  BY <1>1
<1>3. x \in Taken(t) /\ Acquires(t, x) => IsMutant(x) /\ owner[x] = NoThread
  BY <1>0 DEF Acquires, MutantOwnership
<1>4. thread'[t] = "Running" /\ status'[t] = Satisfied(index, \E o \in won : abandoned[o])
  BY <1>0, <1>1 DEF ReturnAtOnce, TypeOK
<1>5. /\ status'[t].code = "Object"
      /\ status'[t].abandoned <=> \E o \in won : abandoned[o]
  <2> HIDE DEF won
  <2> QED  BY <1>4 DEF Satisfied
<1> QED  BY <1>1, <1>2, <1>3, <1>4, <1>5

(* The other steps change no owner. *)
LEMMA OwnerCases ==
  ASSUME Inv, [Next]_vars, NEW x \in Object, owner'[x] # owner[x]
  PROVE  \/ \E t \in Thread : SatisfyAtOnce(t)
         \/ \E S \in SUBSET Thread : Tests(x, FALSE, S) /\ ~IsMutant(x)
         \/ /\ Tests(x, abandoned[x], Served(x, 1)) /\ IsMutant(x)
            /\ owner[x] \in Thread /\ thread[owner[x]] = "Running"
         \/ /\ Tests(x, TRUE, Served(x, 1)) /\ IsMutant(x)
            /\ owner[x] \in Thread /\ thread[owner[x]] = "Rundown"
<1>0. TypeOK
  BY DEF Inv
<1>1. ASSUME NEW o \in Object, NEW ab, NEW S, Tests(o, ab, S)
      PROVE  x = o
  BY <1>0, <1>1 DEF Tests, KiWaitTest, TypeOK
<1>2. ASSUME NEW o \in Object, NEW u \in Thread, HandsOff(o, u)
      PROVE  owner' = owner
  BY <1>2 DEF HandsOff
<1>3. (\E u \in Thread : Interrupts(u)) \/ EndsNoWait => owner' = owner
  BY DEF Interrupts, EndsNoWait
<1> QED  BY <1>1, <1>2, <1>3, StepCases

AllOrNothingStep ==
  \A t \in Thread, o \in Object :
     owner'[o] = t /\ owner[o] # t =>
       /\ thread[t] \in {"WaitLoop", "Waiting"} /\ thread'[t] = "Running"
       /\ status'[t].code = "Object"
       /\ ~WaitsForAny(t) => \A x \in Objects(t) : IsMutant(x) => owner'[x] = t

LEMMA NextAllOrNothing == Inv /\ [Next]_vars => AllOrNothingStep
<1> SUFFICES ASSUME Inv, [Next]_vars, NEW t \in Thread, NEW o \in Object,
                    owner'[o] = t, owner[o] # t
             PROVE  /\ thread[t] \in {"WaitLoop", "Waiting"} /\ thread'[t] = "Running"
                    /\ status'[t].code = "Object"
                    /\ ~WaitsForAny(t) =>
                         \A x \in Objects(t) : IsMutant(x) => owner'[x] = t
  BY DEF AllOrNothingStep
<1>0. TypeOK /\ SignalInRange
  BY DEF Inv
<1>1. ASSUME NEW ab \in BOOLEAN, NEW S, Tests(o, ab, S)
      PROVE  /\ thread[t] = "Waiting" /\ thread'[t] = "Running" /\ WaitsForAny(t)
             /\ status'[t].code = "Object"
  BY <1>1, TestOwner
<1>2. ASSUME NEW u \in Thread, SatisfyAtOnce(u)
      PROVE  /\ thread[t] = "WaitLoop" /\ thread'[t] = "Running"
             /\ status'[t].code = "Object"
             /\ ~WaitsForAny(t) => \A x \in Objects(t) : IsMutant(x) => owner'[x] = t
  <2>1. u = t
    BY <1>2, SatisfyOwner
  <2>2. /\ thread[t] = "WaitLoop" /\ thread'[t] = "Running" /\ Taken(t) # {}
        /\ status'[t].code = "Object"
        /\ \A x \in Object :
             owner'[x] = IF x \in Taken(t) /\ Acquires(t, x) THEN t ELSE owner[x]
    BY <1>2, <2>1, SatisfyOwner
  <2>3. ASSUME ~WaitsForAny(t), NEW x \in Objects(t), IsMutant(x)
        PROVE  owner'[x] = t
    <3>1. x \in Object
      BY <1>0, WaitType
    <3>2. x \in Taken(t) /\ CanTake(t, x)
      BY <2>2, <2>3 DEF Taken
    <3>3. signal[x] \in MINLONG..1 /\ MINLONG \in Int
      BY <1>0, <2>3, <3>1, DispatcherAssumption
      DEF SignalInRange, IsMutant, DispatcherAssumption, MINLONG
    <3>4. CASE signal[x] > 0
      <4>1. signal[x] = 1
        BY <3>3, <3>4
      <4>2. Acquires(t, x)
        BY <2>3, <4>1 DEF Acquires
      <4> QED  BY <2>2, <3>1, <3>2, <4>2
    <3>5. CASE owner[x] = t
      BY <2>2, <3>1, <3>5
    <3> QED  BY <3>2, <3>4, <3>5 DEF CanTake
  <2> QED  BY <2>2, <2>3
<1>3. abandoned[o] \in BOOLEAN
  BY <1>0 DEF TypeOK
<1>4. owner'[o] # owner[o]
  OBVIOUS
<1> QED  BY <1>1, <1>2, <1>3, <1>4, OwnerCases

AbandonStep ==
  \A t \in Thread :
     LET won == {o \in Object : IsMutant(o) /\ owner'[o] = t /\ owner[o] # t}
     IN  won # {} => (status'[t].abandoned <=> \E o \in won : LeftBehind(o))

LEMMA NextAbandon == Inv /\ [Next]_vars => AbandonStep
<1> SUFFICES ASSUME Inv, [Next]_vars, NEW t \in Thread, NEW o \in Object,
                    IsMutant(o), owner'[o] = t, owner[o] # t
             PROVE  status'[t].abandoned <=>
                      \E x \in Object : /\ IsMutant(x) /\ owner'[x] = t /\ owner[x] # t
                                        /\ LeftBehind(x)
  BY DEF AbandonStep
<1>0. TypeOK /\ MutantOwnership /\ NoThread \notin Thread
  BY DispatcherAssumption DEF Inv, DispatcherAssumption
<1>1. ASSUME NEW ab \in BOOLEAN, NEW S, Tests(o, ab, S), ab <=> LeftBehind(o)
      PROVE  status'[t].abandoned <=>
                \E x \in Object : /\ IsMutant(x) /\ owner'[x] = t /\ owner[x] # t
                                  /\ LeftBehind(x)
  <2>1. status'[t].abandoned = ab
    BY <1>1, TestOwner
  <2>2. \A x \in Object : owner'[x] = t /\ owner[x] # t => x = o
    BY <1>1, TestOwner
  <2> QED  BY <1>1, <2>1, <2>2
<1>2. ASSUME NEW u \in Thread, SatisfyAtOnce(u)
      PROVE  status'[t].abandoned <=>
                \E x \in Object : /\ IsMutant(x) /\ owner'[x] = t /\ owner[x] # t
                                  /\ LeftBehind(x)
  <2>1. u = t
    BY <1>2, SatisfyOwner
  <2>2. \A x \in Object :
          /\ owner'[x] = IF x \in Taken(t) /\ Acquires(t, x) THEN t ELSE owner[x]
          /\ x \in Taken(t) /\ Acquires(t, x) => IsMutant(x) /\ owner[x] = NoThread
    BY <1>2, <2>1, SatisfyOwner
  <2>3. status'[t].abandoned <=> \E x \in Taken(t) : Acquires(t, x) /\ abandoned[x]
    BY <1>2, <2>1, SatisfyOwner
  <2>4. \A x \in Taken(t) : x \in Object
    BY <1>0, TakenObjects
  <2>5. ASSUME NEW x \in Object
        PROVE  (IsMutant(x) /\ owner'[x] = t /\ owner[x] # t) <=>
                 (x \in Taken(t) /\ Acquires(t, x))
    BY <1>0, <2>2
  <2>6. ASSUME NEW x \in Object, owner[x] = NoThread
        PROVE  LeftBehind(x) <=> abandoned[x]
    BY <1>0, <2>6 DEF LeftBehind
  <2>7. ASSUME NEW x \in Taken(t), Acquires(t, x)
        PROVE  LeftBehind(x) <=> abandoned[x]
    BY <2>2, <2>4, <2>6, <2>7
  <2> HIDE DEF LeftBehind, Taken, Acquires
  <2> QED  BY <2>3, <2>4, <2>5, <2>7
<1>3. CASE Tests(o, abandoned[o], Served(o, 1)) /\ owner[o] \in Thread
           /\ thread[owner[o]] = "Running"
  <2>1. ~abandoned[o] /\ ~LeftBehind(o) /\ abandoned[o] \in BOOLEAN
    BY <1>0, <1>3 DEF MutantOwnership, LeftBehind, TypeOK
  <2> QED  BY <1>1, <1>3, <2>1
<1>4. CASE Tests(o, TRUE, Served(o, 1)) /\ owner[o] \in Thread
           /\ thread[owner[o]] = "Rundown"
  <2>1. LeftBehind(o)
    BY <1>4 DEF LeftBehind
  <2> QED  BY <1>1, <1>4, <2>1
<1>5. owner'[o] # owner[o]
  OBVIOUS
<1> QED  BY <1>2, <1>3, <1>4, <1>5, OwnerCases
-----------------------------------------------------------------------------
(***************************************************************************)
(* Interruptions: alerts and APCs against waits.                           *)
(***************************************************************************)

(* The status of a wait that goes on is still the one of its beginning.    *)
StatusPending ==
  \A t \in Thread : thread[t] \in {"WaitLoop", "Waiting"} => status[t] = Status("Pending")

(* Nothing that may interrupt a wait arrives, and none begins to block. *)
LEMMA InterruptFrame ==
  ASSUME NoMissedInterrupt,
         \A t \in Thread : thread'[t] = "Waiting" =>
            /\ thread[t] = "Waiting" /\ wait'[t] = wait[t]
            /\ kernelApc'[t] => kernelApc[t]
            /\ alerted'[t] \subseteq alerted[t]
            /\ userApc'[t] => userApc[t]
            /\ userApcPending'[t] => userApcPending[t]
            /\ apcInsert[t] => apcInsert'[t]
  PROVE  NoMissedInterrupt'
<1> SUFFICES ASSUME NEW t \in Thread, thread'[t] = "Waiting"
             PROVE  /\ ~kernelApc'[t]
                    /\ wait'[t].alertable => \A m \in alerted'[t] : m > wait'[t].mode
                    /\ UserApcDue(t)' => apcInsert'[t]
  BY DEF NoMissedInterrupt
<1>1. /\ ~kernelApc[t]
      /\ wait[t].alertable => \A m \in alerted[t] : m > wait[t].mode
      /\ UserApcDue(t) => apcInsert[t]
  BY DEF NoMissedInterrupt
<1>2. UserApcDue(t)' => UserApcDue(t)
  BY DEF UserApcDue
<1> QED  BY <1>1, <1>2

(* No wait goes on past a change of its status. *)
LEMMA StatusFrame ==
  ASSUME StatusPending,
         \A t \in Thread : thread'[t] \in {"WaitLoop", "Waiting"} =>
            thread[t] \in {"WaitLoop", "Waiting"} /\ status'[t] = status[t]
  PROVE  StatusPending'
  BY DEF StatusPending

(* The alerts of a thread after its step. *)
AlertStep ==
  \A t \in Thread :
     /\ \A m \in alerted[t] \ alerted'[t] :
          /\ alerted'[t] = alerted[t] \ {m}
          /\ \/ thread[t] = "Running" /\ KeTestAlertThread(t, m)
             \/ /\ thread[t] = "WaitLoop" /\ status'[t] = Status("Alerted")
                /\ wait[t].alertable /\ m <= wait[t].mode
     /\ thread[t] = "Waiting" /\ status'[t] = Status("Alerted")
          => alerted'[t] = alerted[t]

LEMMA AlertFrame ==
  ASSUME alerted' = alerted
  PROVE  AlertStep
  BY DEF AlertStep

Meets == NoMissedInterrupt' /\ StatusPending' /\ AlertStep

(* A step that waits on and arrives nowhere: threads leave their waits.    *)
LEMMA QuietMeets ==
  ASSUME NoMissedInterrupt, StatusPending, UNCHANGED <<apcVars, alerted>>,
         \A t \in Thread : thread'[t] \in {"WaitLoop", "Waiting"} =>
            thread[t] \in {"WaitLoop", "Waiting"} /\ status'[t] = status[t],
         \A t \in Thread : thread'[t] = "Waiting" =>
            thread[t] = "Waiting" /\ wait'[t] = wait[t]
  PROVE  Meets
<1>1. UNCHANGED <<userApc, userApcPending, kernelApc, apcInsert, alerted>>
  BY DEF apcVars
<1>2. NoMissedInterrupt'
  BY <1>1, InterruptFrame
<1>3. StatusPending'
  BY StatusFrame
<1> QED  BY <1>1, <1>2, <1>3, AlertFrame DEF Meets

LEMMA SignallingMeets ==
  ASSUME Inv, NoMissedInterrupt, StatusPending, NEW t \in Thread,
         Signalling(t) \/ \E o \in Object : AbandonMutant(t, o)
  PROVE  Meets
<1>0. TypeOK /\ WaitListsMatchThreads
  BY DEF Inv
<1>1. ASSUME NEW o \in Object, NEW ab \in BOOLEAN, NEW S, Tests(o, ab, S)
      PROVE  Meets
  <2>1. /\ S \in SUBSET Waiters(o) /\ KiWaitTest(o, ab, S) /\ UNCHANGED <<apcVars, alerted>>
    BY <1>1 DEF Tests
  <2>2. ASSUME NEW u \in Thread
        PROVE  /\ thread'[u] \in {"WaitLoop", "Waiting"} =>
                    thread[u] \in {"WaitLoop", "Waiting"} /\ status'[u] = status[u]
               /\ thread'[u] = "Waiting" => thread[u] = "Waiting" /\ wait'[u] = wait[u]
    <3>1. CASE u \notin S
      BY <1>0, <2>1, <3>1, WaitTestEffect
    <3>2. CASE u \in S \ Takers(S)
      BY <1>0, <2>1, <3>2, WaitTestEffect
    <3>3. CASE u \in Takers(S)
      BY <1>0, <2>1, <3>3, WaitTestEffect
    <3> QED  BY <3>1, <3>2, <3>3
  <2> QED  BY <2>1, <2>2, QuietMeets
<1>2. ASSUME NEW o \in Object, NEW u \in Thread, HandsOff(o, u)
      PROVE  Meets
  <2> DEFINE st == [x \in {u} |-> Satisfied(0, FALSE)]
  <2>1. KiUnwaitThread({u}, st) /\ UNCHANGED <<apcVars, alerted>>
        /\ {u} \in SUBSET Thread /\ u \in {u} /\ st[u] # Status("KernelApc")
    BY <1>2 DEF HandsOff, Satisfied, Status
  <2> HIDE DEF st
  <2>2. ASSUME NEW v \in Thread
        PROVE  /\ thread'[v] \in {"WaitLoop", "Waiting"} =>
                    thread[v] \in {"WaitLoop", "Waiting"} /\ status'[v] = status[v]
               /\ thread'[v] = "Waiting" => thread[v] = "Waiting" /\ wait'[v] = wait[v]
    <3>1. CASE v \notin {u}
      BY <1>0, <2>1, <3>1, UnwaitEffect
    <3>2. CASE v = u
      <4>1. thread'[u] = "Running"
        BY <1>0, <2>1, UnwaitEffect
      <4> QED  BY <3>2, <4>1
    <3> QED  BY <3>1, <3>2
  <2> QED  BY <2>1, <2>2, QuietMeets
<1>3. CASE /\ UNCHANGED <<waitList, thread, wait, status, reached, owner, abandoned>>
           /\ UNCHANGED <<apcVars, alerted>>
  BY <1>3, QuietMeets
<1>4. \A o \in Object : abandoned[o] \in BOOLEAN /\ FALSE \in BOOLEAN /\ TRUE \in BOOLEAN
  BY <1>0 DEF TypeOK
<1>5. CASE Signalling(t)
  BY <1>1, <1>2, <1>3, <1>4, <1>5, SignallingCases
<1>6. CASE \E o \in Object : AbandonMutant(t, o)
  <2>1. PICK o \in Object : AbandonMutant(t, o)
    BY <1>6
  <2>2. Tests(o, TRUE, Served(o, 1))
    BY <2>1, AbandonCase
  <2> QED  BY <1>1, <2>2
<1> QED  BY <1>5, <1>6

(* A thread whose wait is ended for a reason other than an object.         *)
LEMMA UnwaitOneEffect ==
  ASSUME TypeOK, NEW u \in Thread, NEW c, UnwaitOne(u, c), NEW v \in Thread
  PROVE  /\ v # u => thread'[v] = thread[v] /\ wait'[v] = wait[v] /\ status'[v] = status[v]
         /\ c = "KernelApc" => /\ thread'[u] = "WaitLoop" /\ wait'[u] = wait[u]
                               /\ status'[u] = status[u]
         /\ c # "KernelApc" => thread'[u] = "Running"
<1> DEFINE st == [x \in {u} |-> Status(c)]
<1>1. KiUnwaitThread({u}, st) /\ {u} \in SUBSET Thread /\ u \in {u} /\ st[u] = Status(c)
      /\ (st[u] = Status("KernelApc") <=> c = "KernelApc")
  BY DEF UnwaitOne, Status
<1> HIDE DEF st
<1>2. v \notin {u} => /\ thread'[v] = thread[v] /\ wait'[v] = wait[v]
                      /\ status'[v] = status[v]
  BY <1>1, UnwaitEffect
<1>3. u \in {u} /\ st[u] = Status("KernelApc") =>
         /\ thread'[u] = "WaitLoop" /\ wait'[u] = wait[u]
         /\ status'[u] = status[u]
  BY <1>1, UnwaitEffect
<1>4. u \in {u} /\ st[u] # Status("KernelApc") => thread'[u] = "Running"
  BY <1>1, UnwaitEffect
<1> QED  BY <1>1, <1>2, <1>3, <1>4

LEMMA RundownMeets ==
  ASSUME Inv, NoMissedInterrupt, StatusPending, NEW t \in Thread, Rundown(t)
  PROVE  Meets
<1>0. TypeOK
  BY DEF Inv
<1>1. CASE KeRundownThread(t) \/ RundownDone(t)
  <2>1. /\ UNCHANGED <<apcVars, alerted>> /\ UNCHANGED <<wait, status>>
        /\ \A u \in Thread : thread'[u] \in {"WaitLoop", "Waiting"} => thread'[u] = thread[u]
    BY <1>0, <1>1 DEF KeRundownThread, RundownDone, TypeOK
  <2> QED  BY <2>1, QuietMeets
<1>2. CASE \E o \in Object : AbandonMutant(t, o)
  BY <1>2, SignallingMeets
<1> QED  BY <1>1, <1>2 DEF Rundown

(* What a thread that blocks need not give way to. *)
LEMMA BlockGivesWay ==
  ASSUME TypeOK, NEW t \in Thread, Block(t)
  PROVE  /\ ~kernelApc[t]
         /\ wait[t].alertable => \A m \in alerted[t] : m > wait[t].mode
         /\ ~UserApcDue(t)
<1>1. ~kernelApc[t] /\ AlertDue(t) = {} /\ ~UserApcDue(t)
  BY DEF Block, MustBlock, Evaluates, TestForAlertPending
<1>2. wait[t].mode \in {0, 1} /\ alerted[t] \subseteq {0, 1}
  BY WaitType DEF WaitRequest, TypeOK, Mode, KernelMode, UserMode
<1>3. ASSUME wait[t].alertable, NEW m \in alerted[t]
      PROVE  m > wait[t].mode
  <2>1. wait[t].mode \notin alerted[t]
    BY <1>1, <1>3 DEF AlertDue
  <2>2. KernelMode \notin alerted[t]
    BY <1>1, <1>3, <2>1 DEF AlertDue
  <2>3. m = 1 /\ wait[t].mode = 0
    BY <1>2, <1>3, <2>1, <2>2 DEF KernelMode
  <2> QED  BY <2>3
<1> QED  BY <1>1, <1>3

LEMMA CallMeets ==
  ASSUME Inv, NoMissedInterrupt, StatusPending, NEW t \in Thread,
         \/ \E r \in Request : KeWaitForObjects(t, r)
         \/ DropLockForApc(t)
         \/ ReachDueTime(t)
  PROVE  Meets
<1>0. TypeOK
  BY DEF Inv
<1>1. CASE DropLockForApc(t) \/ ReachDueTime(t)
  <2>1. UNCHANGED <<apcVars, alerted>> /\ UNCHANGED <<thread, wait, status>>
    BY <1>1 DEF DropLockForApc, ReachDueTime, waitVars
  <2> QED  BY <2>1, QuietMeets
<1>2. CASE \E r \in Request : KeWaitForObjects(t, r)
  <2>1. /\ thread[t] = "Running" /\ thread'[t] = "WaitLoop"
        /\ status'[t] = Status("Pending") /\ UNCHANGED <<apcVars, alerted>>
        /\ \A u \in Thread \ {t} : thread'[u] = thread[u] /\ wait'[u] = wait[u]
                                   /\ status'[u] = status[u]
    BY <1>0, <1>2 DEF KeWaitForObjects, TypeOK
  <2>2. NoMissedInterrupt'
    <3>1. UNCHANGED <<userApc, userApcPending, kernelApc, apcInsert, alerted>>
      BY <2>1 DEF apcVars
    <3>2. \A u \in Thread : thread'[u] = "Waiting" => thread[u] = "Waiting" /\ wait'[u] = wait[u]
      BY <2>1
    <3> QED  BY <3>1, <3>2, InterruptFrame
  <2>3. StatusPending'
    BY <2>1 DEF StatusPending
  <2> QED  BY <2>1, <2>2, <2>3, AlertFrame DEF Meets
<1> QED  BY <1>1, <1>2

LEMMA WaitPassMeets ==
  ASSUME Inv, NoMissedInterrupt, StatusPending, NEW t \in Thread, WaitPass(t)
  PROVE  Meets
<1>0. TypeOK
  BY DEF Inv
<1>1. CASE Block(t)
  <2>1. /\ thread[t] = "WaitLoop" /\ thread'[t] = "Waiting"
        /\ \A u \in Thread \ {t} : thread'[u] = thread[u]
        /\ UNCHANGED <<wait, status, apcVars, alerted>>
    BY <1>0, <1>1 DEF Block, MustBlock, Evaluates, InLoop, TypeOK
  <2>2. UNCHANGED <<userApc, userApcPending, kernelApc, apcInsert, alerted>>
    BY <2>1 DEF apcVars
  <2>3. NoMissedInterrupt'
    <3> SUFFICES ASSUME NEW u \in Thread, thread'[u] = "Waiting"
                 PROVE  /\ ~kernelApc[u]
                        /\ wait[u].alertable => \A m \in alerted[u] : m > wait[u].mode
                        /\ UserApcDue(u) => apcInsert[u]
      BY <2>1, <2>2 DEF NoMissedInterrupt, UserApcDue
    <3>1. CASE u = t
      BY <1>0, <1>1, <3>1, BlockGivesWay
    <3>2. CASE u # t
      BY <2>1, <3>2 DEF NoMissedInterrupt
    <3> QED  BY <3>1, <3>2
  <2>4. StatusPending'
    BY <2>1 DEF StatusPending
  <2> QED  BY <2>1, <2>3, <2>4, AlertFrame DEF Meets
<1>2. ASSUME ~Block(t)
      PROVE  /\ thread[t] = "WaitLoop" /\ thread'[t] = "Running"
             /\ \A u \in Thread \ {t} : thread'[u] = thread[u] /\ wait'[u] = wait[u]
                                        /\ status'[u] = status[u]
             /\ UNCHANGED <<userApc, kernelApc, apcInsert>>
             /\ \A u \in Thread \ {t} : userApcPending'[u] = userApcPending[u]
             /\ alerted' = alerted \/ AlertWait(t)
  <2>1. /\ thread[t] = "WaitLoop"
        /\ \E st : ReturnAtOnce(t, st)
    BY <1>2 DEF WaitPass, SatisfyAtOnce, MutantLimitExceeded, AlertWait, UserApcWait,
                TimeoutAtOnce, MustBlock, Evaluates, InLoop
  <2>2. /\ thread'[t] = "Running"
        /\ \A u \in Thread \ {t} : thread'[u] = thread[u] /\ wait'[u] = wait[u]
                                   /\ status'[u] = status[u]
    BY <1>0, <2>1 DEF ReturnAtOnce, TypeOK
  <2>3. /\ UNCHANGED <<userApc, kernelApc, apcInsert>>
        /\ \A u \in Thread \ {t} : userApcPending'[u] = userApcPending[u]
        /\ alerted' = alerted \/ AlertWait(t)
    BY <1>0, <1>2 DEF WaitPass, SatisfyAtOnce, MutantLimitExceeded, AlertWait, UserApcWait,
                TimeoutAtOnce, apcVars, TypeOK
  <2> QED  BY <2>1, <2>2, <2>3
<1>3. CASE ~Block(t)
  <2>1. /\ thread[t] = "WaitLoop" /\ thread'[t] = "Running"
        /\ \A u \in Thread \ {t} : thread'[u] = thread[u] /\ wait'[u] = wait[u]
                                   /\ status'[u] = status[u]
        /\ UNCHANGED <<userApc, kernelApc, apcInsert>>
        /\ \A u \in Thread \ {t} : userApcPending'[u] = userApcPending[u]
        /\ alerted' = alerted \/ AlertWait(t)
    BY <1>2, <1>3
  <2>2. AlertWait(t) => /\ AlertDue(t) # {}
                        /\ alerted' = [alerted EXCEPT ![t] = @ \ AlertDue(t)]
                        /\ status'[t] = Status("Alerted")
    BY <1>0 DEF AlertWait, ReturnAtOnce, TypeOK
  <2>3. \A u \in Thread \ {t} : alerted'[u] = alerted[u]
    BY <1>0, <2>1, <2>2 DEF TypeOK
  <2>4. NoMissedInterrupt'
    <3>1. \A u \in Thread : thread'[u] = "Waiting" => u # t
      BY <2>1
    <3> QED  BY <2>1, <2>3, <3>1, InterruptFrame
  <2>5. StatusPending'
    BY <2>1 DEF StatusPending
  <2>6. AlertStep
    <3>1. CASE alerted' = alerted
      BY <3>1, AlertFrame
    <3>2. CASE AlertWait(t)
      <4>1. wait[t].mode \in {0, 1}
        BY <1>0, WaitType DEF WaitRequest, Mode, KernelMode, UserMode
      <4>2. PICK m \in Mode : AlertDue(t) = {m} /\ wait[t].alertable /\ m <= wait[t].mode
        <5>1. PICK m \in alerted[t] : m \in AlertDue(t)
          BY <2>2, <3>2 DEF AlertDue
        <5>2. alerted[t] \subseteq Mode
          BY <1>0 DEF TypeOK
        <5>3. wait[t].alertable /\ m <= wait[t].mode
          BY <4>1, <5>1 DEF AlertDue, KernelMode
        <5>4. AlertDue(t) = {m}
          BY <5>1 DEF AlertDue
        <5> QED  BY <5>1, <5>2, <5>3, <5>4
      <4>3. alerted'[t] = alerted[t] \ {m} /\ status'[t] = Status("Alerted")
        BY <1>0, <2>2, <3>2, <4>2 DEF TypeOK
      <4>4. ASSUME NEW u \in Thread
            PROVE  /\ \A n \in alerted[u] \ alerted'[u] :
                        /\ alerted'[u] = alerted[u] \ {n}
                        /\ thread[u] = "WaitLoop" /\ status'[u] = Status("Alerted")
                        /\ wait[u].alertable /\ n <= wait[u].mode
                   /\ thread[u] = "Waiting" => alerted'[u] = alerted[u]
        <5>1. CASE u = t
          BY <2>1, <4>2, <4>3, <5>1
        <5>2. CASE u # t
          BY <2>3, <5>2
        <5> QED  BY <5>1, <5>2
      <4> QED  BY <4>4 DEF AlertStep
    <3> QED  BY <2>1, <3>1, <3>2
  <2> QED  BY <2>4, <2>5, <2>6 DEF Meets
<1> QED  BY <1>1, <1>3

(* A thread whose wait an alert, an APC or its timer ends.                 *)
LEMMA UnwaitOneMeets ==
  ASSUME TypeOK, NoMissedInterrupt, StatusPending,
         NEW u \in Thread, thread[u] = "Waiting", NEW c, UnwaitOne(u, c),
         \A v \in Thread \ {u} :
            /\ kernelApc'[v] = kernelApc[v] /\ apcInsert'[v] = apcInsert[v]
            /\ userApcPending'[v] = userApcPending[v],
         UNCHANGED <<userApc, alerted>>
  PROVE  Meets
<1>1. ASSUME NEW v \in Thread
      PROVE  /\ v # u => thread'[v] = thread[v] /\ wait'[v] = wait[v] /\ status'[v] = status[v]
             /\ thread'[u] \in {"Running", "WaitLoop"}
             /\ thread'[u] = "WaitLoop" => status'[u] = status[u]
  <2>1. CASE c = "KernelApc"
    BY <2>1, UnwaitOneEffect
  <2>2. CASE c # "KernelApc"
    BY <2>2, UnwaitOneEffect
  <2> QED  BY <2>1, <2>2
<1>2. NoMissedInterrupt'
  <2>1. \A v \in Thread : thread'[v] = "Waiting" => v # u
    BY <1>1
  <2> QED  BY <1>1, <2>1, InterruptFrame
<1>3. StatusPending'
  BY <1>1, StatusFrame
<1> QED  BY <1>2, <1>3, AlertFrame DEF Meets

(* A step of alerts and APCs that leaves the waits alone. *)
LEMMA NoWaitMeets ==
  ASSUME TypeOK, NoMissedInterrupt, StatusPending, UNCHANGED waitVars,
         NEW u \in Thread,
         \A v \in Thread \ {u} :
            /\ kernelApc'[v] = kernelApc[v] /\ apcInsert'[v] = apcInsert[v]
            /\ userApcPending'[v] = userApcPending[v] /\ userApc'[v] = userApc[v]
            /\ alerted'[v] = alerted[v],
         thread[u] = "Waiting" =>
            /\ kernelApc'[u] => kernelApc[u]
            /\ wait[u].alertable => \A m \in alerted'[u] \ alerted[u] : m > wait[u].mode
            /\ UserApcDue(u)' => apcInsert'[u]
  PROVE  NoMissedInterrupt' /\ StatusPending'
<1>1. UNCHANGED <<thread, wait, status>>
  BY DEF waitVars
<1>2. StatusPending'
  BY <1>1, StatusFrame
<1>3. NoMissedInterrupt'
  <2> SUFFICES ASSUME NEW v \in Thread, thread'[v] = "Waiting"
               PROVE  /\ ~kernelApc'[v]
                      /\ wait'[v].alertable => \A m \in alerted'[v] : m > wait'[v].mode
                      /\ UserApcDue(v)' => apcInsert'[v]
    BY DEF NoMissedInterrupt
  <2>1. /\ thread[v] = "Waiting" /\ ~kernelApc[v]
        /\ wait[v].alertable => \A m \in alerted[v] : m > wait[v].mode
        /\ UserApcDue(v) => apcInsert[v]
    BY <1>1 DEF NoMissedInterrupt
  <2>2. CASE v = u
    BY <1>1, <2>1, <2>2
  <2>3. CASE v # u
    <3>1. UserApcDue(v)' <=> UserApcDue(v)
      BY <1>1, <2>3 DEF UserApcDue
    <3> QED  BY <1>1, <2>1, <2>3, <3>1
  <2> QED  BY <2>2, <2>3
<1> QED  BY <1>2, <1>3

(* An alert: to an alertable wait of a mode it reaches, or recorded. *)
LEMMA AlertMeets ==
  ASSUME Inv, NoMissedInterrupt, StatusPending,
         NEW t \in Thread, NEW u \in Thread, NEW m \in Mode, KeAlertThread(t, u, m)
  PROVE  Meets
<1>0. TypeOK /\ UNCHANGED apcVars
  BY DEF Inv, KeAlertThread
<1>1. UNCHANGED <<userApc, userApcPending, kernelApc, apcInsert>>
  BY <1>0 DEF apcVars
<1>2. CASE thread[u] = "Waiting" /\ wait[u].alertable /\ m <= wait[u].mode
  <2>1. UnwaitOne(u, "Alerted") /\ alerted' = alerted
    BY <1>2 DEF KeAlertThread
  <2> QED  BY <1>0, <1>1, <1>2, <2>1, UnwaitOneMeets
<1>3. CASE ~(thread[u] = "Waiting" /\ wait[u].alertable /\ m <= wait[u].mode)
  <2>1. /\ alerted' = [alerted EXCEPT ![u] = @ \union {m}] /\ UNCHANGED waitVars
    BY <1>3 DEF KeAlertThread
  <2>2. /\ \A v \in Thread \ {u} : alerted'[v] = alerted[v]
        /\ alerted'[u] = alerted[u] \union {m}
        /\ UNCHANGED <<thread, wait, status>>
    BY <1>0, <2>1 DEF TypeOK, waitVars
  <2>3. thread[u] = "Waiting" =>
          /\ wait[u].alertable => \A x \in alerted'[u] \ alerted[u] : x > wait[u].mode
          /\ UserApcDue(u)' => apcInsert'[u]
    <3> SUFFICES ASSUME thread[u] = "Waiting"
                 PROVE  /\ wait[u].alertable =>
                             \A x \in alerted'[u] \ alerted[u] : x > wait[u].mode
                        /\ UserApcDue(u)' => apcInsert'[u]
      OBVIOUS
    <3>1. wait[u].mode \in {0, 1} /\ m \in {0, 1}
      BY <1>0, WaitType DEF WaitRequest, Mode, KernelMode, UserMode
    <3>2. wait[u].alertable => m > wait[u].mode
      BY <1>3, <3>1
    <3>3. UserApcDue(u)' <=> UserApcDue(u)
      BY <1>1, <2>2 DEF UserApcDue
    <3> QED  BY <1>1, <2>2, <3>2, <3>3 DEF NoMissedInterrupt
  <2>4. NoMissedInterrupt' /\ StatusPending'
    BY <1>0, <1>1, <2>1, <2>2, <2>3, NoWaitMeets
  <2>5. AlertStep
    <3> SUFFICES ASSUME NEW v \in Thread
                 PROVE  /\ alerted[v] \ alerted'[v] = {}
                        /\ thread[v] = "Waiting" => status'[v] # Status("Alerted")
      BY DEF AlertStep
    <3>1. alerted[v] \ alerted'[v] = {}
      BY <2>2
    <3>2. thread[v] = "Waiting" => status'[v] = Status("Pending")
      BY <2>2 DEF StatusPending
    <3> QED  BY <3>1, <3>2 DEF Status
  <2> QED  BY <2>4, <2>5 DEF Meets
<1> QED  BY <1>2, <1>3

LEMMA TestAlertMeets ==
  ASSUME Inv, NoMissedInterrupt, StatusPending,
         NEW t \in Thread, NEW m \in Mode, KeTestAlertThread(t, m)
  PROVE  Meets
<1>0. TypeOK
  BY DEF Inv
<1>1. /\ thread[t] = "Running" /\ UNCHANGED waitVars
      /\ UNCHANGED <<userApc, kernelApc, apcInsert>>
      /\ \A v \in Thread \ {t} : userApcPending'[v] = userApcPending[v]
      /\ \A v \in Thread \ {t} : alerted'[v] = alerted[v]
  BY <1>0 DEF KeTestAlertThread, TypeOK
<1>2. NoMissedInterrupt' /\ StatusPending'
  BY <1>0, <1>1, NoWaitMeets
<1>3. AlertStep
  <2> SUFFICES ASSUME NEW n \in alerted[t] \ alerted'[t]
               PROVE  alerted'[t] = alerted[t] \ {n} /\ KeTestAlertThread(t, n)
    BY <1>1 DEF AlertStep
  <2>1. m \in alerted[t] /\ alerted'[t] = alerted[t] \ {m}
    BY <1>0 DEF KeTestAlertThread, TypeOK
  <2>2. n = m
    BY <2>1
  <2> QED  BY <2>1, <2>2
<1> QED  BY <1>2, <1>3 DEF Meets

LEMMA UserApcMeets ==
  ASSUME Inv, NoMissedInterrupt, StatusPending, NEW u \in Thread,
         \/ \E isExit \in BOOLEAN : QueueUserApc(u, isExit)
         \/ UnwaitForUserApc(u)
         \/ DeliverUserApc(u)
         \/ KeRemoveQueueApc(u)
  PROVE  Meets
<1>0. TypeOK
  BY DEF Inv
<1>1. CASE \E isExit \in BOOLEAN : QueueUserApc(u, isExit)
  <2>1. /\ UNCHANGED waitVars /\ UNCHANGED <<kernelApc, alerted>> /\ apcInsert'[u]
        /\ \A v \in Thread \ {u} :
             /\ apcInsert'[v] = apcInsert[v] /\ userApc'[v] = userApc[v]
             /\ userApcPending'[v] = userApcPending[v]
    BY <1>0, <1>1 DEF QueueUserApc, TypeOK
  <2>2. NoMissedInterrupt' /\ StatusPending'
    BY <1>0, <2>1, NoWaitMeets
  <2> QED  BY <2>1, <2>2, AlertFrame DEF Meets
<1>2. CASE UnwaitForUserApc(u)
  <2>1. /\ UNCHANGED <<userApc, kernelApc, alerted>>
        /\ \A v \in Thread \ {u} : apcInsert'[v] = apcInsert[v]
        /\ \A v \in Thread \ {u} : userApcPending'[v] = userApcPending[v]
    BY <1>0, <1>2 DEF UnwaitForUserApc, TypeOK
  <2>2. CASE /\ thread[u] = "Waiting" /\ wait[u].mode = UserMode
             /\ wait[u].alertable \/ userApcPending[u]
    <3>1. UnwaitOne(u, "UserApc")
      BY <1>2, <2>2 DEF UnwaitForUserApc
    <3> QED  BY <1>0, <2>1, <2>2, <3>1, UnwaitOneMeets
  <2>3. CASE ~(/\ thread[u] = "Waiting" /\ wait[u].mode = UserMode
               /\ wait[u].alertable \/ userApcPending[u])
    <3>1. UNCHANGED <<userApcPending, waitVars>>
      BY <1>2, <2>3 DEF UnwaitForUserApc
    <3>2. UNCHANGED <<thread, wait, status>>
      BY <3>1 DEF waitVars
    <3>3. thread[u] = "Waiting" => ~UserApcDue(u)'
      BY <2>1, <2>3, <3>1, <3>2 DEF UserApcDue
    <3>4. NoMissedInterrupt' /\ StatusPending'
      BY <1>0, <2>1, <3>1, <3>3, NoWaitMeets
    <3> QED  BY <2>1, <3>4, AlertFrame DEF Meets
  <2> QED  BY <2>2, <2>3
<1>3. CASE DeliverUserApc(u) \/ KeRemoveQueueApc(u)
  <2>1. /\ UNCHANGED waitVars /\ UNCHANGED <<kernelApc, apcInsert, alerted>>
        /\ \A v \in Thread \ {u} : userApcPending'[v] = userApcPending[v]
        /\ \A v \in Thread \ {u} : userApc'[v] = userApc[v]
        /\ ~userApc'[u] /\ ~userApcPending'[u]
    BY <1>0, <1>3 DEF DeliverUserApc, KeRemoveQueueApc, TypeOK
  <2>2. ~UserApcDue(u)'
    BY <2>1 DEF UserApcDue
  <2>3. NoMissedInterrupt' /\ StatusPending'
    BY <1>0, <2>1, <2>2, NoWaitMeets
  <2> QED  BY <2>1, <2>3, AlertFrame DEF Meets
<1> QED  BY <1>1, <1>2, <1>3

LEMMA KernelApcMeets ==
  ASSUME Inv, NoMissedInterrupt, StatusPending, NEW u \in Thread,
         QueueKernelApc(u) \/ DeliverKernelApc(u) \/ ExpireTimer(u)
  PROVE  Meets
<1>0. TypeOK
  BY DEF Inv
<1>1. CASE QueueKernelApc(u)
  <2>1. /\ UNCHANGED <<userApc, userApcPending, apcInsert, alerted>>
        /\ \A v \in Thread \ {u} : kernelApc'[v] = kernelApc[v]
    BY <1>0, <1>1 DEF QueueKernelApc, TypeOK
  <2>2. CASE thread[u] = "Waiting"
    <3>1. UnwaitOne(u, "KernelApc")
      BY <1>1, <2>2 DEF QueueKernelApc
    <3> QED  BY <1>0, <2>1, <2>2, <3>1, UnwaitOneMeets
  <2>3. CASE thread[u] # "Waiting"
    <3>1. UNCHANGED waitVars
      BY <1>1, <2>3 DEF QueueKernelApc
    <3>2. NoMissedInterrupt' /\ StatusPending'
      BY <1>0, <2>1, <2>3, <3>1, NoWaitMeets
    <3> QED  BY <2>1, <3>2, AlertFrame DEF Meets
  <2> QED  BY <2>2, <2>3
<1>2. CASE DeliverKernelApc(u)
  <2>1. /\ UNCHANGED <<userApc, userApcPending, apcInsert, alerted>> /\ UNCHANGED waitVars
        /\ \A v \in Thread \ {u} : kernelApc'[v] = kernelApc[v]
        /\ thread[u] # "Waiting"
    BY <1>0, <1>2 DEF DeliverKernelApc, TypeOK
  <2>2. NoMissedInterrupt' /\ StatusPending'
    BY <1>0, <2>1, NoWaitMeets
  <2> QED  BY <2>1, <2>2, AlertFrame DEF Meets
<1>3. CASE ExpireTimer(u)
  <2>1. /\ thread[u] = "Waiting" /\ UnwaitOne(u, "Timeout") /\ UNCHANGED <<apcVars, alerted>>
    BY <1>3 DEF ExpireTimer
  <2>2. UNCHANGED <<userApc, userApcPending, kernelApc, apcInsert, alerted>>
    BY <2>1 DEF apcVars
  <2> QED  BY <1>0, <2>1, <2>2, UnwaitOneMeets
<1> QED  BY <1>1, <1>2, <1>3

LEMMA NextMeets ==
  Inv /\ NoMissedInterrupt /\ StatusPending /\ [Next]_vars => Meets
<1> SUFFICES ASSUME Inv, NoMissedInterrupt, StatusPending, [Next]_vars PROVE Meets
  OBVIOUS
<1>1. CASE UNCHANGED vars
  BY <1>1, QuietMeets DEF vars, waitVars
<1>2. ASSUME NEW t \in Thread, Signalling(t) PROVE Meets
  BY <1>2, SignallingMeets
<1>3. ASSUME NEW t \in Thread, Rundown(t) PROVE Meets
  BY <1>3, RundownMeets
<1>4. ASSUME NEW t \in Thread, Waits(t) PROVE Meets
  BY <1>4, CallMeets, WaitPassMeets, KernelApcMeets DEF Waits
<1>5. ASSUME NEW t \in Thread, AlertsAndApcs(t) PROVE Meets
  BY <1>5, AlertMeets, TestAlertMeets, UserApcMeets, KernelApcMeets DEF AlertsAndApcs
<1>6. CASE Next
  BY <1>2, <1>3, <1>4, <1>5, <1>6 DEF Next
<1> QED  BY <1>1, <1>6

LEMMA InitMeets == Init => NoMissedInterrupt /\ StatusPending
  BY DEF Init, NoMissedInterrupt, StatusPending

LEMMA SpecMeets == Spec => [](NoMissedInterrupt /\ StatusPending)
<1>1. Init => NoMissedInterrupt /\ StatusPending
  BY InitMeets
<1>2. Inv /\ (NoMissedInterrupt /\ StatusPending) /\ [Next]_vars
        => (NoMissedInterrupt /\ StatusPending)'
  BY NextMeets DEF Meets
<1> QED  BY <1>1, <1>2, SpecInv, PTL DEF Spec

(* No thread blocks, or stays blocked, through an alert or an APC that its *)
(* wait must give way to.                                                  *)
THEOREM InterruptsNotMissed == Spec => []NoMissedInterrupt
<1>1. NoMissedInterrupt /\ StatusPending => NoMissedInterrupt
  OBVIOUS
<1> QED  BY <1>1, SpecMeets, PTL

(* An alert ends one wait or one KeTestAlertThread, and is lost nowhere.   *)
THEOREM AlertsConsumedOnce == Spec => AlertConsumedOnce
<1>1. Inv /\ (NoMissedInterrupt /\ StatusPending) /\ [Next]_vars => AlertStep
  BY NextMeets DEF Meets
<1> QED  BY <1>1, SpecInv, SpecMeets, PTL DEF Spec, AlertConsumedOnce, AlertStep

(* A wait for all objects takes all of them in one step or none.           *)
THEOREM WaitAllAtomic == Spec => AllOrNothing
  BY SpecInv, NextAllOrNothing, PTL DEF Spec, AllOrNothing, AllOrNothingStep

(* That a mutant was abandoned reaches its next owner, and nobody else.    *)
THEOREM AbandonmentReported == Spec => AbandonReported
  BY SpecInv, NextAbandon, PTL DEF Spec, AbandonReported, AbandonStep

(* Waits for one object are satisfied in the order in which they began, as *)
(* long as events of KeSetEventBoostPriority come first in every wait for  *)
(* any object.                                                             *)
THEOREM WakeupOrder ==
  ASSUME BoostedFirst
  PROVE  Spec => WakeupsInOrder
<1>1. Inv /\ [Next]_vars => OrderStep
  BY NextOrder
<1> QED  BY <1>1, SpecInv, PTL DEF Spec, WakeupsInOrder, OrderStep

(* Under the same condition, no setting of an event, release of a mutant   *)
(* or unit of a semaphore satisfies two waiters.                           *)
THEOREM SignalsNotDuplicated ==
  ASSUME BoostedFirst
  PROVE  Spec => NoSignalDuplicated
<1>1. Inv /\ [Next]_vars => DuplicationStep
  BY NextDuplication
<1> QED  BY <1>1, SpecInv, PTL DEF Spec, NoSignalDuplicated, DuplicationStep
=============================================================================
