------------------------- MODULE GuardedMutexProofs -------------------------
(***************************************************************************)
(* The guarded mutex, for any set of threads, any number of acquires and   *)
(* any APCs.  That it excludes and that no release forgets its waiters     *)
(* follow from the count word alone (IInv): the steps of the gate, which   *)
(* may let threads pass in any order, leave it as it is.  That the woken   *)
(* bit counts the wakes on their way needs the gate's state too (WInv);    *)
(* and then the gate does what its contract says.                          *)
(***************************************************************************)
EXTENDS GuardedMutex, SequenceTheorems, TLAPS

(* TypeOK without the gate. *)
MutexTypeOK ==
  /\ count \in Count
  /\ owner \in Thread \union {Free}
  /\ pc \in [Thread -> {"Idle", "Compete", "Owns", "Wake", "Leave"}]
  /\ old \in [Thread -> Count]
  /\ beenWoken \in [Thread -> BOOLEAN]

(* The value that a waker compares with has a waiter to be taken off. *)
WakeIsNeeded == \A t \in Thread : pc[t] = "Wake" => NeedsWake(old[t])

IInv == MutexTypeOK /\ WakeIsNeeded /\ MutualExclusion /\ WaitersHaveAWaker

LEMMA InitEstablishes == Init => IInv
BY GateAssumption DEF Init, IInv, MutexTypeOK, Count, Initial, WakeIsNeeded,
     MutualExclusion, WaitersHaveAWaker

(* The exchanges keep Count, and only grabbing and freeing touch the lock bit. *)
LEMMA Exchanges ==
  ASSUME NEW c \in Count, NEW again \in BOOLEAN
  PROVE  /\ Grabbed(c, again) \in Count /\ ~Grabbed(c, again).free
         /\ Queued(c, again) \in Count /\ Queued(c, again).free = c.free
         /\ Freed(c) \in Count /\ Freed(c).free
         /\ NeedsWake(Freed(c)) = NeedsWake(c)
         /\ NeedsWake(c) =>
              /\ WokenValue(c) \in Count /\ WokenValue(c).free = c.free
              /\ WokenValue(c).woken
<1>1. Grabbed(c, again) \in Count /\ ~Grabbed(c, again).free
  BY DEF Grabbed, Count
<1>2. Queued(c, again) \in Count /\ Queued(c, again).free = c.free
  <2>1. CASE again /\ ~c.woken
    BY <2>1 DEF Queued, Count
  <2>2. CASE ~(again /\ ~c.woken)
    <3> DEFINE w == c.woken /\ ~again
               n == c.waiters + 1
               q == [c EXCEPT !.waiters = n, !.woken = w]
    <3>1. w \in BOOLEAN /\ n \in Nat
      BY DEF Count
    <3>2. Queued(c, again) = q
      BY <2>2 DEF Queued
    <3> HIDE DEF w, n
    <3>3. q \in Count /\ q.free = c.free
      BY <3>1 DEF Count
    <3>4. QED BY <3>2, <3>3
  <2>3. QED BY <2>1, <2>2
<1>3. Freed(c) \in Count /\ Freed(c).free /\ NeedsWake(Freed(c)) = NeedsWake(c)
  BY DEF Freed, NeedsWake, Count
<1>4. ASSUME NeedsWake(c)
      PROVE  /\ WokenValue(c) \in Count /\ WokenValue(c).free = c.free
             /\ WokenValue(c).woken
  <2> DEFINE n == c.waiters - 1
             w == [c EXCEPT !.woken = TRUE, !.waiters = n]
  <2>1. n \in Nat
    BY <1>4 DEF NeedsWake, Count
  <2>2. WokenValue(c) = w
    BY DEF WokenValue
  <2> HIDE DEF n
  <2>3. w \in Count /\ w.free = c.free /\ w.woken
    BY <2>1 DEF Count
  <2>4. QED BY <2>2, <2>3
<1>5. QED BY <1>1, <1>2, <1>3, <1>4

(* Steps that leave the word and its owner alone, and no thread newly owns *)
(* the mutex or stops to wake. *)
LEMMA CallKeeps ==
  ASSUME IInv, NEW t \in Thread, TryFails(t) \/ AcquireSlow(t) \/ Leave(t)
  PROVE  IInv'
<1>1. /\ UNCHANGED <<count, owner, old>>
      /\ \A u \in Thread \ {t} : pc'[u] = pc[u]
      /\ pc[t] # "Wake" /\ (pc'[t] = pc[t] \/ pc'[t] \in {"Compete", "Idle"})
      /\ pc[t] # "Owns"
  BY DEF IInv, MutexTypeOK, TryFails, AcquireSlow, Leave, Goto
<1>2. MutexTypeOK'
  BY DEF IInv, MutexTypeOK, TryFails, AcquireSlow, Leave, Goto
<1>3. WakeIsNeeded'
  BY <1>1 DEF IInv, WakeIsNeeded
<1>4. MutualExclusion'
  BY <1>1 DEF IInv, MutualExclusion
<1>5. WaitersHaveAWaker'
  BY <1>1 DEF IInv, WaitersHaveAWaker
<1>6. QED BY <1>2, <1>3, <1>4, <1>5 DEF IInv

(* Whoever finds the lock bit set is the first: nobody owned the mutex. *)
LEMMA GrabKeeps ==
  ASSUME IInv, NEW t \in Thread, AcquireFast(t) \/ Grab(t)
  PROVE  IInv'
<1>1. /\ count.free /\ count' \in Count /\ ~count'.free
      /\ owner' = t /\ pc' = [pc EXCEPT ![t] = "Owns"]
      /\ UNCHANGED <<old, beenWoken>>
  <2>1. CASE AcquireFast(t)
    BY <2>1 DEF IInv, MutexTypeOK, AcquireFast, Goto, Count
  <2>2. CASE Grab(t)
    <3>1. count \in Count /\ beenWoken[t] \in BOOLEAN
      BY DEF IInv, MutexTypeOK
    <3>2. Grabbed(count, beenWoken[t]) \in Count /\ ~Grabbed(count, beenWoken[t]).free
      BY <3>1, Exchanges
    <3>3. QED BY <2>2, <3>2 DEF Grab, Goto
  <2>3. QED BY <2>1, <2>2
<1>2. MutexTypeOK'
  BY <1>1 DEF IInv, MutexTypeOK
<1>3. WakeIsNeeded'
  BY <1>1 DEF IInv, MutexTypeOK, WakeIsNeeded
<1>4. MutualExclusion'
  BY <1>1 DEF IInv, MutexTypeOK, MutualExclusion
<1>5. WaitersHaveAWaker'
  BY <1>1 DEF WaitersHaveAWaker
<1>6. QED BY <1>2, <1>3, <1>4, <1>5 DEF IInv

LEMMA WaitForGateKeeps ==
  ASSUME IInv, NEW t \in Thread, WaitForGate(t)
  PROVE  IInv'
<1>1. /\ count' \in Count /\ ~count'.free
      /\ UNCHANGED <<owner, pc, old>>
  BY Exchanges DEF IInv, MutexTypeOK, WaitForGate
<1>2. MutexTypeOK'
  BY <1>1 DEF IInv, MutexTypeOK, WaitForGate
<1>3. WakeIsNeeded'
  BY <1>1 DEF IInv, WakeIsNeeded
<1>4. MutualExclusion'
  BY <1>1 DEF IInv, MutualExclusion
<1>5. WaitersHaveAWaker'
  BY <1>1 DEF WaitersHaveAWaker
<1>6. QED BY <1>2, <1>3, <1>4, <1>5 DEF IInv

(* A release that leaves waiters and no wake becomes the one to elect a    *)
(* waker, with the value that it left.                                     *)
LEMMA ReleaseKeeps ==
  ASSUME IInv, NEW t \in Thread, Release(t)
  PROVE  IInv'
<1>1. /\ count' \in Count /\ count'.free /\ NeedsWake(count') = NeedsWake(count)
      /\ owner' = Free /\ old' = [old EXCEPT ![t] = count']
      /\ pc' = [pc EXCEPT ![t] = IF NeedsWake(count) THEN "Wake" ELSE "Leave"]
      /\ UNCHANGED beenWoken
  BY Exchanges DEF IInv, MutexTypeOK, Release, Goto
<1>2. MutexTypeOK'
  BY <1>1 DEF IInv, MutexTypeOK
<1>3. WakeIsNeeded'
  BY <1>1 DEF IInv, MutexTypeOK, WakeIsNeeded
<1>4. MutualExclusion'
  <2>1. \A u \in Thread : pc[u] = "Owns" => u = t
    BY DEF IInv, MutualExclusion, Release
  <2>2. \A u \in Thread : pc'[u] # "Owns"
    BY <1>1, <2>1 DEF IInv, MutexTypeOK
  <2>3. QED BY <2>2 DEF MutualExclusion
<1>5. WaitersHaveAWaker'
  <2>1. SUFFICES ASSUME count'.waiters > 0, ~count'.woken
                 PROVE  \E u \in Thread : pc'[u] = "Wake" /\ old'[u] = count'
    BY DEF WaitersHaveAWaker
  <2>2. pc'[t] = "Wake"
    BY <1>1, <2>1 DEF IInv, MutexTypeOK, NeedsWake
  <2>3. old'[t] = count'
    BY <1>1 DEF IInv, MutexTypeOK
  <2>4. QED BY <2>2, <2>3
<1>6. QED BY <1>2, <1>3, <1>4, <1>5 DEF IInv

(* The compare may fail only when the word has changed since: then it is   *)
(* for another thread to see that the waiters are woken.                   *)
LEMMA ElectWakerKeeps ==
  ASSUME IInv, NEW t \in Thread, ElectWaker(t)
  PROVE  IInv'
<1>1. /\ count' \in Count /\ count'.free = count.free
      /\ count # old[t] => count' = count
      /\ count = old[t] => count'.woken
      /\ UNCHANGED <<owner, old, beenWoken>>
      /\ pc' = [pc EXCEPT ![t] = "Leave"]
  BY Exchanges DEF IInv, MutexTypeOK, WakeIsNeeded, ElectWaker, Goto
<1>2. MutexTypeOK'
  BY <1>1 DEF IInv, MutexTypeOK
<1>3. WakeIsNeeded'
  BY <1>1 DEF IInv, MutexTypeOK, WakeIsNeeded
<1>4. MutualExclusion'
  BY <1>1 DEF IInv, MutexTypeOK, MutualExclusion
<1>5. WaitersHaveAWaker'
  <2>1. CASE count = old[t]
    BY <1>1, <2>1 DEF WaitersHaveAWaker
  <2>2. CASE count # old[t]
    BY <1>1, <2>2 DEF IInv, MutexTypeOK, WaitersHaveAWaker
  <2>3. QED BY <2>1, <2>2
<1>6. QED BY <1>2, <1>3, <1>4, <1>5 DEF IInv

LEMMA StepKeeps == IInv /\ [Next]_vars => IInv'
<1> SUFFICES ASSUME IInv, [Next]_vars PROVE IInv'
  OBVIOUS
<1>1. CASE UNCHANGED mutexVars
  BY <1>1 DEF mutexVars, IInv, MutexTypeOK, WakeIsNeeded, MutualExclusion,
              WaitersHaveAWaker
<1>2. ASSUME NEW t \in Thread, Acquire(t) \/ Step(t) PROVE IInv'
  BY <1>2, CallKeeps, GrabKeeps, WaitForGateKeeps, ReleaseKeeps, ElectWakerKeeps
     DEF Acquire, Step
<1>3. QED BY <1>1, <1>2 DEF Next, vars

LEMMA InvariantHolds == Spec => []IInv
BY InitEstablishes, StepKeeps, PTL DEF Spec

(* Mutual exclusion (KeAcquireGuardedMutex, KeTryToAcquireGuardedMutex and *)
(* KeReleaseGuardedMutex): the mutex has one owner at a time, the one its  *)
(* Owner field names, however releases, wakes and newcomers interleave.    *)
THEOREM GuardedMutexExcludes == Spec => []MutualExclusion
<1>1. IInv => MutualExclusion
  BY DEF IInv
<1>2. QED BY <1>1, InvariantHolds, PTL

(* No forgotten waiters (KiAcquireGuardedMutex against                     *)
(* KeReleaseGuardedMutex): while the mutex is free and has waiters, a wake *)
(* is on its way or a release is about to elect its waker with a compare   *)
(* that will succeed.                                                      *)
THEOREM GuardedMutexWakes == Spec => []WaitersHaveAWaker
<1>1. IInv => WaitersHaveAWaker
  BY DEF IInv
<1>2. QED BY <1>1, InvariantHolds, PTL
-----------------------------------------------------------------------------
(***************************************************************************)
(* Wait lists.                                                             *)
(***************************************************************************)
Injective(s) == \A i, j \in 1..Len(s) : s[i] = s[j] => i = j
Listed(s, x) == \E i \in 1..Len(s) : s[i] = x

(* Taking a listed thread off leaves the others. *)
LEMMA RemoveListed ==
  ASSUME NEW S, NEW s \in Seq(S), Injective(s), NEW e, Listed(s, e)
  PROVE  /\ RemoveFirst(s, e) \in Seq(S)
         /\ Injective(RemoveFirst(s, e))
         /\ \A x : Listed(RemoveFirst(s, e), x) <=> Listed(s, x) /\ x # e
<1> DEFINE r == RemoveFirst(s, e)
<1>1. PICK i \in 1..Len(s) : s[i] = e
  BY DEF Listed
<1>2. {j \in 1..Len(s) : s[j] = e} = {i}
  BY <1>1 DEF Injective
<1>3. Min({i}) = i
  BY DEF Min
<1>4. SelectInSeq(s, LAMBDA v : v = e) = i
  BY <1>2, <1>3 DEF SelectInSeq
<1>5. r = RemoveAt(s, i)
  BY <1>1, <1>4 DEF RemoveFirst
<1>6. r = SubSeq(s, 1, i - 1) \o SubSeq(s, i + 1, Len(s))
  BY <1>5 DEF RemoveAt
<1>7. /\ r \in Seq(S) /\ Len(r) = Len(s) - 1
      /\ \A j \in 1..Len(s) - 1 : r[j] = s[IF j < i THEN j ELSE j + 1]
  <2> DEFINE a == SubSeq(s, 1, i - 1)
             b == SubSeq(s, i + 1, Len(s))
  <2>1. a \in Seq(S) /\ Len(a) = i - 1 /\ \A j \in 1..i - 1 : a[j] = s[j]
    <3>1. 1 \in 1..Len(s) + 1 /\ i - 1 \in 0..Len(s)
      BY <1>1
    <3>2. QED BY <3>1, SubSeqProperties
  <2>2. b \in Seq(S) /\ Len(b) = Len(s) - i /\ \A j \in 1..Len(s) - i : b[j] = s[i + j]
    <3>1. i + 1 \in 1..Len(s) + 1 /\ Len(s) \in 0..Len(s)
      BY <1>1
    <3>2. QED BY <3>1, SubSeqProperties
  <2> HIDE DEF a, b
  <2>3. /\ a \o b \in Seq(S) /\ Len(a \o b) = Len(a) + Len(b)
        /\ \A j \in 1..Len(a) + Len(b) :
             (a \o b)[j] = IF j <= Len(a) THEN a[j] ELSE b[j - Len(a)]
    BY <2>1, <2>2, ConcatProperties
  <2>4. r = a \o b
    BY <1>6 DEF a, b
  <2> HIDE DEF r
  <2>5. Len(r) = Len(s) - 1 /\ r \in Seq(S)
    <3>1. Len(r) = (i - 1) + (Len(s) - i)
      BY <2>1, <2>2, <2>3, <2>4
    <3>2. r \in Seq(S)
      BY <2>3, <2>4
    <3>3. Len(s) \in Nat /\ i \in Int
      OBVIOUS
    <3>4. QED BY <3>1, <3>2, <3>3
  <2>6. ASSUME NEW j \in 1..Len(s) - 1 PROVE r[j] = s[IF j < i THEN j ELSE j + 1]
    <3>1. r[j] = IF j <= i - 1 THEN a[j] ELSE b[j - (i - 1)]
      <4>1. j \in 1..Len(a) + Len(b)
        BY <1>1, <2>1, <2>2
      <4>2. r[j] = IF j <= Len(a) THEN a[j] ELSE b[j - Len(a)]
        BY <2>3, <2>4, <4>1
      <4>3. QED BY <2>1, <4>2
    <3>2. CASE j < i
      BY <1>1, <2>1, <3>1, <3>2
    <3>3. CASE j >= i
      <4>1. j - (i - 1) \in 1..Len(s) - i /\ i + (j - (i - 1)) = j + 1
        BY <1>1, <3>3
      <4>2. b[j - (i - 1)] = s[i + (j - (i - 1))]
        BY <2>2, <4>1
      <4>3. QED BY <1>1, <3>1, <3>3, <4>1, <4>2
    <3>4. QED BY <1>1, <3>2, <3>3
  <2>7. QED BY <2>5, <2>6
<1> HIDE DEF r
<1>8. Injective(r)
  BY SMTT(30), <1>7 DEF Injective
<1>9. ASSUME NEW x PROVE Listed(r, x) <=> Listed(s, x) /\ x # e
  <2>1. Listed(r, x) => Listed(s, x) /\ x # e
    <3> SUFFICES ASSUME NEW j \in 1..Len(r), r[j] = x
                 PROVE  Listed(s, x) /\ x # e
      BY DEF Listed
    <3>1. PICK k \in 1..Len(s) : k # i /\ s[k] = x
      <4>1. CASE j < i
        BY SMTT(30), <1>1, <1>7, <4>1
      <4>2. CASE j >= i
        <5>1. j + 1 \in 1..Len(s) /\ r[j] = s[j + 1]
          BY <1>1, <1>7, <4>2
        <5>2. QED BY <1>1, <4>2, <5>1
      <4>3. QED BY <1>1, <1>7, <4>1, <4>2
    <3>2. QED BY <1>1, <3>1 DEF Injective, Listed
  <2>2. ASSUME NEW k \in 1..Len(s), s[k] = x, x # e PROVE Listed(r, x)
    <3>1. CASE k < i
      BY SMTT(30), <1>1, <1>7, <2>2, <3>1 DEF Listed
    <3>2. CASE k > i
      <4>1. k - 1 \in 1..Len(r) /\ r[k - 1] = x
        BY <1>1, <1>7, <2>2, <3>2
      <4>2. QED BY <4>1 DEF Listed
    <3>3. QED BY <1>1, <2>2, <3>1, <3>2
  <2>3. QED BY <2>1, <2>2 DEF Listed
<1>10. QED BY <1>7, <1>8, <1>9 DEF r

(* Adding a thread that is not listed. *)
LEMMA AppendListed ==
  ASSUME NEW S, NEW s \in Seq(S), Injective(s), NEW e \in S, ~Listed(s, e)
  PROVE  /\ Append(s, e) \in Seq(S)
         /\ Injective(Append(s, e))
         /\ \A x : Listed(Append(s, e), x) <=> Listed(s, x) \/ x = e
<1> DEFINE r == Append(s, e)
<1>1. /\ r \in Seq(S) /\ Len(r) = Len(s) + 1 /\ r[Len(s) + 1] = e
      /\ \A i \in 1..Len(s) : r[i] = s[i]
  BY AppendProperties
<1> HIDE DEF r
<1>2. Injective(r)
  <2> SUFFICES ASSUME NEW i \in 1..Len(r), NEW j \in 1..Len(r), r[i] = r[j], i < j
               PROVE  FALSE
    BY <1>1 DEF Injective
  <2>1. i \in 1..Len(s) /\ r[i] = s[i]
    BY <1>1
  <2>2. CASE j = Len(s) + 1
    BY <1>1, <2>1, <2>2 DEF Listed
  <2>3. CASE j \in 1..Len(s)
    <3>1. s[i] = s[j]
      BY <1>1, <2>1, <2>3
    <3>2. QED BY <2>1, <2>3, <3>1 DEF Injective
  <2>4. QED BY <1>1, <2>2, <2>3
<1>3. ASSUME NEW x PROVE Listed(r, x) <=> Listed(s, x) \/ x = e
  <2>1. Listed(r, x) => Listed(s, x) \/ x = e
    BY <1>1 DEF Listed
  <2>2. Listed(s, x) => Listed(r, x)
    BY <1>1 DEF Listed
  <2>3. Listed(r, e)
    BY <1>1 DEF Listed
  <2>4. QED BY <2>1, <2>2, <2>3
<1>4. QED BY <1>1, <1>2, <1>3 DEF r

LEMMA HeadListed ==
  ASSUME NEW S, NEW s \in Seq(S), s # <<>>
  PROVE  Head(s) \in S /\ Listed(s, Head(s))
<1>1. Len(s) \in Nat /\ 1 \in 1..Len(s) /\ Head(s) = s[1] /\ s[1] \in S
  BY EmptySeq, HeadTailProperties
<1>2. QED BY <1>1 DEF Listed
-----------------------------------------------------------------------------
(***************************************************************************)
(* The gate and the mutex together.                                        *)
(***************************************************************************)
(* The wait list has the threads that wait, once; a thread that is not     *)
(* running is in KeWaitForGate.                                            *)
ListMatches ==
  /\ Injective(waitList)
  /\ \A t \in Thread : state[t] = "GateWait" <=> Listed(waitList, t)
  /\ \A t \in Thread : state[t] # "Running" <=> gpc[t] \in {"Blocked", "Asleep"}

(* A thread waits for the gate inside an acquire, and signals it at the    *)
(* end of a release.                                                       *)
CallsMatch ==
  /\ apcPc # "Idle" => target \in Thread
  /\ \A t \in Thread :
       /\ gpc[t] \in {"Signal", "Signaling"} => pc[t] = "Leave"
       /\ InWait(t) => pc[t] = "Compete" /\ beenWoken[t]

(* WokenBitIsOneWake, carrier by carrier. *)
OneCarrier ==
  /\ \A t, u \in Thread : CarriesWake(t) /\ CarriesWake(u) => t = u
  /\ (\E t \in Thread : CarriesWake(t)) <=> count.woken /\ signalState = 0
  /\ ~count.woken => signalState = 0

WInv == IInv /\ TypeOK /\ ListMatches /\ CallsMatch /\ OneCarrier

LEMMA WakesOutOfInvariant == WInv => WakesAgree
<1> SUFFICES ASSUME WInv PROVE WokenBitIsOneWake
  BY DEF WInv, IInv, WakesAgree
<1> DEFINE carriers == {t \in Thread : CarriesWake(t)}
<1>1. signalState \in {0, 1}
  BY DEF WInv, TypeOK, GateTypeOK
<1>2. CASE ~count.woken
  BY <1>2 DEF WInv, OneCarrier, WokenBitIsOneWake
<1>3. CASE count.woken /\ signalState = 1
  BY <1>3 DEF WInv, OneCarrier, WokenBitIsOneWake
<1>4. CASE count.woken /\ signalState = 0
  <2>1. PICK t \in Thread : CarriesWake(t)
    BY <1>4 DEF WInv, OneCarrier
  <2>2. carriers = {t}
    BY <2>1 DEF WInv, OneCarrier
  <2>3. QED BY <1>4, <2>2 DEF WokenBitIsOneWake
<1>5. QED BY <1>1, <1>2, <1>3, <1>4

(* Steps that move no thread on or off the list. *)
LEMMA SameList ==
  ASSUME WInv, UNCHANGED <<waitList, state>>,
         \A u \in Thread : gpc'[u] \in {"Blocked", "Asleep"} <=> gpc[u] \in {"Blocked", "Asleep"}
  PROVE  ListMatches'
BY DEF WInv, ListMatches

(* Steps that pass no wake on. *)
LEMMA SameCarriers ==
  ASSUME WInv, UNCHANGED signalState, count'.woken <=> count.woken,
         \A u \in Thread : CarriesWake(u)' <=> CarriesWake(u)
  PROVE  OneCarrier'
BY DEF WInv, OneCarrier

LEMMA MutexTypes ==
  ASSUME IInv', GateTypeOK', acquires' \in [Thread -> Nat]
  PROVE  TypeOK'
BY DEF IInv, MutexTypeOK, TypeOK

(* Threads and the APC processor take and drop locks. *)
SamePlace(g, h) ==
  \/ g = h
  \/ g \in {"Wait", "LockThread"} /\ h \in {"LockThread", "LockGate"}
  \/ g = "Blocked" /\ h = "Asleep"
  \/ g \in {"Signal", "Signaling"} /\ h \in {"Signal", "Signaling"}

MovesOn ==
  /\ UNCHANGED <<signalState, waitList, waitVars>>
  /\ \A u \in Thread : SamePlace(gpc[u], gpc'[u])
  /\ GateTypeOK'
  /\ apcPc' # "Idle" => target' \in Thread

LockStep(t) ==
  \/ DeliverApc(t) \/ LockApcQueue(t) \/ LockThread(t) \/ UnlockThread(t)
  \/ SwapAway(t) \/ LockGate(t) \/ TryAgain(t)

LEMMA LocksMoveOn ==
  ASSUME WInv, NEW t \in Thread, LockStep(t)
  PROVE  MovesOn
<1> USE DEF WInv, TypeOK, GateTypeOK, CallsMatch, MovesOn, SamePlace, GateGoto,
        Taken, Released, lockVars, waitVars, apcVars
<1>1. CASE DeliverApc(t)
  BY <1>1 DEF DeliverApc
<1>2. CASE LockApcQueue(t)
  BY <1>2 DEF LockApcQueue
<1>3. CASE LockThread(t)
  BY <1>3 DEF LockThread
<1>4. CASE UnlockThread(t)
  BY <1>4 DEF UnlockThread
<1>5. CASE SwapAway(t)
  BY <1>5 DEF SwapAway
<1>6. CASE LockGate(t)
  BY <1>6 DEF LockGate
<1>7. CASE TryAgain(t)
  BY <1>7 DEF TryAgain
<1>8. QED BY <1>1, <1>2, <1>3, <1>4, <1>5, <1>6, <1>7 DEF LockStep

LEMMA ApcsMoveOn ==
  ASSUME WInv,
         \/ \E t \in Thread : ApcQueueApc(t)
         \/ ApcSetPending \/ ApcLockThread \/ ApcLeaveWait \/ ApcDone
  PROVE  MovesOn
<1> USE GateAssumption DEF WInv, TypeOK, GateTypeOK, CallsMatch, MovesOn, SamePlace,
        ApcGoto, Taken, Released, lockVars, waitVars
<1>1. ASSUME NEW t \in Thread, ApcQueueApc(t) PROVE MovesOn
  BY <1>1 DEF ApcQueueApc
<1>2. CASE ApcSetPending
  BY <1>2 DEF ApcSetPending
<1>3. CASE ApcLockThread
  BY <1>3 DEF ApcLockThread
<1>4. CASE ApcLeaveWait
  BY <1>4 DEF ApcLeaveWait
<1>5. CASE ApcDone
  BY <1>5 DEF ApcDone
<1>6. QED BY <1>1, <1>2, <1>3, <1>4, <1>5

LEMMA MovesOnKeeps ==
  ASSUME WInv, IInv', MovesOn, UNCHANGED mutexVars
  PROVE  /\ WInv'
         /\ \A u \in Thread : /\ InWait(u)' <=> InWait(u)
                              /\ HandedOver(u)' <=> HandedOver(u)
<1>1. ASSUME NEW u \in Thread
      PROVE  /\ InWait(u)' <=> InWait(u)
             /\ HandedOver(u)' <=> HandedOver(u)
             /\ CarriesWake(u)' <=> CarriesWake(u)
             /\ gpc'[u] \in {"Blocked", "Asleep"} <=> gpc[u] \in {"Blocked", "Asleep"}
             /\ gpc'[u] \in {"Signal", "Signaling"} <=> gpc[u] \in {"Signal", "Signaling"}
  BY DEF MovesOn, SamePlace, InWait, HandedOver, CarriesWake, waitVars, mutexVars
<1>2. TypeOK'
  BY MutexTypes DEF WInv, TypeOK, MovesOn, mutexVars
<1>3. ListMatches'
  BY <1>1, SameList DEF MovesOn, waitVars
<1>4. CallsMatch'
  BY <1>1 DEF WInv, CallsMatch, MovesOn, mutexVars
<1>5. OneCarrier'
  BY <1>1, SameCarriers DEF MovesOn, mutexVars
<1>6. QED BY <1>1, <1>2, <1>3, <1>4, <1>5 DEF WInv

(* A thread takes the signal of an open gate. *)
LEMMA TakeSignalKeeps ==
  ASSUME WInv, IInv', NEW t \in Thread, TakeSignal(t), UNCHANGED mutexVars
  PROVE  WInv'
<1>1. /\ signalState = 1 /\ signalState' = 0 /\ gpc[t] = "LockGate"
      /\ gpc' = [gpc EXCEPT ![t] = "Idle"]
      /\ UNCHANGED <<waitList, state, waitStatus, apcPc, target, mutexVars>>
  BY DEF WInv, TypeOK, GateTypeOK, TakeSignal, GateGoto, waitVars, apcVars
<1>2. pc[t] = "Compete" /\ beenWoken[t]
  BY <1>1 DEF WInv, CallsMatch, InWait
<1>3. gpc'[t] = "Idle" /\ \A u \in Thread \ {t} : gpc'[u] = gpc[u]
  BY <1>1 DEF WInv, TypeOK, GateTypeOK
<1>4. TypeOK'
  <2>1. GateTypeOK'
    BY DEF WInv, TypeOK, GateTypeOK, TakeSignal, GateGoto, Released, waitVars, apcVars
  <2>2. QED BY <2>1, MutexTypes DEF WInv, TypeOK, mutexVars
<1>5. ListMatches'
  BY <1>1, <1>3, SameList
<1>6. CallsMatch'
  BY <1>1, <1>3 DEF WInv, CallsMatch, InWait, mutexVars
<1>7. OneCarrier'
  <2>1. count.woken /\ \A u \in Thread : ~CarriesWake(u)
    BY <1>1 DEF WInv, OneCarrier
  <2>2. \A u \in Thread : CarriesWake(u)' <=> u = t
    BY <1>1, <1>2, <1>3, <2>1 DEF CarriesWake, HandedOver, mutexVars
  <2>3. QED BY <1>1, <2>1, <2>2 DEF OneCarrier, mutexVars
<1>8. QED BY <1>4, <1>5, <1>6, <1>7 DEF WInv

LEMMA BlockKeeps ==
  ASSUME WInv, IInv', NEW t \in Thread, Block(t), UNCHANGED mutexVars
  PROVE  WInv'
<1>1. /\ gpc[t] = "LockGate" /\ waitList' = Append(waitList, t)
      /\ gpc' = [gpc EXCEPT ![t] = "Blocked"] /\ state' = [state EXCEPT ![t] = "GateWait"]
      /\ UNCHANGED <<signalState, waitStatus, apcPc, target, mutexVars>>
  BY DEF Block, GateGoto, apcVars
<1>2. /\ gpc'[t] = "Blocked" /\ state'[t] = "GateWait"
      /\ \A u \in Thread \ {t} : gpc'[u] = gpc[u] /\ state'[u] = state[u]
  BY <1>1 DEF WInv, TypeOK, GateTypeOK
<1>3. ~Listed(waitList, t)
  BY <1>1 DEF WInv, ListMatches
<1>4. /\ waitList' \in Seq(Thread) /\ Injective(waitList')
      /\ \A u \in Thread : Listed(waitList', u) <=> Listed(waitList, u) \/ u = t
  BY <1>1, <1>3, AppendListed DEF WInv, TypeOK, GateTypeOK, ListMatches
<1>5. TypeOK'
  <2>1. GateTypeOK'
    BY <1>4 DEF WInv, TypeOK, GateTypeOK, Block, GateGoto, lockVars, apcVars
  <2>2. QED BY <2>1, MutexTypes DEF WInv, TypeOK, mutexVars
<1>6. ListMatches'
  BY <1>2, <1>4 DEF WInv, ListMatches
<1>7. CallsMatch'
  BY <1>1, <1>2 DEF WInv, CallsMatch, InWait, mutexVars
<1>8. OneCarrier'
  <2>1. \A u \in Thread : CarriesWake(u)' <=> CarriesWake(u)
    BY <1>1, <1>2 DEF CarriesWake, HandedOver, mutexVars
  <2>2. QED BY <1>1, <2>1, SameCarriers DEF mutexVars
<1>9. QED BY <1>5, <1>6, <1>7, <1>8 DEF WInv

(* The wake of a thread that was handed over stays with it. *)
LEMMA ResumeKeeps ==
  ASSUME WInv, IInv', NEW t \in Thread, Resume(t), UNCHANGED mutexVars
  PROVE  WInv'
<1>1. /\ gpc[t] = "Asleep" /\ state[t] = "DeferredReady"
      /\ gpc' = [gpc EXCEPT ![t] = IF waitStatus[t] = "Success" THEN "Idle" ELSE "Wait"]
      /\ state' = [state EXCEPT ![t] = "Running"]
      /\ UNCHANGED <<waitList, signalState, waitStatus, apcPc, target, mutexVars>>
  BY DEF Resume, GateGoto, apcVars
<1>2. /\ gpc'[t] = IF waitStatus[t] = "Success" THEN "Idle" ELSE "Wait"
      /\ state'[t] = "Running"
      /\ \A u \in Thread \ {t} : gpc'[u] = gpc[u] /\ state'[u] = state[u]
  BY <1>1 DEF WInv, TypeOK, GateTypeOK
<1>3. pc[t] = "Compete" /\ beenWoken[t]
  BY <1>1 DEF WInv, CallsMatch, InWait
<1>4. TypeOK'
  <2>1. GateTypeOK'
    BY DEF WInv, TypeOK, GateTypeOK, Resume, GateGoto, lockVars, apcVars
  <2>2. QED BY <2>1, MutexTypes DEF WInv, TypeOK, mutexVars
<1>5. ListMatches'
  BY <1>1, <1>2 DEF WInv, ListMatches
<1>6. CallsMatch'
  BY <1>1, <1>2, <1>3 DEF WInv, CallsMatch, InWait, mutexVars
<1>7. OneCarrier'
  <2>1. CarriesWake(t)' <=> CarriesWake(t)
    BY <1>1, <1>2, <1>3 DEF CarriesWake, HandedOver, mutexVars
  <2>2. \A u \in Thread \ {t} : CarriesWake(u)' <=> CarriesWake(u)
    BY <1>1, <1>2 DEF CarriesWake, HandedOver, mutexVars
  <2>3. QED BY <1>1, <2>1, <2>2, SameCarriers DEF mutexVars
<1>8. QED BY <1>4, <1>5, <1>6, <1>7 DEF WInv

(* A signaler leaves its wake in the gate. *)
LEMMA SetSignalKeeps ==
  ASSUME WInv, IInv', NEW t \in Thread, SetSignal(t), UNCHANGED mutexVars
  PROVE  WInv'
<1>1. /\ gpc[t] = "Signaling" /\ signalState' = 1
      /\ gpc' = [gpc EXCEPT ![t] = "Idle"]
      /\ UNCHANGED <<waitList, state, waitStatus, apcPc, target, mutexVars>>
  BY DEF SetSignal, GateGoto, waitVars, apcVars
<1>2. gpc'[t] = "Idle" /\ \A u \in Thread \ {t} : gpc'[u] = gpc[u]
  BY <1>1 DEF WInv, TypeOK, GateTypeOK
<1>3. pc[t] = "Leave"
  BY <1>1 DEF WInv, CallsMatch
<1>4. TypeOK'
  <2>1. GateTypeOK'
    BY GateAssumption DEF WInv, TypeOK, GateTypeOK, SetSignal, GateGoto, waitVars, apcVars
  <2>2. QED BY <2>1, MutexTypes DEF WInv, TypeOK, mutexVars
<1>5. ListMatches'
  BY <1>1, <1>2, SameList
<1>6. CallsMatch'
  BY <1>1, <1>2 DEF WInv, CallsMatch, InWait, mutexVars
<1>7. OneCarrier'
  <2>1. CarriesWake(t)
    BY <1>1 DEF CarriesWake
  <2>2. count.woken /\ \A u \in Thread \ {t} : ~CarriesWake(u)
    BY <2>1 DEF WInv, OneCarrier
  <2>3. \A u \in Thread : ~CarriesWake(u)'
    BY <1>1, <1>2, <1>3, <2>2 DEF CarriesWake, HandedOver, mutexVars
  <2>4. QED BY <1>1, <2>2, <2>3 DEF OneCarrier, mutexVars
<1>8. QED BY <1>4, <1>5, <1>6, <1>7 DEF WInv

(* A wait ends, for a signal or an APC. *)
LEMMA EndedWait ==
  ASSUME WInv, NEW h \in Thread, state[h] = "GateWait", NEW status, EndWait(h, status),
         \A u \in Thread : gpc'[u] \in {"Blocked", "Asleep"} <=> gpc[u] \in {"Blocked", "Asleep"}
  PROVE  /\ waitList' \in Seq(Thread) /\ ListMatches'
         /\ gpc[h] \in {"Blocked", "Asleep"}
         /\ state'[h] = "DeferredReady" /\ waitStatus'[h] = status
         /\ \A u \in Thread \ {h} : state'[u] = state[u] /\ waitStatus'[u] = waitStatus[u]
<1>1. Listed(waitList, h) /\ gpc[h] \in {"Blocked", "Asleep"}
  BY DEF WInv, ListMatches
<1>2. /\ waitList' \in Seq(Thread) /\ Injective(waitList')
      /\ \A u \in Thread : Listed(waitList', u) <=> Listed(waitList, u) /\ u # h
  BY <1>1, RemoveListed DEF WInv, TypeOK, GateTypeOK, ListMatches, EndWait
<1>3. /\ state'[h] = "DeferredReady" /\ waitStatus'[h] = status
      /\ \A u \in Thread \ {h} : state'[u] = state[u] /\ waitStatus'[u] = waitStatus[u]
  BY DEF WInv, TypeOK, GateTypeOK, EndWait
<1>4. ListMatches'
  BY <1>1, <1>2, <1>3 DEF WInv, ListMatches
<1>5. QED BY <1>1, <1>2, <1>3, <1>4

(* A signaler hands its wake over to the first thread of the list. *)
LEMMA ReadyWaiterKeeps ==
  ASSUME WInv, IInv', NEW t \in Thread, ReadyWaiter(t), UNCHANGED mutexVars
  PROVE  WInv'
<1>0. PICK h \in Thread : h = Head(waitList) /\ state[h] = "GateWait"
  BY HeadListed DEF WInv, TypeOK, GateTypeOK, ListMatches, ReadyWaiter
<1>1. /\ gpc[t] = "Signaling" /\ signalState = 0 /\ EndWait(h, "Success")
      /\ gpc' = [gpc EXCEPT ![t] = "Idle"]
      /\ UNCHANGED <<signalState, apcPc, target, mutexVars>>
  BY <1>0 DEF ReadyWaiter, GateGoto, apcVars
<1>2. gpc'[t] = "Idle" /\ \A u \in Thread \ {t} : gpc'[u] = gpc[u]
  BY <1>1 DEF WInv, TypeOK, GateTypeOK
<1>3. pc[t] = "Leave"
  BY <1>1 DEF WInv, CallsMatch
<1>4. /\ waitList' \in Seq(Thread) /\ ListMatches'
      /\ gpc[h] \in {"Blocked", "Asleep"}
      /\ state'[h] = "DeferredReady" /\ waitStatus'[h] = "Success"
      /\ \A u \in Thread \ {h} : state'[u] = state[u] /\ waitStatus'[u] = waitStatus[u]
  BY <1>1, <1>2, <1>0, EndedWait
<1>5. TypeOK'
  <2>1. state' \in [Thread -> {"Running", "GateWait", "DeferredReady"}]
    BY <1>1 DEF WInv, TypeOK, GateTypeOK, EndWait
  <2>2. waitStatus' \in [Thread -> {"None", "Success", "KernelApc"}]
    BY <1>1 DEF WInv, TypeOK, GateTypeOK, EndWait
  <2>3. GateTypeOK'
    BY ZenonT(60), <1>1, <1>4, <2>1, <2>2, GateAssumption
       DEF WInv, TypeOK, GateTypeOK, ReadyWaiter, apcVars
  <2>4. QED BY <2>3, MutexTypes DEF WInv, TypeOK, mutexVars
<1>6. CallsMatch'
  BY <1>1, <1>2 DEF WInv, CallsMatch, InWait, mutexVars
<1>7. OneCarrier'
  <2>1. CarriesWake(t)
    BY <1>1 DEF CarriesWake
  <2>2. count.woken /\ \A u \in Thread \ {t} : ~CarriesWake(u)
    BY <2>1 DEF WInv, OneCarrier
  <2>3. \A u \in Thread \ {h} : ~CarriesWake(u)'
    BY <1>1, <1>2, <1>3, <1>4, <2>2 DEF CarriesWake, HandedOver, mutexVars
  <2>4. h # t
    BY <1>1, <1>4
  <2>5. gpc'[h] \in {"Blocked", "Asleep"}
    BY <1>2, <1>0, <1>4, <2>4
  <2>6. CarriesWake(h)'
    BY <1>4, <2>5 DEF CarriesWake, HandedOver
  <2>7. \A u \in Thread : CarriesWake(u)' <=> u = h
    BY <2>3, <2>6
  <2>8. count'.woken /\ signalState' = 0
    BY <1>1, <2>2 DEF mutexVars
  <2>9. QED BY <1>0, <2>7, <2>8 DEF OneCarrier
<1>8. QED BY <1>4, <1>5, <1>6, <1>7 DEF WInv

(* An APC ends a wait without a wake. *)
LEMMA ApcEndWaitKeeps ==
  ASSUME WInv, IInv', ApcEndWait, UNCHANGED mutexVars
  PROVE  WInv'
<1>1. /\ target \in Thread /\ state[target] = "GateWait" /\ EndWait(target, "KernelApc")
      /\ UNCHANGED <<signalState, gpc, target, mutexVars>>
  BY DEF WInv, CallsMatch, ApcEndWait, StillInterruptible
<1>2. /\ waitList' \in Seq(Thread) /\ ListMatches'
      /\ gpc[target] \in {"Blocked", "Asleep"}
      /\ state'[target] = "DeferredReady" /\ waitStatus'[target] = "KernelApc"
      /\ \A u \in Thread \ {target} : state'[u] = state[u] /\ waitStatus'[u] = waitStatus[u]
  BY <1>1, EndedWait
<1>3. TypeOK'
  <2>1. state' \in [Thread -> {"Running", "GateWait", "DeferredReady"}]
    BY <1>1 DEF WInv, TypeOK, GateTypeOK, EndWait
  <2>2. waitStatus' \in [Thread -> {"None", "Success", "KernelApc"}]
    BY <1>1 DEF WInv, TypeOK, GateTypeOK, EndWait
  <2>3. GateTypeOK'
    BY <1>1, <1>2, <2>1, <2>2 DEF WInv, TypeOK, GateTypeOK, ApcEndWait, ApcGoto, Released
  <2>4. QED BY <2>3, MutexTypes DEF WInv, TypeOK, mutexVars
<1>4. CallsMatch'
  BY <1>1 DEF WInv, CallsMatch, InWait, mutexVars
<1>5. OneCarrier'
  <2>1. CarriesWake(target)' <=> CarriesWake(target)
    BY <1>1, <1>2 DEF CarriesWake, HandedOver, mutexVars
  <2>2. \A u \in Thread \ {target} : CarriesWake(u)' <=> CarriesWake(u)
    BY <1>1, <1>2 DEF CarriesWake, HandedOver, mutexVars
  <2>3. QED BY <1>1, <2>1, <2>2, SameCarriers DEF mutexVars
<1>6. QED BY <1>2, <1>3, <1>4, <1>5 DEF WInv
-----------------------------------------------------------------------------
(* The bits of the count that the wakes depend on. *)
LEMMA WokenBits ==
  ASSUME NEW c \in Count, NEW again \in BOOLEAN, again => c.woken
  PROVE  /\ Grabbed(c, again).woken <=> c.woken /\ ~again
         /\ Queued(c, again).woken <=> c.woken /\ ~again
         /\ Freed(c).woken <=> c.woken
<1>1. Freed(c).woken <=> c.woken
  BY DEF Freed, Count
<1>2. Grabbed(c, again).woken <=> c.woken /\ ~again
  <2>1. CASE again
    BY <2>1 DEF Grabbed, Count
  <2>2. CASE ~again
    BY <2>2 DEF Grabbed, Count
  <2>3. QED BY <2>1, <2>2
<1>3. Queued(c, again).woken <=> c.woken /\ ~again
  <2> DEFINE w == c.woken /\ ~again
             n == c.waiters + 1
  <2>1. Queued(c, again) = [c EXCEPT !.waiters = n, !.woken = w]
    BY DEF Queued
  <2> HIDE DEF w, n
  <2>2. [c EXCEPT !.waiters = n, !.woken = w].woken = w
    BY DEF Count
  <2>3. QED BY <2>1, <2>2 DEF w
<1>4. QED BY <1>1, <1>2, <1>3

(* Calls that begin or end: a thread that has no wake before or after. *)
LEMMA OutsideKeeps ==
  ASSUME WInv, IInv', NEW t \in Thread,
         TryFails(t) \/ AcquireFast(t) \/ AcquireSlow(t) \/ Release(t) \/ Leave(t)
  PROVE  WInv'
<1>1. /\ UNCHANGED <<signalState, waitList, state, waitStatus, gpc, target, apcPc>>
      /\ \A u \in Thread \ {t} : pc'[u] = pc[u] /\ beenWoken'[u] = beenWoken[u]
      /\ pc[t] \in {"Idle", "Owns", "Leave"}
      /\ pc[t] = "Leave" => gpc[t] = "Idle"
      /\ pc'[t] = "Compete" => ~beenWoken'[t]
      /\ GateTypeOK' /\ acquires' \in [Thread -> Nat]
      /\ count'.woken <=> count.woken
  <2> USE DEF WInv, TypeOK, GateTypeOK, gateVars, waitVars, apcVars, lockVars, Goto
  <2>1. CASE TryFails(t)
    BY <2>1 DEF TryFails
  <2>2. CASE AcquireFast(t)
    BY SMTT(30), <2>2 DEF AcquireFast, Count
  <2>3. CASE AcquireSlow(t)
    BY <2>3 DEF AcquireSlow
  <2>4. CASE Release(t)
    <3>1. count'.woken <=> count.woken
      BY <2>4, WokenBits DEF Release
    <3>2. QED BY <2>4, <3>1 DEF Release
  <2>5. CASE Leave(t)
    BY <2>5 DEF Leave
  <2>6. QED BY <2>1, <2>2, <2>3, <2>4, <2>5
<1>2. ~InWait(t) /\ gpc[t] \notin {"Signal", "Signaling"}
  BY <1>1 DEF WInv, CallsMatch
<1>3. TypeOK'
  BY <1>1, MutexTypes
<1>4. ListMatches'
  BY <1>1, SameList
<1>5. CallsMatch'
  <2>1. \A u \in Thread : InWait(u)' <=> InWait(u)
    BY <1>1 DEF InWait
  <2>2. QED BY <1>1, <1>2, <2>1 DEF WInv, CallsMatch
<1>6. OneCarrier'
  <2>1. ~CarriesWake(t) /\ ~CarriesWake(t)'
    BY <1>1, <1>2 DEF CarriesWake, HandedOver, InWait
  <2>2. \A u \in Thread \ {t} : CarriesWake(u)' <=> CarriesWake(u)
    BY <1>1 DEF CarriesWake, HandedOver
  <2>3. QED BY <1>1, <2>1, <2>2, SameCarriers
<1>7. QED BY <1>3, <1>4, <1>5, <1>6 DEF WInv

(* A thread that was woken uses its wake up, whether it gets the mutex or  *)
(* waits again.                                                            *)
LEMMA CompeteKeeps ==
  ASSUME WInv, IInv', NEW t \in Thread, Grab(t) \/ WaitForGate(t)
  PROVE  WInv'
<1>1. pc[t] = "Compete" /\ gpc[t] = "Idle" /\ beenWoken[t] \in BOOLEAN /\ count \in Count
  BY DEF WInv, TypeOK, Grab, WaitForGate
<1>2. CarriesWake(t) <=> beenWoken[t]
  BY <1>1 DEF CarriesWake, HandedOver
<1>3. beenWoken[t] => /\ count.woken /\ signalState = 0
                      /\ \A u \in Thread \ {t} : ~CarriesWake(u)
  BY <1>2 DEF WInv, OneCarrier
<1>4. count'.woken <=> count.woken /\ ~beenWoken[t]
  BY <1>1, <1>3, WokenBits DEF Grab, WaitForGate
<1>5. \/ pc' = [pc EXCEPT ![t] = "Owns"] /\ UNCHANGED <<gpc, beenWoken>>
      \/ /\ gpc' = [gpc EXCEPT ![t] = "Wait"] /\ UNCHANGED pc
         /\ beenWoken' = [beenWoken EXCEPT ![t] = TRUE]
  BY DEF Grab, WaitForGate, Goto, GateGoto, gateVars
<1>6. /\ \A u \in Thread \ {t} : pc'[u] = pc[u] /\ gpc'[u] = gpc[u] /\ beenWoken'[u] = beenWoken[u]
      /\ \/ pc'[t] = "Owns" /\ gpc'[t] = "Idle"
         \/ pc'[t] = "Compete" /\ gpc'[t] = "Wait" /\ beenWoken'[t]
  BY <1>1, <1>5 DEF WInv, TypeOK, GateTypeOK
<1>7. /\ UNCHANGED <<signalState, waitList, state, waitStatus, target, apcPc>>
      /\ GateTypeOK' /\ acquires' \in [Thread -> Nat]
  <2> USE DEF WInv, TypeOK, GateTypeOK, gateVars, waitVars, apcVars, lockVars, GateGoto
  <2>1. CASE Grab(t)
    BY <2>1 DEF Grab
  <2>2. CASE WaitForGate(t)
    BY <2>2 DEF WaitForGate
  <2>3. QED BY <2>1, <2>2
<1>8. TypeOK'
  BY <1>7, MutexTypes
<1>9. ListMatches'
  BY <1>1, <1>6, <1>7, SameList
<1>10. CallsMatch'
  BY <1>6, <1>7 DEF WInv, CallsMatch, InWait
<1>11. OneCarrier'
  <2>1. ~CarriesWake(t)'
    BY <1>6 DEF CarriesWake, HandedOver
  <2>2. \A u \in Thread \ {t} : CarriesWake(u)' <=> CarriesWake(u)
    BY <1>6, <1>7 DEF CarriesWake, HandedOver
  <2>3. CASE beenWoken[t]
    <3>1. \A u \in Thread : ~CarriesWake(u)'
      BY <1>3, <2>1, <2>2, <2>3
    <3>2. ~count'.woken /\ signalState' = 0
      BY <1>3, <1>4, <1>7, <2>3
    <3>3. QED BY <3>1, <3>2 DEF OneCarrier
  <2>4. CASE ~beenWoken[t]
    BY <1>2, <1>4, <1>7, <2>1, <2>2, <2>4, SameCarriers
  <2>5. QED BY <2>3, <2>4
<1>12. QED BY <1>8, <1>9, <1>10, <1>11 DEF WInv

(* The thread that sets the woken bit is the one that signals. *)
LEMMA ElectKeeps ==
  ASSUME WInv, IInv', NEW t \in Thread, ElectWaker(t)
  PROVE  WInv'
<1>1. /\ pc[t] = "Wake" /\ pc' = [pc EXCEPT ![t] = "Leave"]
      /\ UNCHANGED <<signalState, waitList, state, waitStatus, target, apcPc, beenWoken>>
  BY DEF ElectWaker, Goto, waitVars, apcVars
<1>2. pc'[t] = "Leave" /\ \A u \in Thread \ {t} : pc'[u] = pc[u]
  BY <1>1 DEF WInv, TypeOK
<1>3. ~InWait(t) /\ gpc[t] = "Idle"
  BY <1>1 DEF WInv, TypeOK, GateTypeOK, CallsMatch, InWait
<1>4. \/ /\ gpc' = [gpc EXCEPT ![t] = "Signal"]
         /\ ~count.woken /\ count'.woken
      \/ UNCHANGED <<gpc, count>>
  BY <1>1, Exchanges DEF WInv, IInv, MutexTypeOK, WakeIsNeeded, ElectWaker, NeedsWake, GateGoto
<1>5. /\ \A u \in Thread \ {t} : gpc'[u] = gpc[u]
      /\ \/ gpc'[t] = "Signal" /\ ~count.woken /\ count'.woken
         \/ gpc'[t] = "Idle" /\ UNCHANGED count
  BY <1>3, <1>4 DEF WInv, TypeOK, GateTypeOK
<1>6. TypeOK'
  <2>1. GateTypeOK' /\ acquires' \in [Thread -> Nat]
    BY <1>4 DEF WInv, TypeOK, GateTypeOK, ElectWaker, waitVars, apcVars, lockVars
  <2>2. QED BY <2>1, MutexTypes
<1>7. ListMatches'
  BY <1>1, <1>3, <1>5, SameList
<1>8. CallsMatch'
  BY <1>1, <1>2, <1>5 DEF WInv, CallsMatch, InWait
<1>9. OneCarrier'
  <2>1. \A u \in Thread \ {t} : CarriesWake(u)' <=> CarriesWake(u)
    BY <1>1, <1>2, <1>5 DEF CarriesWake, HandedOver
  <2>2. ~CarriesWake(t)
    BY <1>1, <1>3 DEF CarriesWake, HandedOver
  <2>3. CASE gpc'[t] = "Signal" /\ ~count.woken /\ count'.woken
    <3>1. signalState = 0 /\ \A u \in Thread : ~CarriesWake(u)
      BY <2>3 DEF WInv, OneCarrier
    <3>2. \A u \in Thread : CarriesWake(u)' <=> u = t
      BY <2>1, <2>3, <3>1 DEF CarriesWake
    <3>3. QED BY <1>1, <2>3, <3>1, <3>2 DEF OneCarrier
  <2>4. CASE gpc'[t] = "Idle" /\ UNCHANGED count
    <3>1. ~CarriesWake(t)'
      BY <1>2, <2>4 DEF CarriesWake, HandedOver
    <3>2. QED BY <1>1, <2>1, <2>2, <2>4, <3>1, SameCarriers
  <2>5. QED BY <1>5, <2>3, <2>4
<1>10. QED BY <1>6, <1>7, <1>8, <1>9 DEF WInv

LEMMA WInvInit == Init => WInv
<1> SUFFICES ASSUME Init PROVE WInv
  OBVIOUS
<1>1. IInv
  BY InitEstablishes
<1>2. TypeOK
  BY <1>1, GateAssumption DEF Init, GateInit, TypeOK, GateTypeOK, IInv, MutexTypeOK
<1>3. ListMatches
  BY DEF Init, GateInit, ListMatches, Injective, Listed
<1>4. CallsMatch
  BY DEF Init, GateInit, CallsMatch, InWait
<1>5. OneCarrier
  BY DEF Init, GateInit, OneCarrier, CarriesWake, HandedOver, Initial
<1>6. QED BY <1>1, <1>2, <1>3, <1>4, <1>5 DEF WInv

LEMMA WInvStep == WInv /\ [Next]_vars => WInv'
<1> SUFFICES ASSUME WInv, [Next]_vars PROVE WInv'
  OBVIOUS
<1>1. IInv'
  BY StepKeeps DEF WInv
<1>2. ASSUME NEW t \in Thread, GateStep(t), UNCHANGED mutexVars PROVE WInv'
  BY <1>1, <1>2, LocksMoveOn, MovesOnKeeps, TakeSignalKeeps, BlockKeeps, ResumeKeeps,
     SetSignalKeeps, ReadyWaiterKeeps DEF GateStep, LockStep
<1>3. CASE ApcStep /\ UNCHANGED mutexVars
  BY <1>1, <1>3, ApcsMoveOn, MovesOnKeeps, ApcEndWaitKeeps DEF ApcStep
<1>4. ASSUME NEW t \in Thread, ApcQueueApc(t), UNCHANGED mutexVars PROVE WInv'
  BY <1>1, <1>4, ApcsMoveOn, MovesOnKeeps
<1>5. ASSUME NEW t \in Thread, Acquire(t) \/ Step(t) PROVE WInv'
  BY <1>1, <1>5, OutsideKeeps, CompeteKeeps, ElectKeeps DEF Acquire, Step
<1>6. CASE UNCHANGED vars
  <2>1. MovesOn
    BY <1>6 DEF WInv, TypeOK, GateTypeOK, CallsMatch, MovesOn, SamePlace, vars, gateVars,
                lockVars, waitVars, apcVars
  <2>2. QED BY <1>1, <1>6, <2>1, MovesOnKeeps DEF vars
<1>7. QED BY <1>2, <1>3, <1>4, <1>5, <1>6 DEF Next, GateNext

LEMMA WInvHolds == Spec => []WInv
BY WInvInit, WInvStep, PTL DEF Spec

(* The woken bit (KiAcquireGuardedMutex, KeReleaseGuardedMutex and the     *)
(* gate): it is set exactly while one wake is on its way, with a signaler, *)
(* in the open gate, with a thread that was let pass, or with one that has *)
(* come back and not yet exchanged the count, whatever APCs interrupt.  So *)
(* a release that finds the bit set may leave the waiters alone.           *)
THEOREM GuardedMutexWakesAgree == Spec => []WakesAgree
BY WInvHolds, WakesOutOfInvariant, PTL
-----------------------------------------------------------------------------
(***************************************************************************)
(* The gate implements its contract.                                       *)
(***************************************************************************)
Waiting == {t \in Thread : InWait(t) /\ ~HandedOver(t)}
Passing == {t \in Thread : HandedOver(t)}
ContractStep == Contract!Next \/ UNCHANGED <<signalState = 1, Waiting, Passing>>

(* Only t changes what it is to the contract. *)
LEMMA OnlyOne ==
  ASSUME NEW t \in Thread,
         \A u \in Thread \ {t} : /\ InWait(u)' <=> InWait(u)
                                 /\ HandedOver(u)' <=> HandedOver(u)
  PROVE  /\ HandedOver(t)' => /\ Waiting' = Waiting \ {t}
                              /\ Passing' = Passing \union {t}
         /\ ~HandedOver(t)' => Passing' = Passing \ {t}
         /\ ~HandedOver(t)' /\ InWait(t)' => Waiting' = Waiting \union {t}
         /\ ~InWait(t)' => Waiting' = Waiting \ {t}
BY DEF Waiting, Passing

LEMMA NobodyMoves ==
  ASSUME UNCHANGED signalState,
         \A u \in Thread : /\ InWait(u)' <=> InWait(u)
                           /\ HandedOver(u)' <=> HandedOver(u)
  PROVE  ContractStep
<1>1. UNCHANGED <<Waiting, Passing>>
  BY DEF Waiting, Passing
<1>2. QED BY <1>1 DEF ContractStep

LEMMA SignalIsTaken ==
  ASSUME WInv, NEW t \in Thread, TakeSignal(t)
  PROVE  ContractStep
<1>1. /\ signalState = 1 /\ signalState' = 0 /\ gpc[t] = "LockGate"
      /\ gpc'[t] = "Idle" /\ \A u \in Thread \ {t} : gpc'[u] = gpc[u]
      /\ UNCHANGED <<state, waitStatus>>
  BY DEF WInv, TypeOK, GateTypeOK, TakeSignal, GateGoto, waitVars
<1>2. /\ t \in Waiting /\ t \notin Passing
      /\ ~InWait(t)' /\ ~HandedOver(t)'
  BY <1>1 DEF Waiting, Passing, InWait, HandedOver
<1>3. \A u \in Thread \ {t} : /\ InWait(u)' <=> InWait(u)
                              /\ HandedOver(u)' <=> HandedOver(u)
  BY <1>1 DEF InWait, HandedOver
<1>4. Waiting' = Waiting \ {t} /\ Passing' = Passing
  BY <1>2, <1>3, OnlyOne
<1>5. Contract!TakeSignal(t)
  BY <1>1, <1>2, <1>4 DEF Contract!TakeSignal, Waiting, Passing
<1>6. QED BY <1>5 DEF Contract!Next, ContractStep

LEMMA ResumeReturns ==
  ASSUME WInv, NEW t \in Thread, Resume(t)
  PROVE  ContractStep
<1>1. /\ gpc[t] = "Asleep" /\ state[t] = "DeferredReady" /\ UNCHANGED signalState
      /\ gpc'[t] = IF waitStatus[t] = "Success" THEN "Idle" ELSE "Wait"
      /\ state'[t] = "Running" /\ UNCHANGED waitStatus
      /\ \A u \in Thread \ {t} : gpc'[u] = gpc[u] /\ state'[u] = state[u]
  BY DEF WInv, TypeOK, GateTypeOK, Resume, GateGoto
<1>2. \A u \in Thread \ {t} : /\ InWait(u)' <=> InWait(u)
                              /\ HandedOver(u)' <=> HandedOver(u)
  BY <1>1 DEF InWait, HandedOver
<1>3. CASE waitStatus[t] = "Success"
  <2>1. t \in Passing /\ t \notin Waiting /\ ~InWait(t)' /\ ~HandedOver(t)'
    BY <1>1, <1>3 DEF Waiting, Passing, InWait, HandedOver
  <2>2. Waiting' = Waiting /\ Passing' = Passing \ {t}
    BY <1>2, <2>1, OnlyOne
  <2>3. Contract!Return(t)
    BY <1>1, <2>1, <2>2 DEF Contract!Return, Waiting, Passing
  <2>4. QED BY <2>3 DEF Contract!Next, ContractStep
<1>4. CASE waitStatus[t] # "Success"
  <2>1. InWait(t) /\ InWait(t)' /\ ~HandedOver(t) /\ ~HandedOver(t)'
    BY <1>1, <1>4 DEF InWait, HandedOver
  <2>2. QED BY <1>1, <1>2, <2>1, NobodyMoves
<1>5. QED BY <1>3, <1>4

LEMMA SignalIsSet ==
  ASSUME WInv, NEW t \in Thread, SetSignal(t)
  PROVE  ContractStep
<1>1. /\ signalState' = 1 /\ gpc[t] = "Signaling"
      /\ gpc'[t] = "Idle" /\ \A u \in Thread \ {t} : gpc'[u] = gpc[u]
      /\ UNCHANGED <<state, waitStatus>>
  BY DEF WInv, TypeOK, GateTypeOK, SetSignal, GateGoto, waitVars
<1>2. \A u \in Thread : /\ InWait(u)' <=> InWait(u)
                        /\ HandedOver(u)' <=> HandedOver(u)
  BY <1>1 DEF InWait, HandedOver
<1>3. UNCHANGED <<Waiting, Passing>>
  BY <1>2 DEF Waiting, Passing
<1>4. Contract!SignalOpens
  BY <1>1, <1>3 DEF Contract!SignalOpens, Waiting, Passing
<1>5. QED BY <1>4 DEF Contract!Next, ContractStep

LEMMA WaiterIsLetPass ==
  ASSUME WInv, NEW t \in Thread, ReadyWaiter(t)
  PROVE  ContractStep
<1>1. PICK h \in Thread : h = Head(waitList) /\ state[h] = "GateWait"
  BY HeadListed DEF WInv, TypeOK, GateTypeOK, ListMatches, ReadyWaiter
<1>2. /\ gpc[t] = "Signaling" /\ signalState = 0 /\ UNCHANGED signalState
      /\ gpc'[t] = "Idle" /\ \A u \in Thread \ {t} : gpc'[u] = gpc[u]
      /\ EndWait(h, "Success")
  BY <1>1 DEF WInv, TypeOK, GateTypeOK, ReadyWaiter, GateGoto
<1>3. /\ gpc[h] \in {"Blocked", "Asleep"}
      /\ state'[h] = "DeferredReady" /\ waitStatus'[h] = "Success"
      /\ \A u \in Thread \ {h} : state'[u] = state[u] /\ waitStatus'[u] = waitStatus[u]
  BY <1>1, <1>2, EndedWait
<1>4. gpc'[h] = gpc[h]
  BY <1>2, <1>3
<1>5. h \in Waiting /\ HandedOver(h)'
  BY <1>1, <1>3, <1>4 DEF Waiting, InWait, HandedOver
<1>6. \A u \in Thread \ {h} : /\ InWait(u)' <=> InWait(u)
                              /\ HandedOver(u)' <=> HandedOver(u)
  BY <1>2, <1>3 DEF InWait, HandedOver
<1>7. Waiting' = Waiting \ {h} /\ Passing' = Passing \union {h}
  BY <1>5, <1>6, OnlyOne
<1>8. Contract!SignalHandsOver(h)
  BY <1>2, <1>5, <1>7 DEF Contract!SignalHandsOver, Contract!LetPass, Waiting, Passing
<1>9. QED BY <1>8 DEF Contract!Next, ContractStep

LEMMA WaitArrives ==
  ASSUME WInv, NEW t \in Thread, WaitForGate(t)
  PROVE  ContractStep
<1>1. /\ gpc[t] = "Idle" /\ UNCHANGED signalState
      /\ gpc'[t] = "Wait" /\ \A u \in Thread \ {t} : gpc'[u] = gpc[u]
      /\ UNCHANGED <<state, waitStatus>>
  BY DEF WInv, TypeOK, GateTypeOK, WaitForGate, GateGoto, waitVars
<1>2. /\ t \notin Waiting /\ t \notin Passing
      /\ InWait(t)' /\ ~HandedOver(t)'
  BY <1>1 DEF Waiting, Passing, InWait, HandedOver
<1>3. \A u \in Thread \ {t} : /\ InWait(u)' <=> InWait(u)
                              /\ HandedOver(u)' <=> HandedOver(u)
  BY <1>1 DEF InWait, HandedOver
<1>4. Waiting' = Waiting \union {t} /\ Passing' = Passing
  BY <1>2, <1>3, OnlyOne
<1>5. Contract!Arrive(t)
  BY <1>1, <1>2, <1>4 DEF Contract!Arrive, Waiting, Passing
<1>6. QED BY <1>5 DEF Contract!Next, ContractStep

(* Steps that are none of the contract's business. *)
LEMMA OtherStepsStutter ==
  ASSUME WInv, NEW t \in Thread,
         \/ Block(t) \/ ApcEndWait
         \/ Acquire(t) \/ Grab(t) \/ Release(t) \/ ElectWaker(t) \/ Leave(t)
  PROVE  ContractStep
<1>1. CASE Block(t)
  <2>1. /\ UNCHANGED signalState /\ gpc[t] = "LockGate"
        /\ gpc'[t] = "Blocked" /\ state'[t] = "GateWait" /\ UNCHANGED waitStatus
        /\ \A u \in Thread \ {t} : gpc'[u] = gpc[u] /\ state'[u] = state[u]
    BY <1>1 DEF WInv, TypeOK, GateTypeOK, Block, GateGoto
  <2>2. \A u \in Thread : /\ InWait(u)' <=> InWait(u)
                          /\ HandedOver(u)' <=> HandedOver(u)
    BY <2>1 DEF InWait, HandedOver
  <2>3. QED BY <2>1, <2>2, NobodyMoves
<1>2. CASE ApcEndWait
  <2>1. /\ target \in Thread /\ state[target] = "GateWait" /\ EndWait(target, "KernelApc")
        /\ UNCHANGED <<signalState, gpc>>
    BY <1>2 DEF WInv, CallsMatch, ApcEndWait, StillInterruptible
  <2>2. /\ waitStatus'[target] = "KernelApc"
        /\ \A u \in Thread \ {target} : state'[u] = state[u] /\ waitStatus'[u] = waitStatus[u]
    BY <2>1, EndedWait
  <2>3. \A u \in Thread : /\ InWait(u)' <=> InWait(u)
                          /\ HandedOver(u)' <=> HandedOver(u)
    BY <2>1, <2>2 DEF InWait, HandedOver
  <2>4. QED BY <2>1, <2>3, NobodyMoves
<1>3. CASE Acquire(t) \/ Grab(t) \/ Release(t) \/ Leave(t)
  <2>1. UNCHANGED <<signalState, gpc, state, waitStatus>>
    BY <1>3 DEF Acquire, TryFails, AcquireFast, AcquireSlow, Grab, Release, Leave,
                gateVars, waitVars
  <2>2. QED BY <2>1, NobodyMoves DEF InWait, HandedOver
<1>4. CASE ElectWaker(t)
  <2>1. ~InWait(t)
    BY <1>4 DEF WInv, CallsMatch, ElectWaker
  <2>2. /\ UNCHANGED <<signalState, state, waitStatus>>
        /\ \A u \in Thread \ {t} : gpc'[u] = gpc[u]
        /\ gpc'[t] = "Signal" \/ gpc'[t] = gpc[t]
    BY <1>4 DEF WInv, TypeOK, GateTypeOK, ElectWaker, GateGoto, waitVars
  <2>3. \A u \in Thread : /\ InWait(u)' <=> InWait(u)
                          /\ HandedOver(u)' <=> HandedOver(u)
    BY <2>1, <2>2 DEF InWait, HandedOver
  <2>4. QED BY <2>2, <2>3, NobodyMoves
<1>5. QED BY <1>1, <1>2, <1>3, <1>4

LEMMA LocksStutter ==
  ASSUME WInv, WInv', MovesOn, UNCHANGED mutexVars
  PROVE  ContractStep
BY MovesOnKeeps, NobodyMoves DEF WInv, MovesOn

(* The gate, refined (ke/gateobj.c, KiInsertQueueApc): with its three      *)
(* locks, its list, the signaler's retries and the APCs that take waiters  *)
(* off the list and send them back, KeWaitForGate and                      *)
(* KeSignalGateBoostPriority do what GateContract says: a signal lets one  *)
(* thread pass, and none is lost.                                          *)
THEOREM GateRefinement == Spec => GateImplementsContract
<1>1. Init => Contract!Init
  BY DEF Init, GateInit, Contract!Init, InWait, HandedOver
<1>2. ASSUME WInv, WInv', [Next]_vars PROVE ContractStep
  <2>1. ASSUME NEW t \in Thread, GateStep(t), UNCHANGED mutexVars PROVE ContractStep
    BY <1>2, <2>1, LocksMoveOn, LocksStutter, SignalIsTaken, OtherStepsStutter,
       ResumeReturns, SignalIsSet, WaiterIsLetPass DEF GateStep, LockStep
  <2>2. ASSUME NEW t \in Thread, ApcQueueApc(t), UNCHANGED mutexVars PROVE ContractStep
    BY <1>2, <2>2, ApcsMoveOn, LocksStutter
  <2>3. CASE ApcStep /\ ~ApcEndWait /\ UNCHANGED mutexVars
    BY <1>2, <2>3, ApcsMoveOn, LocksStutter DEF ApcStep
  <2>4. CASE ApcEndWait
    <3>1. target \in Thread
      BY <1>2, <2>4 DEF WInv, CallsMatch, ApcEndWait
    <3>2. QED BY <1>2, <2>4, <3>1, OtherStepsStutter
  <2>5. ASSUME NEW t \in Thread, Acquire(t) \/ Step(t) PROVE ContractStep
    BY <1>2, <2>5, OtherStepsStutter, WaitArrives DEF Step
  <2>6. CASE UNCHANGED vars
    BY <2>6, NobodyMoves DEF vars, gateVars, waitVars, InWait, HandedOver
  <2>7. QED BY <1>2, <2>1, <2>2, <2>3, <2>4, <2>5, <2>6 DEF Next, GateNext
<1>3. ASSUME WInv, WInv', [Next]_vars
      PROVE  [Contract!Next]_<<signalState = 1, {t \in Thread : InWait(t) /\ ~HandedOver(t)},
                               {t \in Thread : HandedOver(t)}>>
  BY <1>2, <1>3 DEF ContractStep, Waiting, Passing
<1>4. QED
  BY <1>1, <1>3, WInvHolds, PTL
     DEF Spec, GateImplementsContract, Contract!Spec, Contract!vars

=============================================================================
