------------------------- MODULE KernelQueueProofs -------------------------
(***************************************************************************)
(* Kernel queues, for any finite set of threads, any queues and entries    *)
(* and any limits.  A step of KernelQueue does several things at once (a   *)
(* thread gives up its place, another one is handed an entry, the first    *)
(* one joins a queue): each of them keeps the invariant, which is          *)
(* therefore stated of any four functions that could be the state.         *)
(***************************************************************************)
EXTENDS KernelQueue, SequenceTheorems, FiniteSetTheorems, TLAPS

USE KernelQueueAssumption

Pc == {"Running", "Restart", "QueueWait", "Waiting", "GateWait", "Signaled", "Exited"}
AtWorkPc == {"Running", "Restart"}
AwayPc   == {"Waiting", "GateWait", "Signaled", "Exited"}

InList(s, x) == \E n \in 1..Len(s) : s[n] = x

KQueue == [entries : Seq(Item), waiters : Seq(Thread), current : Int]

Types(ks, qs, is, ps) ==
  /\ ks \in [Queue -> KQueue]
  /\ qs \in [Thread -> Queue \union {None}]
  /\ is \in [Thread -> SUBSET Item]
  /\ ps \in [Thread -> Pc]

(* CurrentCount is the number of threads at work for the queue. *)
ActiveIn(q, qs, ps) == {t \in Thread : qs[t] = q /\ ps[t] \in AtWorkPc}
Counts(ks, qs, ps) == \A q \in Queue : ks[q].current = Cardinality(ActiveIn(q, qs, ps))

(* The wait list of a queue has the threads that wait for it, once each. *)
WaitersMatch(ks, qs, ps) ==
  \A q \in Queue :
    /\ IsInjective(ks[q].waiters)
    /\ \A t \in Thread : InList(ks[q].waiters, t) <=> qs[t] = q /\ ps[t] = "QueueWait"

HaveQueue(qs, ps) == \A t \in Thread : ps[t] \in {"Restart", "QueueWait"} => qs[t] \in Queue

OnePlace(ks, is) ==
  /\ \A q \in Queue : IsInjective(ks[q].entries)
  /\ \A i \in Item, p, q \in Queue :
       InList(ks[p].entries, i) /\ InList(ks[q].entries, i) => p = q
  /\ \A i \in Item, t \in Thread : i \in is[t] =>
       /\ \A q \in Queue : ~InList(ks[q].entries, i)
       /\ \A u \in Thread : i \in is[u] => t = u

(* Nobody has the entry. *)
Free(i, ks, is) ==
  /\ \A q \in Queue : ~InList(ks[q].entries, i)
  /\ \A t \in Thread : i \notin is[t]

Sound(ks, qs, is, ps) ==
  /\ Types(ks, qs, is, ps)
  /\ Counts(ks, qs, ps)
  /\ WaitersMatch(ks, qs, ps)
  /\ HaveQueue(qs, ps)
  /\ OnePlace(ks, is)

(* NoIdleEntry, of the counts. *)
Busy(ks, q) == ks[q].entries # <<>> /\ ks[q].waiters # <<>> => ks[q].current > 0
AllBusy(ks) == \A q \in Queue : Busy(ks, q)

Inv ==
  /\ reasonQueue \in [Thread -> BOOLEAN]
  /\ Sound(kqueue, queue, item, pc)
  /\ AllBusy(kqueue)
-----------------------------------------------------------------------------
(***************************************************************************)
(* Lists.                                                                  *)
(***************************************************************************)
LEMMA NewCount ==
  ASSUME NEW k \in KQueue, NEW n \in Int
  PROVE  /\ [k EXCEPT !.current = n] \in KQueue
         /\ [k EXCEPT !.current = n].entries = k.entries
         /\ [k EXCEPT !.current = n].waiters = k.waiters
         /\ [k EXCEPT !.current = n].current = n
BY DEF KQueue

LEMMA NewEntries ==
  ASSUME NEW k \in KQueue, NEW s \in Seq(Item)
  PROVE  /\ [k EXCEPT !.entries = s] \in KQueue
         /\ [k EXCEPT !.entries = s].entries = s
         /\ [k EXCEPT !.entries = s].waiters = k.waiters
         /\ [k EXCEPT !.entries = s].current = k.current
BY DEF KQueue

LEMMA NewWaiters ==
  ASSUME NEW k \in KQueue, NEW s \in Seq(Thread)
  PROVE  /\ [k EXCEPT !.waiters = s] \in KQueue
         /\ [k EXCEPT !.waiters = s].entries = k.entries
         /\ [k EXCEPT !.waiters = s].waiters = s
         /\ [k EXCEPT !.waiters = s].current = k.current
BY DEF KQueue

LEMMA NewQueue ==
  ASSUME NEW ks \in [Queue -> KQueue], NEW q \in Queue, NEW k \in KQueue
  PROVE  /\ [ks EXCEPT ![q] = k] \in [Queue -> KQueue]
         /\ [ks EXCEPT ![q] = k][q] = k
         /\ \A r \in Queue : r # q => [ks EXCEPT ![q] = k][r] = ks[r]
OBVIOUS

LEMMA SameQueue ==
  ASSUME NEW k \in KQueue, NEW l \in KQueue, k.entries = l.entries,
         k.waiters = l.waiters, k.current = l.current
  PROVE  k = l
BY DEF KQueue

LEMMA NewQueueTwice ==
  ASSUME NEW ks \in [Queue -> KQueue], NEW q \in Queue, NEW k, NEW l
  PROVE  [[ks EXCEPT ![q] = k] EXCEPT ![q] = l] = [ks EXCEPT ![q] = l]
OBVIOUS

(* A queue without its first entry, and without its last waiter. *)
LEMMA Shorter ==
  ASSUME NEW k \in KQueue, k.entries # <<>>, k.waiters # <<>>
  PROVE  Tail(k.entries) \in Seq(Item) /\ Front(k.waiters) \in Seq(Thread)
<1>1. k.entries \in Seq(Item) /\ k.waiters \in Seq(Thread)
  BY DEF KQueue
<1>2. Tail(k.entries) \in Seq(Item)
  BY <1>1, HeadTailProperties
<1>3. ASSUME NEW s \in Seq(Thread), s # <<>> PROVE Front(s) \in Seq(Thread)
  <2>1. Len(s) \in Nat /\ \A n \in 1..Len(s) - 1 : s[n] \in Thread
    OBVIOUS
  <2>2. QED BY <2>1, SubSeqProperties DEF Front
<1>4. QED BY <1>1, <1>2, <1>3

LEMMA InjectiveList ==
  ASSUME NEW S, NEW s \in Seq(S)
  PROVE  IsInjective(s) <=> \A a, b \in 1..Len(s) : s[a] = s[b] => a = b
<1>1. DOMAIN s = 1..Len(s)
  OBVIOUS
<1>2. QED BY <1>1, Zenon DEF IsInjective

LEMMA Appended ==
  ASSUME NEW S, NEW s \in Seq(S), NEW e \in S, IsInjective(s), ~InList(s, e)
  PROVE  /\ Append(s, e) \in Seq(S)
         /\ IsInjective(Append(s, e))
         /\ \A x : InList(Append(s, e), x) <=> InList(s, x) \/ x = e
<1> DEFINE r == Append(s, e)
<1>1. /\ r \in Seq(S) /\ Len(r) = Len(s) + 1 /\ Len(s) \in Nat
      /\ r[Len(s) + 1] = e /\ \A n \in 1..Len(s) : r[n] = s[n]
  BY AppendProperties
<1> HIDE DEF r
<1>2. IsInjective(r)
  BY <1>1 DEF IsInjective, InList
<1>3. \A x : InList(r, x) <=> InList(s, x) \/ x = e
  BY <1>1 DEF InList
<1>4. QED BY <1>1, <1>2, <1>3 DEF r

LEMMA Prepended ==
  ASSUME NEW S, NEW s \in Seq(S), NEW e \in S, IsInjective(s), ~InList(s, e)
  PROVE  /\ <<e>> \o s \in Seq(S)
         /\ IsInjective(<<e>> \o s)
         /\ \A x : InList(<<e>> \o s, x) <=> InList(s, x) \/ x = e
<1> DEFINE r == <<e>> \o s
<1>1. /\ r \in Seq(S) /\ Len(r) = Len(s) + 1 /\ Len(s) \in Nat
      /\ r[1] = e /\ \A n \in 1..Len(s) : r[n + 1] = s[n]
  <2>1. /\ r \in Seq(S) /\ Len(r) = 1 + Len(s)
        /\ \A n \in 1..1 + Len(s) : r[n] = IF n <= 1 THEN e ELSE s[n - 1]
    BY ConcatProperties
  <2>2. Len(s) \in Nat
    OBVIOUS
  <2> HIDE DEF r
  <2>3. QED BY <2>1, <2>2
<1> HIDE DEF r
<1>2. \A n \in 1..Len(r) : n = 1 \/ n - 1 \in 1..Len(s)
  BY <1>1
<1>3. IsInjective(r)
  <2> SUFFICES ASSUME NEW a \in 1..Len(r), NEW b \in 1..Len(r), r[a] = r[b]
               PROVE  a = b
    BY <1>1, InjectiveList
  <2>1. CASE a = 1 \/ b = 1
    <3>1. ASSUME NEW c \in 1..Len(r), c # 1 PROVE r[c] # r[1]
      <4>1. r[(c - 1) + 1] = s[c - 1] /\ (c - 1) + 1 = c /\ c - 1 \in 1..Len(s)
        BY SMTT(30), <1>1, <1>2, <3>1
      <4>2. QED BY <1>1, <4>1 DEF InList
    <3>2. QED BY <2>1, <3>1
  <2>2. CASE a - 1 \in 1..Len(s) /\ b - 1 \in 1..Len(s)
    <3>1. r[(a - 1) + 1] = s[a - 1] /\ r[(b - 1) + 1] = s[b - 1]
      BY <1>1, <2>2
    <3>2. a - 1 = b - 1
      <4>1. s[a - 1] = s[b - 1]
        BY <1>1, <2>2, <3>1
      <4>2. QED BY <2>2, <4>1, InjectiveList
    <3>3. QED BY <1>1, <3>2
  <2>3. QED BY <1>2, <2>1, <2>2
<1>4. \A x : InList(r, x) <=> InList(s, x) \/ x = e
  <2> SUFFICES ASSUME NEW x PROVE InList(r, x) <=> InList(s, x) \/ x = e
    OBVIOUS
  <2>1. InList(r, x) => InList(s, x) \/ x = e
    <3> SUFFICES ASSUME NEW n \in 1..Len(r), r[n] = x PROVE InList(s, x) \/ x = e
      BY DEF InList
    <3>1. CASE n = 1
      BY <1>1, <3>1
    <3>2. CASE n - 1 \in 1..Len(s)
      <4>1. r[(n - 1) + 1] = s[n - 1] /\ (n - 1) + 1 = n
        BY <1>1, <3>2
      <4>2. QED BY <3>2, <4>1 DEF InList
    <3>3. QED BY <1>2, <3>1, <3>2
  <2>2. InList(s, x) => InList(r, x)
    BY SMTT(30), <1>1 DEF InList
  <2>3. r[1] = e /\ 1 \in 1..Len(r)
    BY <1>1
  <2>4. QED BY <2>1, <2>2, <2>3 DEF InList
<1>5. QED BY <1>1, <1>3, <1>4 DEF r

LEMMA HeadTaken ==
  ASSUME NEW S, NEW s \in Seq(S), s # <<>>, IsInjective(s)
  PROVE  /\ Tail(s) \in Seq(S) /\ Head(s) \in S /\ InList(s, Head(s))
         /\ IsInjective(Tail(s))
         /\ \A x : InList(Tail(s), x) <=> InList(s, x) /\ x # Head(s)
<1> DEFINE r == Tail(s)
<1>1. /\ r \in Seq(S) /\ Len(r) = Len(s) - 1 /\ Len(s) \in Nat /\ Len(s) > 0
      /\ \A n \in 1..Len(r) : r[n] = s[n + 1]
      /\ Head(s) \in S /\ Head(s) = s[1]
  <2>1. Len(s) \in Nat /\ Len(s) > 0
    BY EmptySeq
  <2>2. /\ Tail(s) \in Seq(S) /\ Len(Tail(s)) = Len(s) - 1
        /\ \A n \in 1..Len(Tail(s)) : Tail(s)[n] = s[n + 1]
    BY HeadTailProperties
  <2>3. Head(s) \in S /\ Head(s) = s[1]
    <3>1. Head(s) \in S
      BY HeadTailProperties
    <3>2. Head(s) = s[1]
      OBVIOUS
    <3>3. QED BY <3>1, <3>2
  <2>4. QED BY <2>1, <2>2, <2>3
<1> HIDE DEF r
<1>2. \A n \in 1..Len(r) : n + 1 \in 1..Len(s) /\ n + 1 # 1
  BY <1>1
<1>3. \A n \in 1..Len(s) : n = 1 \/ (n - 1 \in 1..Len(r) /\ s[n] = r[n - 1])
  BY <1>1
<1>4. 1 \in 1..Len(s)
  BY <1>1
<1>0. \A a, b \in 1..Len(s) : s[a] = s[b] => a = b
  BY InjectiveList
<1>5. IsInjective(r)
  <2> SUFFICES ASSUME NEW a \in 1..Len(r), NEW b \in 1..Len(r), r[a] = r[b]
               PROVE  a = b
    BY <1>1, InjectiveList
  <2>1. a + 1 \in 1..Len(s) /\ b + 1 \in 1..Len(s) /\ s[a + 1] = s[b + 1]
    BY <1>1, <1>2
  <2>2. a + 1 = b + 1
    BY <2>1, <1>0
  <2>3. QED BY <1>1, <2>2
<1>6. \A x : InList(r, x) <=> InList(s, x) /\ x # Head(s)
  <2>1. ASSUME NEW x, InList(r, x) PROVE InList(s, x) /\ x # Head(s)
    <3>1. PICK n \in 1..Len(r) : r[n] = x
      BY <2>1 DEF InList
    <3>2. n + 1 \in 1..Len(s) /\ n + 1 # 1 /\ s[n + 1] = x
      BY <1>1, <1>2, <3>1
    <3>3. s[n + 1] # s[1]
      BY <1>0, <1>4, <3>2
    <3>4. QED BY <1>1, <3>2, <3>3 DEF InList
  <2>2. ASSUME NEW x, InList(s, x), x # Head(s) PROVE InList(r, x)
    BY ZenonT(60), <1>1, <1>3, <2>2 DEF InList
  <2>3. QED BY <2>1, <2>2
<1>7. QED BY <1>1, <1>4, <1>5, <1>6 DEF r, InList

LEMMA LastTaken ==
  ASSUME NEW S, NEW s \in Seq(S), s # <<>>, IsInjective(s)
  PROVE  /\ Front(s) \in Seq(S) /\ Last(s) \in S /\ InList(s, Last(s))
         /\ IsInjective(Front(s))
         /\ \A x : InList(Front(s), x) <=> InList(s, x) /\ x # Last(s)
<1> DEFINE r == Front(s)
<1>1. Len(s) \in Nat /\ Len(s) > 0
  BY EmptySeq
<1>2. /\ r \in Seq(S) /\ Len(r) = Len(s) - 1
      /\ \A n \in 1..Len(r) : r[n] = s[n]
      /\ Last(s) = s[Len(s)]
  <2>1. 1 \in 1..Len(s) + 1 /\ Len(s) - 1 \in 0..Len(s)
    BY <1>1
  <2>2. /\ SubSeq(s, 1, Len(s) - 1) \in Seq(S)
        /\ Len(SubSeq(s, 1, Len(s) - 1)) = Len(s) - 1
        /\ \A n \in 1..Len(s) - 1 : SubSeq(s, 1, Len(s) - 1)[n] = s[n]
    <3> DEFINE f == SubSeq(s, 1, Len(s) - 1)
    <3>1. /\ f \in Seq(S)
          /\ Len(f) = IF 1 <= Len(s) - 1 THEN Len(s) - 1 - 1 + 1 ELSE 0
          /\ \A n \in 1..Len(s) - 1 - 1 + 1 : f[n] = s[1 + n - 1]
      BY <2>1, SubSeqProperties
    <3> HIDE DEF f
    <3>2. ASSUME NEW n \in 1..Len(s) - 1 PROVE n \in 1..Len(s) - 1 - 1 + 1 /\ 1 + n - 1 = n
      BY <1>1
    <3>3. Len(f) = Len(s) - 1
      <4>1. Len(f) = IF 1 <= Len(s) - 1 THEN Len(s) - 1 - 1 + 1 ELSE 0
        BY <3>1
      <4>2. ASSUME NEW k \in Nat, k > 0
            PROVE  (IF 1 <= k - 1 THEN k - 1 - 1 + 1 ELSE 0) = k - 1
        <5>1. CASE k = 1
          BY <5>1
        <5>2. CASE k > 1
          <6>1. 1 <= k - 1 /\ k - 1 - 1 + 1 = k - 1
            BY <5>2
          <6>2. QED BY <6>1
        <5>3. QED BY <4>2, <5>1, <5>2
      <4>3. QED BY <1>1, <4>1, <4>2
    <3>4. QED BY <3>1, <3>2, <3>3 DEF f
  <2>3. QED BY <2>2 DEF Front, Last
<1> HIDE DEF r
<1>3. \A n \in 1..Len(s) : n = Len(s) \/ n \in 1..Len(r)
  BY <1>1, <1>2
<1>4. \A n \in 1..Len(r) : n \in 1..Len(s) /\ n # Len(s)
  BY <1>1, <1>2
<1>5. Len(s) \in 1..Len(s)
  BY <1>1
<1>0. \A a, b \in 1..Len(s) : s[a] = s[b] => a = b
  BY InjectiveList
<1>6. IsInjective(r)
  BY ZenonT(60), <1>0, <1>2, <1>4, InjectiveList
<1>7. \A x : InList(r, x) <=> InList(s, x) /\ x # Last(s)
  BY <1>0, <1>2, <1>3, <1>4, <1>5 DEF InList
<1>8. Last(s) \in S /\ InList(s, Last(s))
  BY <1>2, <1>5 DEF InList
<1>9. QED BY <1>2, <1>6, <1>7, <1>8 DEF r

(* Taking a listed thread off leaves the others. *)
LEMMA RemoveListed ==
  ASSUME NEW S, NEW s \in Seq(S), IsInjective(s), NEW e, InList(s, e)
  PROVE  /\ RemoveFirst(s, e) \in Seq(S)
         /\ IsInjective(RemoveFirst(s, e))
         /\ \A x : InList(RemoveFirst(s, e), x) <=> InList(s, x) /\ x # e
<1> DEFINE r == RemoveFirst(s, e)
<1>1. PICK i \in 1..Len(s) : s[i] = e
  BY DEF InList
<1>2. {j \in 1..Len(s) : s[j] = e} = {i}
  BY <1>1, InjectiveList
<1>3. Min({i}) = i
  BY DEF Min
<1>4. SelectInSeq(s, LAMBDA v : v = e) = i
  BY <1>2, <1>3 DEF SelectInSeq
<1>5. r = RemoveAt(s, i)
  BY <1>1, <1>4 DEF RemoveFirst
<1>6. r = SubSeq(s, 1, i - 1) \o SubSeq(s, i + 1, Len(s))
  BY <1>5 DEF RemoveAt
<1>7. /\ r \in Seq(S) /\ Len(r) = Len(s) - 1
      /\ \A j \in 1..Len(s) - 1 : r[j] = s[IF j < i THEN j ELSE j + 1]
  <2> DEFINE a == SubSeq(s, 1, i - 1)
             b == SubSeq(s, i + 1, Len(s))
  <2>1. a \in Seq(S) /\ Len(a) = i - 1 /\ \A j \in 1..i - 1 : a[j] = s[j]
    <3>1. 1 \in 1..Len(s) + 1 /\ i - 1 \in 0..Len(s)
      BY <1>1
    <3>2. QED BY <3>1, SubSeqProperties
  <2>2. b \in Seq(S) /\ Len(b) = Len(s) - i /\ \A j \in 1..Len(s) - i : b[j] = s[i + j]
    <3>1. i + 1 \in 1..Len(s) + 1 /\ Len(s) \in 0..Len(s)
      BY <1>1
    <3>2. QED BY <3>1, SubSeqProperties
  <2> HIDE DEF a, b
  <2>3. /\ a \o b \in Seq(S) /\ Len(a \o b) = Len(a) + Len(b)
        /\ \A j \in 1..Len(a) + Len(b) :
             (a \o b)[j] = IF j <= Len(a) THEN a[j] ELSE b[j - Len(a)]
    <3>1. a \in Seq(S) /\ b \in Seq(S)
      BY <2>1, <2>2
    <3>2. QED BY <3>1, ConcatProperties
  <2>4. r = a \o b
    BY <1>6 DEF a, b
  <2> HIDE DEF r
  <2>5. Len(r) = Len(s) - 1 /\ r \in Seq(S)
    <3>1. Len(r) = (i - 1) + (Len(s) - i)
      BY <2>1, <2>2, <2>3, <2>4
    <3>2. r \in Seq(S)
      BY <2>3, <2>4
    <3>3. Len(s) \in Nat /\ i \in Int
      OBVIOUS
    <3>4. QED BY <3>1, <3>2, <3>3
  <2>6. ASSUME NEW j \in 1..Len(s) - 1 PROVE r[j] = s[IF j < i THEN j ELSE j + 1]
    <3>1. r[j] = IF j <= i - 1 THEN a[j] ELSE b[j - (i - 1)]
      <4>1. j \in 1..Len(a) + Len(b)
        BY <1>1, <2>1, <2>2
      <4>2. r[j] = IF j <= Len(a) THEN a[j] ELSE b[j - Len(a)]
        BY <2>3, <2>4, <4>1
      <4>3. QED BY <2>1, <4>2
    <3>2. CASE j < i
      BY <1>1, <2>1, <3>1, <3>2
    <3>3. CASE j >= i
      <4>1. j - (i - 1) \in 1..Len(s) - i /\ i + (j - (i - 1)) = j + 1
        BY <1>1, <3>3
      <4>2. b[j - (i - 1)] = s[i + (j - (i - 1))]
        BY <2>2, <4>1
      <4>3. QED BY <1>1, <3>1, <3>3, <4>1, <4>2
    <3>4. QED BY <1>1, <3>2, <3>3
  <2>7. QED BY <2>5, <2>6
<1> HIDE DEF r
<1>0. \A j, k \in 1..Len(s) : s[j] = s[k] => j = k
  BY InjectiveList
<1>8. IsInjective(r)
  <2> SUFFICES ASSUME NEW j \in 1..Len(r), NEW k \in 1..Len(r), r[j] = r[k] PROVE j = k
    BY <1>7, InjectiveList
  <2> DEFINE at(n) == IF n < i THEN n ELSE n + 1
  <2>1. ASSUME NEW n \in 1..Len(r) PROVE at(n) \in 1..Len(s) /\ s[at(n)] = r[n]
    <3>1. Len(s) \in Nat /\ n \in 1..Len(s) - 1
      BY <1>7
    <3>2. QED BY <1>1, <1>7, <3>1
  <2>2. at(j) = at(k)
    <3> HIDE DEF at
    <3>1. QED BY <1>0, <2>1
  <2>3. QED BY <1>7, <2>2
<1>9. ASSUME NEW x PROVE InList(r, x) <=> InList(s, x) /\ x # e
  <2>1. InList(r, x) => InList(s, x) /\ x # e
    <3> SUFFICES ASSUME NEW j \in 1..Len(r), r[j] = x
                 PROVE  InList(s, x) /\ x # e
      BY DEF InList
    <3>1. PICK k \in 1..Len(s) : k # i /\ s[k] = x
      <4>1. CASE j < i
        BY SMTT(30), <1>1, <1>7, <4>1
      <4>2. CASE j >= i
        <5>1. j + 1 \in 1..Len(s) /\ r[j] = s[j + 1]
          BY <1>1, <1>7, <4>2
        <5>2. QED BY <1>1, <4>2, <5>1
      <4>3. QED BY <1>1, <1>7, <4>1, <4>2
    <3>2. s[k] # s[i]
      BY <1>0, <1>1, <3>1
    <3>3. QED BY <1>1, <3>1, <3>2 DEF InList
  <2>2. ASSUME NEW k \in 1..Len(s), s[k] = x, x # e PROVE InList(r, x)
    <3>1. CASE k < i
      BY SMTT(30), <1>1, <1>7, <2>2, <3>1 DEF InList
    <3>2. CASE k > i
      <4>1. k - 1 \in 1..Len(r) /\ r[k - 1] = x
        BY SMTT(30), <1>1, <1>7, <2>2, <3>2
      <4>2. QED BY <4>1 DEF InList
    <3>3. QED BY <1>1, <2>2, <3>1, <3>2
  <2>3. QED BY <2>1, <2>2 DEF InList
<1>10. QED BY <1>7, <1>8, <1>9 DEF r
-----------------------------------------------------------------------------
(***************************************************************************)
(* What a step consists of.  First, threads that are away.                 *)
(***************************************************************************)
LEMMA CountIsActive ==
  ASSUME NEW qs, NEW ps, NEW q
  PROVE  /\ IsFiniteSet(ActiveIn(q, qs, ps))
         /\ Cardinality(ActiveIn(q, qs, ps)) \in Nat
         /\ Cardinality(ActiveIn(q, qs, ps)) = 0 <=> ActiveIn(q, qs, ps) = {}
<1>1. ActiveIn(q, qs, ps) \subseteq Thread
  BY DEF ActiveIn
<1>2. IsFiniteSet(ActiveIn(q, qs, ps))
  BY <1>1, FS_Subset
<1>3. QED BY <1>2, FS_CardinalityType, FS_EmptySet

(* Its new position takes no part in any queue. *)
LEMMA Moves ==
  ASSUME NEW ks, NEW qs, NEW is, NEW ps, Sound(ks, qs, is, ps),
         NEW t \in Thread, NEW next \in Pc,
         \/ qs[t] = None /\ next \notin {"QueueWait", "Restart"}
         \/ ps[t] \in AwayPc /\ next \in AwayPc
  PROVE  Sound(ks, qs, is, [ps EXCEPT ![t] = next])
<1> DEFINE p2 == [ps EXCEPT ![t] = next]
<1>0. Types(ks, qs, is, ps)
  BY DEF Sound
<1>1. /\ p2 \in [Thread -> Pc]
      /\ \A u \in Thread : p2[u] = IF u = t THEN next ELSE ps[u]
  BY <1>0 DEF Types
<1> HIDE DEF p2
<1>2. \A q \in Queue : ActiveIn(q, qs, p2) = ActiveIn(q, qs, ps)
  BY <1>1 DEF ActiveIn, AtWorkPc, AwayPc
<1>3. Counts(ks, qs, p2)
  BY <1>2 DEF Sound, Counts
<1>4. WaitersMatch(ks, qs, p2)
  <2>1. \A u \in Thread, q \in Queue :
          (qs[u] = q /\ p2[u] = "QueueWait") <=> (qs[u] = q /\ ps[u] = "QueueWait")
    BY <1>1 DEF AwayPc
  <2>2. QED BY <2>1 DEF Sound, WaitersMatch
<1>5. HaveQueue(qs, p2)
  BY <1>1 DEF Sound, HaveQueue, AwayPc
<1>6. QED BY <1>1, <1>3, <1>4, <1>5 DEF Sound, Types, p2

(* A thread that is away takes part in no queue, so it may change its own. *)
LEMMA ChangesQueue ==
  ASSUME NEW ks, NEW qs, NEW is, NEW ps, Sound(ks, qs, is, ps),
         NEW t \in Thread, NEW q \in Queue \union {None}, ps[t] \in AwayPc
  PROVE  Sound(ks, [qs EXCEPT ![t] = q], is, ps)
<1> DEFINE q2 == [qs EXCEPT ![t] = q]
<1>0. Types(ks, qs, is, ps)
  BY DEF Sound
<1>1. /\ q2 \in [Thread -> Queue \union {None}]
      /\ \A u \in Thread : q2[u] = IF u = t THEN q ELSE qs[u]
  BY <1>0 DEF Types
<1> HIDE DEF q2
<1>2. \A r \in Queue : ActiveIn(r, q2, ps) = ActiveIn(r, qs, ps)
  BY <1>1 DEF ActiveIn, AtWorkPc, AwayPc
<1>3. Counts(ks, q2, ps)
  BY <1>2 DEF Sound, Counts
<1>4. WaitersMatch(ks, q2, ps)
  <2>1. \A u \in Thread, r \in Queue :
          (q2[u] = r /\ ps[u] = "QueueWait") <=> (qs[u] = r /\ ps[u] = "QueueWait")
    BY <1>1 DEF AwayPc
  <2>2. QED BY <2>1 DEF Sound, WaitersMatch
<1>5. HaveQueue(q2, ps)
  BY <1>1 DEF Sound, HaveQueue, AwayPc
<1>6. QED BY <1>1, <1>3, <1>4, <1>5 DEF Sound, Types, q2

(* A thread stops working for its queue, *)
LEMMA Leaves ==
  ASSUME NEW ks, NEW qs, NEW is, NEW ps, Sound(ks, qs, is, ps),
         NEW t \in Thread, NEW q \in Queue, qs[t] = q, ps[t] \in AtWorkPc,
         NEW next \in AwayPc
  PROVE  Sound([ks EXCEPT ![q].current = @ - 1], qs, is, [ps EXCEPT ![t] = next])
<1> DEFINE k2 == [ks EXCEPT ![q].current = @ - 1]
           p2 == [ps EXCEPT ![t] = next]
<1>0. Types(ks, qs, is, ps)
  BY DEF Sound
<1>1. /\ p2 \in [Thread -> Pc]
      /\ \A u \in Thread : p2[u] = IF u = t THEN next ELSE ps[u]
  BY <1>0 DEF Types, AwayPc, Pc
<1>2. /\ k2 \in [Queue -> KQueue]
      /\ \A r \in Queue : /\ k2[r].entries = ks[r].entries
                          /\ k2[r].waiters = ks[r].waiters
                          /\ r = q => k2[r].current = ks[r].current - 1
                          /\ r # q => k2[r].current = ks[r].current
  <2>1. ks \in [Queue -> KQueue] /\ ks[q] \in KQueue /\ ks[q].current - 1 \in Int
    BY <1>0 DEF Types, KQueue
  <2>2. QED BY <2>1, NewQueue, NewCount
<1> HIDE DEF k2, p2
<1>3. Counts(k2, qs, p2)
  <2> SUFFICES ASSUME NEW r \in Queue
               PROVE  k2[r].current = Cardinality(ActiveIn(r, qs, p2))
    BY DEF Counts
  <2>1. ks[r].current = Cardinality(ActiveIn(r, qs, ps))
    BY DEF Sound, Counts
  <2>2. CASE r = q
    <3>1. ActiveIn(r, qs, p2) = ActiveIn(r, qs, ps) \ {t} /\ t \in ActiveIn(r, qs, ps)
      BY <1>1, <2>2 DEF ActiveIn, AtWorkPc, AwayPc
    <3>2. Cardinality(ActiveIn(r, qs, p2)) = Cardinality(ActiveIn(r, qs, ps)) - 1
      <4>1. IsFiniteSet(ActiveIn(r, qs, ps))
        BY CountIsActive
      <4>2. QED BY ZenonT(60), <3>1, <4>1, FS_RemoveElement
    <3>3. QED BY <1>2, <2>1, <2>2, <3>2
  <2>3. CASE r # q
    <3>1. ActiveIn(r, qs, p2) = ActiveIn(r, qs, ps)
      BY <1>1, <2>3 DEF ActiveIn
    <3>2. QED BY <1>2, <2>1, <2>3, <3>1
  <2>4. QED BY <2>2, <2>3
<1>4. WaitersMatch(k2, qs, p2)
  <2>1. \A u \in Thread : p2[u] = "QueueWait" <=> ps[u] = "QueueWait"
    BY <1>1 DEF AwayPc, AtWorkPc
  <2>2. QED BY <1>2, <2>1 DEF Sound, WaitersMatch
<1>5. HaveQueue(qs, p2)
  BY <1>1 DEF Sound, HaveQueue, AwayPc
<1>6. OnePlace(k2, is)
  BY <1>2 DEF Sound, OnePlace
<1>7. QED BY <1>1, <1>2, <1>3, <1>4, <1>5, <1>6 DEF Sound, Types, k2, p2

(* and comes back to work for it. *)
LEMMA Joins ==
  ASSUME NEW ks, NEW qs, NEW is, NEW ps, Sound(ks, qs, is, ps),
         NEW t \in Thread, NEW q \in Queue, qs[t] = q, ps[t] \in AwayPc,
         NEW next \in AtWorkPc
  PROVE  Sound([ks EXCEPT ![q].current = @ + 1], qs, is, [ps EXCEPT ![t] = next])
<1> DEFINE k2 == [ks EXCEPT ![q].current = @ + 1]
           p2 == [ps EXCEPT ![t] = next]
<1>0. Types(ks, qs, is, ps)
  BY DEF Sound
<1>1. /\ p2 \in [Thread -> Pc]
      /\ \A u \in Thread : p2[u] = IF u = t THEN next ELSE ps[u]
  BY <1>0 DEF Types, AtWorkPc, Pc
<1>2. /\ k2 \in [Queue -> KQueue]
      /\ \A r \in Queue : /\ k2[r].entries = ks[r].entries
                          /\ k2[r].waiters = ks[r].waiters
                          /\ r = q => k2[r].current = ks[r].current + 1
                          /\ r # q => k2[r].current = ks[r].current
  <2>1. ks \in [Queue -> KQueue] /\ ks[q] \in KQueue /\ ks[q].current + 1 \in Int
    BY <1>0 DEF Types, KQueue
  <2>2. QED BY <2>1, NewQueue, NewCount
<1> HIDE DEF k2, p2
<1>3. Counts(k2, qs, p2)
  <2> SUFFICES ASSUME NEW r \in Queue
               PROVE  k2[r].current = Cardinality(ActiveIn(r, qs, p2))
    BY DEF Counts
  <2>1. ks[r].current = Cardinality(ActiveIn(r, qs, ps))
    BY DEF Sound, Counts
  <2>2. CASE r = q
    <3>1. ActiveIn(r, qs, p2) = ActiveIn(r, qs, ps) \union {t} /\ t \notin ActiveIn(r, qs, ps)
      BY <1>1, <2>2 DEF ActiveIn, AtWorkPc, AwayPc
    <3>2. Cardinality(ActiveIn(r, qs, p2)) = Cardinality(ActiveIn(r, qs, ps)) + 1
      BY <3>1, CountIsActive, FS_AddElement
    <3>3. QED BY <1>2, <2>1, <2>2, <3>2
  <2>3. CASE r # q
    <3>1. ActiveIn(r, qs, p2) = ActiveIn(r, qs, ps)
      BY <1>1, <2>3 DEF ActiveIn
    <3>2. QED BY <1>2, <2>1, <2>3, <3>1
  <2>4. QED BY <2>2, <2>3
<1>4. WaitersMatch(k2, qs, p2)
  <2>1. \A u \in Thread : p2[u] = "QueueWait" <=> ps[u] = "QueueWait"
    BY <1>1 DEF AwayPc, AtWorkPc
  <2>2. QED BY <1>2, <2>1 DEF Sound, WaitersMatch
<1>5. HaveQueue(qs, p2)
  BY <1>1 DEF Sound, HaveQueue
<1>6. OnePlace(k2, is)
  BY <1>2 DEF Sound, OnePlace
<1>7. QED BY <1>1, <1>2, <1>3, <1>4, <1>5, <1>6 DEF Sound, Types, k2, p2
-----------------------------------------------------------------------------
(***************************************************************************)
(* Threads that wait for a queue.                                          *)
(***************************************************************************)
LEMMA Blocks ==
  ASSUME NEW ks, NEW qs, NEW is, NEW ps, Sound(ks, qs, is, ps),
         NEW t \in Thread, NEW q \in Queue, qs[t] = q, ps[t] \in AwayPc
  PROVE  Sound([ks EXCEPT ![q].waiters = Append(@, t)], qs, is,
               [ps EXCEPT ![t] = "QueueWait"])
<1> DEFINE w == Append(ks[q].waiters, t)
           k2 == [ks EXCEPT ![q].waiters = Append(@, t)]
           p2 == [ps EXCEPT ![t] = "QueueWait"]
<1>0. /\ Types(ks, qs, is, ps)
      /\ ks \in [Queue -> KQueue] /\ ks[q] \in KQueue /\ ks[q].waiters \in Seq(Thread)
  BY DEF Sound, Types, KQueue
<1>1. /\ p2 \in [Thread -> Pc]
      /\ \A u \in Thread : p2[u] = IF u = t THEN "QueueWait" ELSE ps[u]
  BY <1>0 DEF Types, Pc
<1>2. /\ w \in Seq(Thread) /\ IsInjective(w)
      /\ \A u : InList(w, u) <=> InList(ks[q].waiters, u) \/ u = t
  <2>1. IsInjective(ks[q].waiters) /\ ~InList(ks[q].waiters, t)
    BY DEF Sound, WaitersMatch, AwayPc
  <2>2. QED BY <1>0, <2>1, Appended
<1>3. /\ k2 \in [Queue -> KQueue]
      /\ k2[q].waiters = w
      /\ \A r \in Queue : /\ k2[r].entries = ks[r].entries
                          /\ k2[r].current = ks[r].current
                          /\ r # q => k2[r].waiters = ks[r].waiters
  <2> DEFINE k == [ks[q] EXCEPT !.waiters = w]
  <2>1. k2 = [ks EXCEPT ![q] = k]
    BY <1>0
  <2>2. k \in KQueue /\ k.waiters = w /\ k.entries = ks[q].entries /\ k.current = ks[q].current
    <3> HIDE DEF w
    <3>1. QED BY <1>0, <1>2, NewWaiters
  <2> HIDE DEF k, k2, w
  <2>3. QED BY <1>0, <2>1, <2>2, NewQueue
<1> HIDE DEF w, k2, p2
<1>4. Counts(k2, qs, p2)
  <2>1. \A r \in Queue : ActiveIn(r, qs, p2) = ActiveIn(r, qs, ps)
    BY <1>1 DEF ActiveIn, AtWorkPc, AwayPc
  <2>2. QED BY <1>3, <2>1 DEF Sound, Counts
<1>5. WaitersMatch(k2, qs, p2)
  <2> SUFFICES ASSUME NEW r \in Queue
               PROVE  /\ IsInjective(k2[r].waiters)
                      /\ \A u \in Thread :
                           InList(k2[r].waiters, u) <=> qs[u] = r /\ p2[u] = "QueueWait"
    BY DEF WaitersMatch
  <2>1. /\ IsInjective(ks[r].waiters)
        /\ \A u \in Thread : InList(ks[r].waiters, u) <=> qs[u] = r /\ ps[u] = "QueueWait"
    BY DEF Sound, WaitersMatch
  <2>2. CASE r = q
    BY <1>1, <1>2, <1>3, <2>1, <2>2
  <2>3. CASE r # q
    BY <1>1, <1>3, <2>1, <2>3
  <2>4. QED BY <2>2, <2>3
<1>6. HaveQueue(qs, p2)
  BY <1>1 DEF Sound, HaveQueue
<1>7. OnePlace(k2, is)
  BY <1>3 DEF Sound, OnePlace
<1>8. QED BY <1>0, <1>1, <1>3, <1>4, <1>5, <1>6, <1>7 DEF Sound, Types, k2, p2

(* Taken off the list, it counts as active again. *)
LEMMA Unblocks ==
  ASSUME NEW ks, NEW qs, NEW is, NEW ps, Sound(ks, qs, is, ps),
         NEW t \in Thread, NEW q \in Queue, qs[t] = q, ps[t] = "QueueWait",
         NEW next \in AtWorkPc, NEW w \in Seq(Thread), IsInjective(w),
         \A u : InList(w, u) <=> InList(ks[q].waiters, u) /\ u # t,
         NEW k \in KQueue, k.entries = ks[q].entries, k.waiters = w,
         k.current = ks[q].current + 1
  PROVE  Sound([ks EXCEPT ![q] = k], qs, is, [ps EXCEPT ![t] = next])
<1> DEFINE k1 == [ks EXCEPT ![q].waiters = w]
           p1 == [ps EXCEPT ![t] = "Waiting"]
<1>0. /\ Types(ks, qs, is, ps) /\ ps \in [Thread -> Pc]
      /\ ks \in [Queue -> KQueue] /\ ks[q] \in KQueue
  BY DEF Sound, Types, KQueue
<1>1. /\ p1 \in [Thread -> Pc]
      /\ \A u \in Thread : p1[u] = IF u = t THEN "Waiting" ELSE ps[u]
  BY <1>0 DEF Types, Pc
<1>3. /\ k1 \in [Queue -> KQueue]
      /\ k1[q].waiters = w
      /\ \A r \in Queue : /\ k1[r].entries = ks[r].entries
                          /\ k1[r].current = ks[r].current
                          /\ r # q => k1[r].waiters = ks[r].waiters
  BY <1>0, NewQueue, NewWaiters
<1>s. [ks EXCEPT ![q] = k] = [k1 EXCEPT ![q].current = @ + 1]
  <2> DEFINE l == [ks[q] EXCEPT !.waiters = w]
             m == [l EXCEPT !.current = @ + 1]
  <2>1. ks[q].current \in Int
    BY <1>0 DEF KQueue
  <2>2. /\ l \in KQueue /\ l.entries = ks[q].entries /\ l.waiters = w
        /\ l.current = ks[q].current
    BY <1>0, NewWaiters
  <2>3. /\ m \in KQueue /\ m.entries = ks[q].entries /\ m.waiters = w
        /\ m.current = ks[q].current + 1
    <3> HIDE DEF l
    <3>1. l.current + 1 \in Int
      BY <2>1, <2>2
    <3>2. QED BY <2>2, <3>1, NewCount
  <2>4. m = k
    <3> HIDE DEF m
    <3>1. QED BY <2>3, SameQueue
  <2>5. k1 = [ks EXCEPT ![q] = l] /\ k1[q] = l
    BY <1>0
  <2>6. [k1 EXCEPT ![q].current = @ + 1] = [k1 EXCEPT ![q] = k]
    <3> HIDE DEF l, k1
    <3>1. QED BY <2>4, <2>5
  <2>7. [k1 EXCEPT ![q] = k] = [ks EXCEPT ![q] = k]
    <3> HIDE DEF l, k1
    <3>1. QED BY <1>0, <2>5, NewQueueTwice
  <2>8. QED BY <2>6, <2>7
<1>p. [ps EXCEPT ![t] = next] = [p1 EXCEPT ![t] = next]
  BY <1>0
<1> HIDE DEF k1, p1
<1>4. Counts(k1, qs, p1)
  <2>1. \A r \in Queue : ActiveIn(r, qs, p1) = ActiveIn(r, qs, ps)
    BY <1>1 DEF ActiveIn, AtWorkPc
  <2>2. QED BY <1>3, <2>1 DEF Sound, Counts
<1>5. WaitersMatch(k1, qs, p1)
  <2> SUFFICES ASSUME NEW r \in Queue
               PROVE  /\ IsInjective(k1[r].waiters)
                      /\ \A u \in Thread :
                           InList(k1[r].waiters, u) <=> qs[u] = r /\ p1[u] = "QueueWait"
    BY DEF WaitersMatch
  <2>1. /\ IsInjective(ks[r].waiters)
        /\ \A u \in Thread : InList(ks[r].waiters, u) <=> qs[u] = r /\ ps[u] = "QueueWait"
    BY DEF Sound, WaitersMatch
  <2>2. CASE r = q
    BY <1>1, <1>3, <2>1, <2>2
  <2>3. CASE r # q
    BY <1>1, <1>3, <2>1, <2>3
  <2>4. QED BY <2>2, <2>3
<1>6. HaveQueue(qs, p1)
  BY <1>1 DEF Sound, HaveQueue
<1>7. OnePlace(k1, is)
  BY <1>3 DEF Sound, OnePlace
<1>8. Sound(k1, qs, is, p1)
  BY <1>0, <1>1, <1>3, <1>4, <1>5, <1>6, <1>7 DEF Sound, Types
<1>9. p1[t] \in AwayPc
  BY <1>1 DEF AwayPc
<1>10. QED BY <1>8, <1>9, <1>s, <1>p, Joins
-----------------------------------------------------------------------------
(***************************************************************************)
(* Entries.                                                                *)
(***************************************************************************)
(* A thread has finished with its entries, or takes one that is free. *)
LEMMA Drops ==
  ASSUME NEW ks, NEW qs, NEW is, NEW ps, Sound(ks, qs, is, ps), NEW t \in Thread
  PROVE  Sound(ks, qs, [is EXCEPT ![t] = {}], ps)
<1> DEFINE i2 == [is EXCEPT ![t] = {}]
<1>0. Types(ks, qs, is, ps)
  BY DEF Sound
<1>1. /\ i2 \in [Thread -> SUBSET Item]
      /\ \A u \in Thread : i2[u] = IF u = t THEN {} ELSE is[u]
  BY <1>0 DEF Types
<1> HIDE DEF i2
<1>2. OnePlace(ks, i2)
  BY <1>1 DEF Sound, OnePlace
<1>3. QED BY <1>1, <1>2 DEF Sound, Types, i2

LEMMA Takes ==
  ASSUME NEW ks, NEW qs, NEW is, NEW ps, Sound(ks, qs, is, ps), NEW t \in Thread,
         NEW i \in Item, Free(i, ks, is)
  PROVE  Sound(ks, qs, [is EXCEPT ![t] = {i}], ps)
<1> DEFINE i2 == [is EXCEPT ![t] = {i}]
<1>0. Types(ks, qs, is, ps)
  BY DEF Sound
<1>1. /\ i2 \in [Thread -> SUBSET Item]
      /\ \A u \in Thread : i2[u] = IF u = t THEN {i} ELSE is[u]
  BY <1>0 DEF Types
<1> HIDE DEF i2
<1>2. OnePlace(ks, i2)
  <2> SUFFICES ASSUME NEW j \in Item, NEW u \in Thread, j \in i2[u]
               PROVE  /\ \A q \in Queue : ~InList(ks[q].entries, j)
                      /\ \A v \in Thread : j \in i2[v] => u = v
    BY DEF Sound, OnePlace
  <2>1. CASE j = i
    BY <1>1, <2>1 DEF Free
  <2>2. CASE j # i
    <3>1. \A v \in Thread : j \in i2[v] => j \in is[v]
      BY <1>1, <2>2
    <3>2. QED BY <3>1 DEF Sound, OnePlace
  <2>3. QED BY <2>1, <2>2
<1>3. QED BY <1>1, <1>2 DEF Sound, Types, i2

(* A queue gets a new list of entries, with one more *)
LEMMA Enlisted ==
  ASSUME NEW ks, NEW qs, NEW is, NEW ps, Sound(ks, qs, is, ps),
         NEW q \in Queue, NEW i \in Item, Free(i, ks, is),
         NEW s \in Seq(Item), IsInjective(s),
         \A x : InList(s, x) <=> InList(ks[q].entries, x) \/ x = i
  PROVE  Sound([ks EXCEPT ![q].entries = s], qs, is, ps)
<1> DEFINE k2 == [ks EXCEPT ![q].entries = s]
<1>0. ks \in [Queue -> KQueue] /\ ks[q] \in KQueue
  BY DEF Sound, Types
<1>1. /\ k2 \in [Queue -> KQueue]
      /\ k2[q].entries = s
      /\ \A r \in Queue : /\ k2[r].waiters = ks[r].waiters
                          /\ k2[r].current = ks[r].current
                          /\ r # q => k2[r].entries = ks[r].entries
  BY <1>0, NewQueue, NewEntries
<1> HIDE DEF k2
<1>2. \A r \in Queue : \A x : InList(k2[r].entries, x) <=>
        InList(ks[r].entries, x) \/ (r = q /\ x = i)
  BY <1>1
<1>3. OnePlace(k2, is)
  <2>1. \A r \in Queue : IsInjective(k2[r].entries)
    BY <1>1 DEF Sound, OnePlace
  <2>2. \A j \in Item, p, r \in Queue :
          InList(k2[p].entries, j) /\ InList(k2[r].entries, j) => p = r
    <3> SUFFICES ASSUME NEW j \in Item, NEW p \in Queue, NEW r \in Queue,
                        InList(k2[p].entries, j), InList(k2[r].entries, j)
                 PROVE  p = r
      OBVIOUS
    <3>1. /\ InList(ks[p].entries, j) \/ (p = q /\ j = i)
          /\ InList(ks[r].entries, j) \/ (r = q /\ j = i)
      BY <1>2
    <3>2. CASE j = i
      BY <3>1, <3>2 DEF Free
    <3>3. CASE j # i
      BY <3>1, <3>3 DEF Sound, OnePlace
    <3>4. QED BY <3>2, <3>3
  <2>3. ASSUME NEW j \in Item, NEW t \in Thread, j \in is[t]
        PROVE  /\ \A r \in Queue : ~InList(k2[r].entries, j)
               /\ \A u \in Thread : j \in is[u] => t = u
    <3>1. j # i
      BY <2>3 DEF Free
    <3>2. /\ \A r \in Queue : ~InList(ks[r].entries, j)
          /\ \A u \in Thread : j \in is[u] => t = u
      BY <2>3 DEF Sound, OnePlace
    <3>3. QED BY <1>2, <3>1, <3>2
  <2>4. QED BY <2>1, <2>2, <2>3 DEF OnePlace
<1>4. Counts(k2, qs, ps) /\ WaitersMatch(k2, qs, ps)
  BY <1>1 DEF Sound, Counts, WaitersMatch
<1>5. QED BY <1>1, <1>3, <1>4 DEF Sound, Types, k2

(* or without its first one. *)
LEMMA Unlisted ==
  ASSUME NEW ks, NEW qs, NEW is, NEW ps, Sound(ks, qs, is, ps),
         NEW q \in Queue, ks[q].entries # <<>>
  PROVE  /\ Sound([ks EXCEPT ![q].entries = Tail(@)], qs, is, ps)
         /\ Head(ks[q].entries) \in Item
         /\ Free(Head(ks[q].entries), [ks EXCEPT ![q].entries = Tail(@)], is)
<1> DEFINE s == ks[q].entries
           k2 == [ks EXCEPT ![q].entries = Tail(@)]
<1>0. ks \in [Queue -> KQueue] /\ ks[q] \in KQueue /\ s \in Seq(Item) /\ IsInjective(s)
  BY DEF Sound, Types, KQueue, OnePlace
<1>s. /\ Tail(s) \in Seq(Item) /\ Head(s) \in Item /\ InList(s, Head(s))
      /\ IsInjective(Tail(s))
      /\ \A x : InList(Tail(s), x) <=> InList(s, x) /\ x # Head(s)
  BY <1>0, HeadTaken
<1>1. /\ k2 \in [Queue -> KQueue]
      /\ k2[q].entries = Tail(s)
      /\ \A r \in Queue : /\ k2[r].waiters = ks[r].waiters
                          /\ k2[r].current = ks[r].current
                          /\ r # q => k2[r].entries = ks[r].entries
  <2> DEFINE e == Tail(s)
             k == [ks[q] EXCEPT !.entries = e]
  <2>1. k2 = [ks EXCEPT ![q] = k]
    BY <1>0
  <2>2. k \in KQueue /\ k.entries = e /\ k.waiters = ks[q].waiters /\ k.current = ks[q].current
    <3>1. e \in Seq(Item)
      BY <1>s
    <3> HIDE DEF e
    <3>2. QED BY <1>0, <3>1, NewEntries
  <2> HIDE DEF k, k2
  <2>3. QED BY <1>0, <2>1, <2>2, NewQueue
<1>2. \A r \in Queue : \A x : InList(k2[r].entries, x) <=>
        InList(ks[r].entries, x) /\ ~(r = q /\ x = Head(s))
  <2> HIDE DEF k2
  <2>1. QED BY <1>1, <1>s
<1> HIDE DEF k2
<1>3. OnePlace(k2, is)
  <2>1. \A r \in Queue : IsInjective(k2[r].entries)
    BY <1>1, <1>s DEF Sound, OnePlace
  <2>2. \A j \in Item, p, r \in Queue :
          InList(k2[p].entries, j) /\ InList(k2[r].entries, j) => p = r
    BY <1>2 DEF Sound, OnePlace
  <2>3. ASSUME NEW j \in Item, NEW t \in Thread, j \in is[t]
        PROVE  /\ \A r \in Queue : ~InList(k2[r].entries, j)
               /\ \A u \in Thread : j \in is[u] => t = u
    BY <1>2, <2>3 DEF Sound, OnePlace
  <2>4. QED BY <2>1, <2>2, <2>3 DEF OnePlace
<1>4. Counts(k2, qs, ps) /\ WaitersMatch(k2, qs, ps)
  BY <1>1 DEF Sound, Counts, WaitersMatch
<1>5. Free(Head(s), k2, is)
  <2>1. ASSUME NEW r \in Queue, InList(k2[r].entries, Head(s)) PROVE FALSE
    <3>1. InList(ks[r].entries, Head(s)) /\ r # q
      BY <1>2, <2>1
    <3>2. InList(ks[q].entries, Head(s)) /\ Head(s) \in Item
      BY <1>s
    <3>3. \A j \in Item, p, o \in Queue :
            InList(ks[p].entries, j) /\ InList(ks[o].entries, j) => p = o
      BY DEF Sound, OnePlace
    <3> HIDE DEF s
    <3>4. QED BY <3>1, <3>2, <3>3
  <2>2. \A t \in Thread : Head(s) \notin is[t]
    BY <1>s DEF Sound, OnePlace
  <2>3. QED BY <2>1, <2>2 DEF Free
<1>6. QED BY <1>1, <1>3, <1>4, <1>5, <1>s DEF Sound, Types, k2

(* The last waiter is given a free entry. *)
LEMMA Hands ==
  ASSUME NEW ks, NEW qs, NEW is, NEW ps, Sound(ks, qs, is, ps),
         NEW q \in Queue, ks[q].waiters # <<>>, NEW i \in Item, Free(i, ks, is),
         NEW u, u = Last(ks[q].waiters),
         NEW k \in KQueue, k.entries = ks[q].entries,
         k.waiters = Front(ks[q].waiters), k.current = ks[q].current + 1
  PROVE  /\ Sound([ks EXCEPT ![q] = k], qs, [is EXCEPT ![u] = {i}],
                  [ps EXCEPT ![u] = "Running"])
         /\ u \in Thread /\ qs[u] = q /\ ps[u] = "QueueWait"
<1> DEFINE s == ks[q].waiters
<1>0. /\ ks \in [Queue -> KQueue] /\ ks[q] \in KQueue /\ s \in Seq(Thread)
      /\ IsInjective(s)
  BY DEF Sound, Types, KQueue, WaitersMatch
<1>1. /\ Front(s) \in Seq(Thread) /\ u \in Thread /\ InList(s, u)
      /\ IsInjective(Front(s))
      /\ \A x : InList(Front(s), x) <=> InList(s, x) /\ x # u
  BY <1>0, LastTaken
<1>2. qs[u] = q /\ ps[u] = "QueueWait"
  BY <1>1 DEF Sound, WaitersMatch
<1>3. Sound(ks, qs, [is EXCEPT ![u] = {i}], ps)
  BY <1>1, Takes
<1>4. "Running" \in AtWorkPc
  BY DEF AtWorkPc
<1>5. Sound([ks EXCEPT ![q] = k], qs, [is EXCEPT ![u] = {i}], [ps EXCEPT ![u] = "Running"])
  BY <1>1, <1>2, <1>3, <1>4, Unblocks
<1>6. QED BY <1>1, <1>2, <1>5
-----------------------------------------------------------------------------
(***************************************************************************)
(* The sections of the code.                                               *)
(***************************************************************************)
LEMMA HandedNone ==
  ASSUME item \in [Thread -> SUBSET Item], pc \in [Thread -> Pc],
         reasonQueue \in [Thread -> BOOLEAN]
  PROVE  ItemsWith({}) = item /\ PcWith({}) = pc /\ ReasonWith({}) = reasonQueue
<1>1. ItemsWith({}) = item
  BY DEF ItemsWith
<1>2. PcWith({}) = pc
  BY DEF PcWith
<1>3. ReasonWith({}) = reasonQueue
  BY DEF ReasonWith
<1>4. QED BY <1>1, <1>2, <1>3

LEMMA HandedOne ==
  ASSUME item \in [Thread -> SUBSET Item], pc \in [Thread -> Pc],
         reasonQueue \in [Thread -> BOOLEAN], NEW u \in Thread, NEW i \in Item
  PROVE  /\ ItemsWith({<<u, i>>}) = [item EXCEPT ![u] = {i}]
         /\ PcWith({<<u, i>>}) = [pc EXCEPT ![u] = "Running"]
<1> DEFINE hs == {<<u, i>>}
<1>1. \A t \in Thread : (\E h \in hs : h[1] = t) <=> t = u
  OBVIOUS
<1>2. {h[2] : h \in hs} = {i}
  OBVIOUS
<1> HIDE DEF hs
<1>3. ItemsWith(hs) = [item EXCEPT ![u] = {i}]
  BY <1>1, <1>2 DEF ItemsWith
<1>4. PcWith(hs) = [pc EXCEPT ![u] = "Running"]
  BY <1>1 DEF PcWith
<1>5. QED BY <1>3, <1>4 DEF hs

LEMMA ReasonsAreBoolean == \A hs : ReasonWith(hs) \in [Thread -> BOOLEAN]
BY DEF ReasonWith

(* KiActivateWaiterQueue and KeRemoveQueue for another queue. *)
LEMMA StopsRunning ==
  ASSUME Inv, NEW t \in Thread, pc[t] = "Running", NEW next \in AwayPc
  PROVE  /\ Sound(QueuesWithout(t), queue, ItemsWith(HandedBy(t)),
                  [PcWith(HandedBy(t)) EXCEPT ![t] = next])
         /\ AllBusy(QueuesWithout(t))
<1> DEFINE q == queue[t]
           k == kqueue[q]
<1>0. /\ Sound(kqueue, queue, item, pc) /\ AllBusy(kqueue)
      /\ kqueue \in [Queue -> KQueue] /\ queue \in [Thread -> Queue \union {None}]
      /\ item \in [Thread -> SUBSET Item] /\ pc \in [Thread -> Pc]
      /\ reasonQueue \in [Thread -> BOOLEAN]
  BY DEF Inv, Sound, Types
<1>1. CASE ~Belongs(t)
  <2>1. q = None /\ QueuesWithout(t) = kqueue /\ HandedBy(t) = {}
    BY <1>1 DEF Belongs, QueuesWithout, HandedBy
  <2>2. next \in Pc /\ next \notin {"QueueWait", "Restart"}
    BY DEF AwayPc, Pc
  <2>3. Sound(kqueue, queue, item, [pc EXCEPT ![t] = next])
    BY <1>0, <2>1, <2>2, Moves
  <2>4. QED BY <1>0, <2>1, <2>3, HandedNone
<1>2. CASE Belongs(t)
  <2> DEFINE k1 == [kqueue EXCEPT ![q].current = @ - 1]
             p1 == [pc EXCEPT ![t] = next]
  <2>1. /\ q \in Queue /\ k \in KQueue
        /\ QueuesWithout(t) = [kqueue EXCEPT ![q] = Activated(@, MaximumCount[q])]
        /\ HandedBy(t) = Handed(k, MaximumCount[q])
    BY <1>0, <1>2 DEF Belongs, QueuesWithout, HandedBy
  <2>2. k.current \in Int /\ k.current > 0 /\ MaximumCount[q] \in Nat /\ MaximumCount[q] > 0
    <3>1. k.current = Cardinality(ActiveIn(q, queue, pc)) /\ t \in ActiveIn(q, queue, pc)
      BY <1>0, <2>1 DEF Sound, Counts, ActiveIn, AtWorkPc
    <3>2. k.current \in Nat /\ k.current # 0
      BY <3>1, CountIsActive
    <3>3. MaximumCount[q] \in Nat \ {0}
      BY <2>1
    <3> HIDE DEF k, q
    <3>4. QED BY <3>2, <3>3
  <2>3. CASE GivesPlace(k, MaximumCount[q])
    <3> DEFINE u == Last(k.waiters)
               i == Head(k.entries)
               ku == [kqueue EXCEPT ![q].entries = Tail(@)]
               kl == [ku EXCEPT ![q].current = @ - 1]
    <3>1. k.entries # <<>> /\ k.waiters # <<>>
      BY <2>3 DEF GivesPlace
    <3>2. Sound(ku, queue, item, pc) /\ i \in Item /\ Free(i, ku, item)
      BY <1>0, <2>1, <3>1, Unlisted
    <3>3. pc[t] \in AtWorkPc
      BY DEF AtWorkPc
    <3>4. Sound(kl, queue, item, p1)
      <4> HIDE DEF ku
      <4>1. QED BY <2>1, <3>2, <3>3, Leaves
    <3> DEFINE ke == [k EXCEPT !.entries = Tail(@)]
               kc == [ke EXCEPT !.current = @ - 1]
               kw == [kc EXCEPT !.waiters = Front(@)]
               kb == [kw EXCEPT !.current = @ + 1]
    <3>5. /\ ke \in KQueue /\ kc \in KQueue /\ kb \in KQueue
          /\ kc.entries = ke.entries /\ kc.waiters = k.waiters
          /\ kb = [k EXCEPT !.entries = Tail(@), !.waiters = Front(@)]
          /\ kb.entries = kc.entries /\ kb.waiters = Front(kc.waiters)
          /\ kb.current = kc.current + 1
      <4>1. Tail(k.entries) \in Seq(Item) /\ Front(k.waiters) \in Seq(Thread)
        BY <2>1, <3>1, Shorter
      <4>2. ke \in KQueue /\ ke.waiters = k.waiters /\ ke.current = k.current
        <5> HIDE DEF k
        <5>1. QED BY <2>1, <4>1, NewEntries
      <4>3. ke.entries = Tail(k.entries)
        <5> HIDE DEF k
        <5>1. QED BY <2>1, <4>1, NewEntries
      <4>4. /\ kc \in KQueue /\ kc.waiters = k.waiters /\ kc.entries = ke.entries
            /\ kc.current = k.current - 1
        <5> HIDE DEF k, ke
        <5>1. ke.current - 1 \in Int
          BY <2>2, <4>2
        <5>2. QED BY <4>2, <5>1, NewCount
      <4>5. /\ kw \in KQueue /\ kw.waiters = Front(k.waiters) /\ kw.entries = ke.entries
            /\ kw.current = k.current - 1
        <5> HIDE DEF k, ke, kc
        <5>1. QED BY <4>1, <4>4, NewWaiters
      <4>6. /\ kb \in KQueue /\ kb.waiters = Front(k.waiters) /\ kb.entries = ke.entries
            /\ kb.current = k.current
        <5> HIDE DEF k, ke, kc, kw
        <5>1. kw.current + 1 \in Int /\ kw.current + 1 = k.current
          BY <2>2, <4>5
        <5>2. QED BY <4>5, <5>1, NewCount
      <4> DEFINE kz == [ke EXCEPT !.waiters = Front(k.waiters)]
      <4>7. kz = [k EXCEPT !.entries = Tail(@), !.waiters = Front(@)]
        BY <2>1 DEF KQueue
      <4>8. /\ kz \in KQueue /\ kz.waiters = Front(k.waiters) /\ kz.entries = ke.entries
            /\ kz.current = k.current
        <5> HIDE DEF k, ke
        <5>1. QED BY <4>1, <4>2, NewWaiters
      <4>9. kb = kz
        <5> HIDE DEF k, ke, kz, kb
        <5>1. QED BY <4>6, <4>8, SameQueue
      <4>10. /\ kb.entries = kc.entries /\ kb.waiters = Front(kc.waiters)
             /\ kb.current = kc.current + 1
        <5> HIDE DEF k, ke, kc, kb
        <5>1. QED BY <2>2, <4>4, <4>6
      <4>11. QED BY <4>2, <4>4, <4>6, <4>7, <4>9, <4>10
    <3>6. /\ kl[q] = kc /\ kl = [kqueue EXCEPT ![q] = kc]
          /\ \A r \in Queue : kl[r].entries = ku[r].entries
          /\ kl[q].waiters = k.waiters
      <4>1. ku = [kqueue EXCEPT ![q] = ke]
        BY <1>0, <2>1
      <4>2. ku[q] = ke
        BY <1>0, <2>1, <4>1
      <4>3. kl = [ku EXCEPT ![q] = kc]
        <5> HIDE DEF ku, ke
        <5>1. QED BY <4>2
      <4>4. kl = [kqueue EXCEPT ![q] = kc]
        <5> HIDE DEF ku, kc, kl, ke
        <5>1. QED BY <1>0, <2>1, <4>1, <4>3, NewQueueTwice
      <4>5. kl[q] = kc /\ \A r \in Queue : r # q => kl[r] = kqueue[r] /\ ku[r] = kqueue[r]
        <5> HIDE DEF ku, kc, kl, ke
        <5>1. QED BY <1>0, <2>1, <3>5, <4>1, <4>4, NewQueue
      <4>6. QED
        <5> HIDE DEF ku, kc, kl, ke, k
        <5>1. QED BY <3>5, <4>2, <4>4, <4>5
    <3>i. Free(i, kl, item)
      <4> HIDE DEF i, kl, ku
      <4>1. QED BY <3>2, <3>6 DEF Free
    <3>7. /\ Sound([kl EXCEPT ![q] = kb], queue, [item EXCEPT ![u] = {i}],
                   [p1 EXCEPT ![u] = "Running"])
          /\ u \in Thread /\ p1[u] = "QueueWait"
      <4>1. /\ u = Last(kl[q].waiters) /\ kl[q].waiters # <<>>
            /\ kb \in KQueue /\ kb.entries = kl[q].entries
            /\ kb.waiters = Front(kl[q].waiters) /\ kb.current = kl[q].current + 1
        <5> HIDE DEF kl, kc, kb
        <5>1. QED BY <3>1, <3>5, <3>6
      <4> HIDE DEF kl, p1, i, k, u, kb
      <4>2. QED BY SMTT(30), <2>1, <3>2, <3>4, <3>i, <4>1, Hands
    <3>8. [kl EXCEPT ![q] = kb] = QueuesWithout(t)
      <4>1. Activated(k, MaximumCount[q]) = kb
        <5> HIDE DEF kb
        <5>1. QED BY <2>3, <3>5 DEF Activated
      <4>2. [kl EXCEPT ![q] = kb] = [kqueue EXCEPT ![q] = kb]
        <5> HIDE DEF kl, kc, kb
        <5>1. QED BY <1>0, <2>1, <3>6, NewQueueTwice
      <4>3. [kqueue EXCEPT ![q] = kb] = QueuesWithout(t)
        <5> HIDE DEF kb
        <5>1. QED BY <2>1, <4>1
      <4>4. QED BY <4>2, <4>3
    <3>9. /\ ItemsWith(HandedBy(t)) = [item EXCEPT ![u] = {i}]
          /\ [PcWith(HandedBy(t)) EXCEPT ![t] = next] = [p1 EXCEPT ![u] = "Running"]
      <4>1. HandedBy(t) = {<<u, i>>}
        BY <2>1, <2>3 DEF Handed
      <4>2. t # u
        BY <1>0, <3>7 DEF AwayPc
      <4> HIDE DEF u, i
      <4>3. /\ ItemsWith(HandedBy(t)) = [item EXCEPT ![u] = {i}]
            /\ PcWith(HandedBy(t)) = [pc EXCEPT ![u] = "Running"]
        BY <1>0, <3>2, <3>7, <4>1, HandedOne
      <4>4. [[pc EXCEPT ![u] = "Running"] EXCEPT ![t] = next] = [p1 EXCEPT ![u] = "Running"]
        BY <1>0, <4>2
      <4>5. QED BY <4>3, <4>4
    <3>10. AllBusy(QueuesWithout(t))
      <4>1. \A r \in Queue \ {q} : QueuesWithout(t)[r] = kqueue[r]
        BY <1>0, <2>1
      <4>2. QueuesWithout(t)[q] = [k EXCEPT !.entries = Tail(@), !.waiters = Front(@)]
        BY <1>0, <2>1, <2>3 DEF Activated
      <4>3. QueuesWithout(t)[q].current = k.current
        BY <2>1, <4>2 DEF KQueue
      <4>4. QED BY <1>0, <2>2, <4>1, <4>3 DEF AllBusy, Busy
    <3>11. QED BY <3>7, <3>8, <3>9, <3>10
  <2>4. CASE ~GivesPlace(k, MaximumCount[q])
    <3>1. QueuesWithout(t) = k1 /\ HandedBy(t) = {}
      BY <2>1, <2>4 DEF Activated, Handed
    <3>2. pc[t] \in AtWorkPc
      BY DEF AtWorkPc
    <3>3. Sound(k1, queue, item, p1)
      BY <1>0, <2>1, <3>2, Leaves
    <3>4. AllBusy(k1)
      <4>1. \A r \in Queue \ {q} : k1[r] = kqueue[r]
        BY <1>0, <2>1
      <4>2. k1[q] = [k EXCEPT !.current = @ - 1]
        BY <1>0, <2>1
      <4>3. /\ k1[q].current = k.current - 1 /\ k1[q].entries = k.entries
            /\ k1[q].waiters = k.waiters
        <5> HIDE DEF k, k1
        <5>1. k.current - 1 \in Int
          BY <2>2
        <5>2. QED BY <2>1, <4>2, <5>1, NewCount
      <4>4. k.entries # <<>> /\ k.waiters # <<>> => k.current - 1 >= MaximumCount[q]
        <5> HIDE DEF k, q
        <5>1. QED BY <2>2, <2>4 DEF GivesPlace
      <4>5. Busy(k1, q)
        <5> HIDE DEF k, k1, q
        <5>1. QED BY <2>2, <4>3, <4>4 DEF Busy
      <4>6. QED BY <1>0, <4>1, <4>5 DEF AllBusy, Busy
    <3>5. QED BY <1>0, <3>1, <3>3, <3>4, HandedNone
  <2>5. QED BY <2>3, <2>4
<1>3. QED BY <1>1, <1>2

(***************************************************************************)
(* The end of KeRemoveQueue, when t counts for no queue.                   *)
(***************************************************************************)
BusyBut(ks, q) == \A r \in Queue : r # q => Busy(ks, r)

LEMMA Looks ==
  ASSUME NEW t \in Thread, NEW q \in Queue, NEW ks, NEW handed,
         Sound(ks, queue, ItemsWith(handed), [PcWith(handed) EXCEPT ![t] = "Waiting"]),
         BusyBut(ks, q), Look(t, q, ks, handed)
  PROVE  Inv'
<1> DEFINE is == ItemsWith(handed)
           ps == PcWith(handed)
           p1 == [ps EXCEPT ![t] = "Waiting"]
           q2 == [queue EXCEPT ![t] = q]
<1>0. /\ ks \in [Queue -> KQueue] /\ ks[q] \in KQueue
      /\ queue \in [Thread -> Queue \union {None}]
      /\ is \in [Thread -> SUBSET Item] /\ DOMAIN ps = Thread
      /\ MaximumCount[q] \in Nat /\ MaximumCount[q] > 0
  <2>1. DOMAIN ps = Thread
    BY DEF PcWith
  <2>2. MaximumCount[q] \in Nat \ {0}
    OBVIOUS
  <2>3. QED BY <2>1, <2>2 DEF Sound, Types
<1>1. /\ queue' = q2
      /\ reasonQueue' \in [Thread -> BOOLEAN]
  BY ReasonsAreBoolean DEF Look
<1>2. q2[t] = q /\ p1[t] \in AwayPc /\ p1[t] = "Waiting"
  BY <1>0 DEF AwayPc
<1>3. Sound(ks, q2, is, p1)
  <2> HIDE DEF p1, is, ps
  <2>1. Sound(ks, queue, is, p1)
    BY DEF p1, is, ps
  <2> HIDE DEF q2
  <2>2. QED BY <1>2, <2>1, ChangesQueue DEF q2
<1>4. \A next : [p1 EXCEPT ![t] = next] = [ps EXCEPT ![t] = next]
  BY <1>0
<1>5. ks[q].current \in Nat
  BY <1>3, CountIsActive DEF Sound, Counts
<1> DEFINE Joined(k) == [k EXCEPT ![q].current = @ + 1]
<1>6. ASSUME NEW k \in [Queue -> KQueue], k[q].current = ks[q].current,
             \A r \in Queue : r # q => k[r] = ks[r]
      PROVE  AllBusy(Joined(k))
  <2>1. Joined(k)[q].current = ks[q].current + 1
    <3>1. k[q] \in KQueue /\ k[q].current + 1 \in Int
      BY <1>5, <1>6
    <3>2. Joined(k)[q] = [k[q] EXCEPT !.current = @ + 1]
      BY <1>6
    <3> HIDE DEF Joined
    <3>3. QED BY <1>6, <3>1, <3>2, NewCount
  <2>2. \A r \in Queue : r # q => Joined(k)[r] = ks[r]
    BY <1>6
  <2> HIDE DEF Joined
  <2>3. Joined(k)[q].current > 0
    BY <1>5, <2>1
  <2>4. \A r \in Queue : Busy(Joined(k), r)
    BY <2>2, <2>3 DEF Busy, BusyBut
  <2>5. QED BY <2>4 DEF AllBusy
<1>7. CASE TakeEntry(t, q, ks, handed)
  <2> DEFINE kt == [ks EXCEPT ![q].entries = Tail(@)]
             i == Head(ks[q].entries)
  <2>1. /\ ks[q].entries # <<>>
        /\ kqueue' = Joined(kt) /\ item' = [is EXCEPT ![t] = {i}]
        /\ pc' = [ps EXCEPT ![t] = "Running"]
    BY <1>7 DEF TakeEntry, Counted
  <2>2. Sound(kt, q2, is, p1) /\ i \in Item /\ Free(i, kt, is)
    <3> HIDE DEF p1, is, q2
    <3>1. QED BY <1>3, <2>1, Unlisted
  <2>3. Sound(kt, q2, [is EXCEPT ![t] = {i}], p1)
    <3> HIDE DEF p1, is, q2, kt, i
    <3>1. QED BY <2>2, Takes
  <2>4. Sound(Joined(kt), q2, [is EXCEPT ![t] = {i}], [p1 EXCEPT ![t] = "Running"])
    <3>1. "Running" \in AtWorkPc
      BY DEF AtWorkPc
    <3> HIDE DEF p1, is, q2, kt, i
    <3>2. QED BY <1>2, <2>3, <3>1, Joins
  <2>5. AllBusy(Joined(kt))
    <3>1. /\ kt[q] = [ks[q] EXCEPT !.entries = Tail(@)]
          /\ \A r \in Queue : r # q => kt[r] = ks[r]
      BY <1>0
    <3>2. kt \in [Queue -> KQueue]
      BY <2>2 DEF Sound, Types
    <3>3. kt[q].current = ks[q].current
      BY <1>0, <3>1 DEF KQueue
    <3> HIDE DEF kt, Joined
    <3>4. QED BY <1>6, <3>1, <3>2, <3>3
  <2> HIDE DEF p1, is, q2, kt, i, ps, Joined
  <2>6. QED BY <1>1, <1>4, <2>1, <2>4, <2>5 DEF Inv
<1>8. CASE GiveUp(t, q, ks, handed)
  <2>1. PICK next \in AtWorkPc : pc' = [ps EXCEPT ![t] = next]
    BY <1>8 DEF GiveUp, AtWorkPc
  <2>2. kqueue' = Joined(ks) /\ item' = [is EXCEPT ![t] = {}]
    BY <1>8 DEF GiveUp, Counted
  <2>3. Sound(ks, q2, [is EXCEPT ![t] = {}], p1)
    <3> HIDE DEF p1, is, q2
    <3>1. QED BY <1>3, Drops
  <2>4. Sound(Joined(ks), q2, [is EXCEPT ![t] = {}], [p1 EXCEPT ![t] = next])
    <3> HIDE DEF p1, is, q2
    <3>1. QED BY <1>2, <2>3, Joins
  <2>5. AllBusy(Joined(ks))
    <3> HIDE DEF Joined
    <3>1. QED BY <1>0, <1>6
  <2> HIDE DEF p1, is, q2, ps, Joined
  <2>6. QED BY <1>1, <1>4, <2>1, <2>2, <2>4, <2>5 DEF Inv
<1>9. CASE BlockOnQueue(t, q, ks, handed)
  <2> DEFINE kb == [ks EXCEPT ![q].waiters = Append(@, t)]
  <2>1. /\ ~(ks[q].entries # <<>> /\ ks[q].current < MaximumCount[q])
        /\ kqueue' = kb /\ item' = [is EXCEPT ![t] = {}]
        /\ pc' = [ps EXCEPT ![t] = "QueueWait"]
    BY <1>9 DEF BlockOnQueue
  <2>2. Sound(ks, q2, [is EXCEPT ![t] = {}], p1)
    <3> HIDE DEF p1, is, q2
    <3>1. QED BY <1>3, Drops
  <2>3. Sound(kb, q2, [is EXCEPT ![t] = {}], [p1 EXCEPT ![t] = "QueueWait"])
    <3> HIDE DEF p1, is, q2
    <3>1. QED BY <1>2, <2>2, Blocks
  <2>4. AllBusy(kb)
    <3>1. /\ kb[q] = [ks[q] EXCEPT !.waiters = Append(@, t)]
          /\ \A r \in Queue : r # q => kb[r] = ks[r]
      BY <1>0
    <3>2. kb[q].current = ks[q].current /\ kb[q].entries = ks[q].entries
      BY <1>0, <3>1 DEF KQueue
    <3> HIDE DEF kb
    <3>3. Busy(kb, q)
      BY <1>0, <1>5, <2>1, <3>2 DEF Busy
    <3>4. QED BY <3>1, <3>3 DEF AllBusy, BusyBut, Busy
  <2> HIDE DEF p1, is, q2, ps, kb
  <2>5. QED BY <1>1, <1>4, <2>1, <2>3, <2>4 DEF Inv
<1>10. QED BY <1>7, <1>8, <1>9 DEF Look

(* A thread that works for the queue it asks again. *)
LEMMA LooksAgain ==
  ASSUME Inv, NEW t \in Thread, NEW q \in Queue, queue[t] = q, pc[t] \in AtWorkPc,
         Look(t, q, Uncounted(q), {})
  PROVE  Inv'
<1> DEFINE k1 == Uncounted(q)
           p1 == [pc EXCEPT ![t] = "Waiting"]
<1>0. /\ Sound(kqueue, queue, item, pc) /\ AllBusy(kqueue)
      /\ kqueue \in [Queue -> KQueue]
      /\ item \in [Thread -> SUBSET Item] /\ pc \in [Thread -> Pc]
      /\ reasonQueue \in [Thread -> BOOLEAN]
  BY DEF Inv, Sound, Types
<1>1. Sound(k1, queue, item, p1)
  <2>1. "Waiting" \in AwayPc
    BY DEF AwayPc
  <2>2. QED BY <1>0, <2>1, Leaves DEF Uncounted
<1>2. BusyBut(k1, q)
  <2>1. \A r \in Queue : r # q => k1[r] = kqueue[r]
    BY <1>0 DEF Uncounted
  <2> HIDE DEF k1
  <2>2. QED BY <1>0, <2>1 DEF BusyBut, AllBusy, Busy
<1>3. ItemsWith({}) = item /\ [PcWith({}) EXCEPT ![t] = "Waiting"] = p1
  BY <1>0, HandedNone
<1> HIDE DEF k1, p1
<1>4. Sound(k1, queue, ItemsWith({}), [PcWith({}) EXCEPT ![t] = "Waiting"])
  BY <1>1, <1>3
<1>5. Look(t, q, k1, {})
  BY DEF k1
<1>6. QED BY <1>2, <1>4, <1>5, Looks
-----------------------------------------------------------------------------
(***************************************************************************)
(* The actions.                                                            *)
(***************************************************************************)
LEMMA InsertKeeps ==
  ASSUME Inv, NEW q \in Queue, NEW i \in Item, NEW current \in Thread \union {None},
         Insert(q, i, current)
  PROVE  Inv'
<1>0. /\ Sound(kqueue, queue, item, pc) /\ AllBusy(kqueue)
      /\ kqueue \in [Queue -> KQueue] /\ kqueue[q] \in KQueue
      /\ item \in [Thread -> SUBSET Item] /\ pc \in [Thread -> Pc]
      /\ reasonQueue \in [Thread -> BOOLEAN]
      /\ MaximumCount[q] \in Nat /\ MaximumCount[q] > 0
  <2>1. MaximumCount[q] \in Nat \ {0}
    OBVIOUS
  <2>2. QED BY <2>1 DEF Inv, Sound, Types
<1>1. kqueue[q].current \in Nat
  BY <1>0, CountIsActive DEF Sound, Counts
<1>2. Free(i, kqueue, item)
  <2>1. \A r \in Queue : \A x : InList(kqueue[r].entries, x) => x \in ToSet(kqueue[r].entries)
    <3>1. \A r \in Queue : kqueue[r].entries \in Seq(Item)
      BY <1>0 DEF KQueue
    <3>2. \A r \in Queue : DOMAIN kqueue[r].entries = 1..Len(kqueue[r].entries)
      BY <3>1
    <3>3. QED BY <3>2 DEF InList, ToSet
  <2>2. QED BY <2>1 DEF Insert, Idle, Listed, Free
<1>3. CASE Dispatch(q, i, current)
  <2> DEFINE u == Last(kqueue[q].waiters)
             k == [kqueue[q] EXCEPT !.waiters = Front(@), !.current = @ + 1]
  <2>1. /\ kqueue[q].waiters # <<>>
        /\ item' = ItemsWith({<<u, i>>}) /\ pc' = PcWith({<<u, i>>})
        /\ reasonQueue' = ReasonWith({<<u, i>>})
        /\ kqueue' = [kqueue EXCEPT ![q].waiters = Front(@), ![q].current = @ + 1]
        /\ queue' = queue
    BY <1>3 DEF Dispatch, MayDispatch
  <2>2. /\ k \in KQueue /\ k.entries = kqueue[q].entries
        /\ k.waiters = Front(kqueue[q].waiters) /\ k.current = kqueue[q].current + 1
    <3> DEFINE s == kqueue[q].waiters
               l == [kqueue[q] EXCEPT !.waiters = Front(s)]
    <3>1. s \in Seq(Thread) /\ s # <<>> /\ IsInjective(s)
      BY <1>0, <2>1 DEF KQueue, Sound, WaitersMatch
    <3>2. Front(s) \in Seq(Thread)
      <4> HIDE DEF s
      <4>1. QED BY <3>1, LastTaken
    <3>3. /\ l \in KQueue /\ l.entries = kqueue[q].entries
          /\ l.waiters = Front(s) /\ l.current = kqueue[q].current
      BY <1>0, <3>2, NewWaiters
    <3>4. k = [l EXCEPT !.current = kqueue[q].current + 1]
      BY <1>0 DEF KQueue
    <3>5. kqueue[q].current + 1 \in Int
      BY <1>1
    <3> HIDE DEF l, k
    <3>6. QED BY <3>3, <3>4, <3>5, NewCount
  <2>3. kqueue' = [kqueue EXCEPT ![q] = k]
    BY <1>0, <2>1
  <2>4. /\ Sound([kqueue EXCEPT ![q] = k], queue, [item EXCEPT ![u] = {i}],
                 [pc EXCEPT ![u] = "Running"])
        /\ u \in Thread
    <3>1. u = Last(kqueue[q].waiters)
      OBVIOUS
    <3> HIDE DEF k, u
    <3>2. Sound(kqueue, queue, item, pc) /\ kqueue[q].waiters # <<>>
      BY <1>0, <2>1
    <3>3. QED BY <1>2, <2>2, <3>1, <3>2, Hands
  <2>5. item' = [item EXCEPT ![u] = {i}] /\ pc' = [pc EXCEPT ![u] = "Running"]
    <3> HIDE DEF u
    <3>1. QED BY <1>0, <2>1, <2>4, HandedOne
  <2>6. AllBusy(kqueue')
    <3>1. kqueue'[q] = k /\ \A r \in Queue : r # q => kqueue'[r] = kqueue[r]
      BY <1>0, <2>3
    <3> HIDE DEF k
    <3>2. kqueue'[q].current > 0
      BY <1>1, <2>2, <3>1
    <3>3. QED BY <1>0, <3>1, <3>2 DEF AllBusy, Busy
  <2>7. reasonQueue' \in [Thread -> BOOLEAN]
    BY <2>1, ReasonsAreBoolean
  <2> HIDE DEF u, k
  <2>8. QED BY <2>1, <2>3, <2>4, <2>5, <2>6, <2>7 DEF Inv
<1>4. ASSUME NEW head \in BOOLEAN, Enlist(q, i, current, head) PROVE Inv'
  <2> DEFINE e == kqueue[q].entries
             s == IF head THEN <<i>> \o e ELSE Append(e, i)
  <2>1. /\ ~MayDispatch(q, current) /\ kqueue' = [kqueue EXCEPT ![q].entries = s]
        /\ UNCHANGED <<queue, reasonQueue, item, pc>>
    BY <1>4 DEF Enlist
  <2>2. /\ s \in Seq(Item) /\ IsInjective(s)
        /\ \A x : InList(s, x) <=> InList(e, x) \/ x = i
    <3>1. e \in Seq(Item) /\ IsInjective(e) /\ ~InList(e, i)
      BY <1>0, <1>2 DEF KQueue, Sound, OnePlace, Free
    <3> HIDE DEF e
    <3>2. QED BY <3>1, Appended, Prepended
  <2>3. Sound([kqueue EXCEPT ![q].entries = s], queue, item, pc)
    <3> HIDE DEF s
    <3>1. QED BY <1>0, <1>2, <2>2, Enlisted
  <2>4. Busy([kqueue EXCEPT ![q].entries = s], q)
    <3> DEFINE k == [kqueue[q] EXCEPT !.entries = s]
    <3>1. [kqueue EXCEPT ![q].entries = s][q] = k
      BY <1>0
    <3>2. k.waiters = kqueue[q].waiters /\ k.current = kqueue[q].current
      <4> HIDE DEF s
      <4>1. QED BY <1>0, <2>2, NewEntries
    <3>3. ASSUME kqueue[q].waiters # <<>> PROVE kqueue[q].current > 0
      <4>1. CASE current # None /\ queue[current] = q /\ reasonQueue[current]
        <5>1. current \in Thread /\ pc[current] \in AtWorkPc
          BY <4>1 DEF Insert, AtWork, AtWorkPc
        <5>2. current \in ActiveIn(q, queue, pc)
          BY <4>1, <5>1 DEF ActiveIn
        <5>3. kqueue[q].current = Cardinality(ActiveIn(q, queue, pc))
          BY <1>0 DEF Sound, Counts
        <5>4. kqueue[q].current # 0
          BY <5>2, <5>3, CountIsActive
        <5>5. QED BY <1>1, <5>4
      <4>2. CASE ~(kqueue[q].current < MaximumCount[q])
        BY <1>0, <1>1, <4>2
      <4>3. QED BY <2>1, <3>3, <4>1, <4>2 DEF MayDispatch
    <3> HIDE DEF k, s
    <3>4. QED BY <3>1, <3>2, <3>3 DEF Busy
  <2>5. AllBusy([kqueue EXCEPT ![q].entries = s])
    <3>1. \A r \in Queue : r # q => [kqueue EXCEPT ![q].entries = s][r] = kqueue[r]
      BY <1>0
    <3> HIDE DEF s
    <3>2. QED BY <1>0, <2>4, <3>1 DEF AllBusy, Busy
  <2> HIDE DEF s
  <2>6. QED BY <1>0, <2>1, <2>3, <2>5 DEF Inv
<1>5. QED BY <1>3, <1>4 DEF Insert

LEMMA RemoveQueueKeeps ==
  ASSUME Inv, NEW t \in Thread, NEW q \in Queue, RemoveQueue(t, q)
  PROVE  Inv'
<1>1. CASE queue[t] = q
  <2>1. pc[t] \in AtWorkPc /\ Look(t, q, Uncounted(q), {})
    BY <1>1 DEF RemoveQueue, AtWorkPc
  <2>2. QED BY <1>1, <2>1, LooksAgain
<1>2. CASE queue[t] # q
  <2>1. pc[t] = "Running" /\ Look(t, q, QueuesWithout(t), HandedBy(t))
    BY <1>2 DEF RemoveQueue
  <2>2. "Waiting" \in AwayPc
    BY DEF AwayPc
  <2>3. /\ Sound(QueuesWithout(t), queue, ItemsWith(HandedBy(t)),
                 [PcWith(HandedBy(t)) EXCEPT ![t] = "Waiting"])
        /\ AllBusy(QueuesWithout(t))
    BY <2>1, <2>2, StopsRunning
  <2>4. BusyBut(QueuesWithout(t), q)
    BY <2>3 DEF BusyBut, AllBusy
  <2>5. QED BY <2>1, <2>3, <2>4, Looks
<1>3. QED BY <1>1, <1>2

LEMMA RestartKeeps ==
  ASSUME Inv, NEW t \in Thread, Restart(t)
  PROVE  Inv'
<1>1. /\ queue[t] \in Queue /\ pc[t] \in AtWorkPc
      /\ Look(t, queue[t], Uncounted(queue[t]), {})
  BY DEF Inv, Sound, HaveQueue, Restart, AtWorkPc
<1>2. QED BY <1>1, LooksAgain

LEMMA EndQueueWaitKeeps ==
  ASSUME Inv, NEW t \in Thread, EndQueueWait(t)
  PROVE  Inv'
<1> DEFINE q == queue[t]
           w == RemoveFirst(kqueue[q].waiters, t)
           k == [[kqueue[q] EXCEPT !.current = @ + 1] EXCEPT !.waiters = w]
<1>0. /\ Sound(kqueue, queue, item, pc) /\ AllBusy(kqueue)
      /\ kqueue \in [Queue -> KQueue] /\ reasonQueue \in [Thread -> BOOLEAN]
      /\ pc[t] = "QueueWait" /\ q \in Queue /\ q # None
      /\ kqueue[q] \in KQueue
  BY DEF Inv, Sound, Types, HaveQueue, EndQueueWait
<1>1. kqueue[q].current \in Nat
  BY <1>0, CountIsActive DEF Sound, Counts
<1>2. /\ w \in Seq(Thread) /\ IsInjective(w)
      /\ \A u : InList(w, u) <=> InList(kqueue[q].waiters, u) /\ u # t
  <2>1. /\ kqueue[q].waiters \in Seq(Thread) /\ IsInjective(kqueue[q].waiters)
        /\ InList(kqueue[q].waiters, t)
    BY <1>0 DEF KQueue, Sound, WaitersMatch
  <2>2. QED BY <2>1, RemoveListed
<1>3. /\ k \in KQueue /\ k.entries = kqueue[q].entries /\ k.waiters = w
      /\ k.current = kqueue[q].current + 1
  <2> DEFINE l == [kqueue[q] EXCEPT !.current = @ + 1]
  <2>1. /\ l \in KQueue /\ l.entries = kqueue[q].entries
        /\ l.current = kqueue[q].current + 1
    BY <1>0, <1>1, NewCount
  <2> HIDE DEF l, w
  <2>2. QED BY <1>2, <2>1, NewWaiters DEF l
<1>4. PICK next \in AtWorkPc : pc' = [pc EXCEPT ![t] = next]
  BY DEF EndQueueWait, Goto, AtWorkPc
<1>5. kqueue' = [kqueue EXCEPT ![q] = k]
  <2> DEFINE l == [kqueue[q] EXCEPT !.current = @ + 1]
  <2>1. QueuesWith(t) = [kqueue EXCEPT ![q] = l]
    BY <1>0 DEF QueuesWith, Belongs
  <2>2. /\ QueuesWith(t)[q] = l /\ l.waiters = kqueue[q].waiters
        /\ l \in KQueue
    <3>1. l \in KQueue /\ l.waiters = kqueue[q].waiters
      <4>1. kqueue[q].current + 1 \in Int
        BY <1>1
      <4> HIDE DEF q
      <4>2. QED BY <1>0, <4>1, NewCount
    <3> HIDE DEF l
    <3>2. QED BY <1>0, <2>1, <3>1, NewQueue
  <2>3. kqueue' = [QueuesWith(t) EXCEPT ![q] = [l EXCEPT !.waiters = w]]
    <3>1. kqueue' = [QueuesWith(t) EXCEPT ![q].waiters = RemoveFirst(@, t)]
      BY DEF EndQueueWait
    <3> HIDE DEF l
    <3>2. QED BY <2>2, <3>1
  <2>4. k = [l EXCEPT !.waiters = w]
    OBVIOUS
  <2> HIDE DEF l, k, w
  <2>5. QED BY <1>0, <2>1, <2>3, <2>4, NewQueueTwice
<1>6. Sound([kqueue EXCEPT ![q] = k], queue, item, [pc EXCEPT ![t] = next])
  <2> HIDE DEF k, w
  <2>1. QED BY <1>0, <1>2, <1>3, Unblocks
<1>7. AllBusy(kqueue')
  <2>1. kqueue'[q] = k /\ \A r \in Queue : r # q => kqueue'[r] = kqueue[r]
    BY <1>0, <1>5
  <2> HIDE DEF k
  <2>2. kqueue'[q].current > 0
    BY <1>1, <1>3, <2>1
  <2>3. QED BY <1>0, <2>1, <2>2 DEF AllBusy, Busy
<1>8. reasonQueue' \in [Thread -> BOOLEAN] /\ UNCHANGED <<queue, item>>
  BY <1>0 DEF EndQueueWait
<1> HIDE DEF k
<1>9. QED BY <1>4, <1>5, <1>6, <1>7, <1>8 DEF Inv

LEMMA WaitKeeps ==
  ASSUME Inv, NEW t \in Thread, Wait(t)
  PROVE  Inv'
<1>1. PICK next \in AwayPc : StopRunning(t, next)
  BY DEF Wait, AwayPc
<1>2. /\ pc[t] = "Running" /\ kqueue' = QueuesWithout(t)
      /\ pc' = [PcWith(HandedBy(t)) EXCEPT ![t] = next]
      /\ reasonQueue' \in [Thread -> BOOLEAN]
  BY <1>1, ReasonsAreBoolean DEF StopRunning
<1>3. queue' = queue /\ item' = ItemsWith(HandedBy(t))
  BY DEF Wait
<1>4. QED BY <1>2, <1>3, StopsRunning DEF Inv

LEMMA ExitKeeps ==
  ASSUME Inv, NEW t \in Thread, Exit(t)
  PROVE  Inv'
<1> DEFINE ks == QueuesWithout(t)
           is == ItemsWith(HandedBy(t))
           ps == [PcWith(HandedBy(t)) EXCEPT ![t] = "Exited"]
<1>1. /\ pc[t] = "Running" /\ kqueue' = ks /\ pc' = ps
      /\ reasonQueue' \in [Thread -> BOOLEAN]
      /\ item' = [is EXCEPT ![t] = {}] /\ queue' = [queue EXCEPT ![t] = None]
  BY ReasonsAreBoolean DEF Exit, StopRunning
<1>2. "Exited" \in AwayPc
  BY DEF AwayPc
<1>3. Sound(ks, queue, is, ps) /\ AllBusy(ks)
  BY <1>1, <1>2, StopsRunning
<1>4. ps[t] \in AwayPc
  BY <1>2 DEF PcWith
<1> HIDE DEF ks, is, ps
<1>5. Sound(ks, queue, [is EXCEPT ![t] = {}], ps)
  BY <1>3, Drops
<1>6. Sound(ks, [queue EXCEPT ![t] = None], [is EXCEPT ![t] = {}], ps)
  BY <1>4, <1>5, ChangesQueue
<1>7. QED BY <1>1, <1>3, <1>6 DEF Inv

(* The end of another wait, under the dispatcher lock. *)
LEMMA RunsAgain ==
  ASSUME Inv, NEW t \in Thread, pc[t] \in {"Waiting", "Signaled"},
         kqueue' = QueuesWith(t), Goto(t, "Running"),
         UNCHANGED <<queue, reasonQueue, item>>
  PROVE  Inv'
<1> DEFINE q == queue[t]
<1>0. /\ Sound(kqueue, queue, item, pc) /\ AllBusy(kqueue)
      /\ kqueue \in [Queue -> KQueue] /\ queue \in [Thread -> Queue \union {None}]
      /\ reasonQueue \in [Thread -> BOOLEAN]
      /\ pc' = [pc EXCEPT ![t] = "Running"]
  BY DEF Inv, Sound, Types, Goto
<1>1. CASE ~Belongs(t)
  <2>1. q = None /\ kqueue' = kqueue
    BY <1>1 DEF Belongs, QueuesWith
  <2>2. "Running" \in Pc /\ "Running" \notin {"QueueWait", "Restart"}
    BY DEF Pc
  <2>3. Sound(kqueue, queue, item, [pc EXCEPT ![t] = "Running"])
    BY <1>0, <2>1, <2>2, Moves
  <2>4. QED BY <1>0, <2>1, <2>3 DEF Inv
<1>2. CASE Belongs(t)
  <2> DEFINE k2 == [kqueue EXCEPT ![q].current = @ + 1]
  <2>1. q \in Queue /\ kqueue' = k2 /\ kqueue[q] \in KQueue
    BY <1>0, <1>2 DEF Belongs, QueuesWith
  <2>2. "Running" \in AtWorkPc /\ pc[t] \in AwayPc
    BY DEF AtWorkPc, AwayPc
  <2>3. Sound(k2, queue, item, [pc EXCEPT ![t] = "Running"])
    BY <1>0, <2>1, <2>2, Joins
  <2>4. kqueue[q].current \in Nat
    BY <1>0, <2>1, CountIsActive DEF Sound, Counts
  <2>5. k2[q].current > 0
    <3> DEFINE l == [kqueue[q] EXCEPT !.current = @ + 1]
    <3>1. k2[q] = l
      BY <1>0, <2>1
    <3>2. kqueue[q].current + 1 \in Int
      BY <2>4
    <3>3. l.current = kqueue[q].current + 1
      <4> HIDE DEF q
      <4>1. QED BY <2>1, <3>2, NewCount
    <3> HIDE DEF l, k2
    <3>4. QED BY <2>4, <3>1, <3>3
  <2>6. AllBusy(k2)
    <3>1. \A r \in Queue : r # q => k2[r] = kqueue[r]
      BY <1>0
    <3> HIDE DEF k2, q
    <3>2. QED BY <1>0, <2>5, <3>1 DEF AllBusy, Busy
  <2>7. QED BY <1>0, <2>1, <2>3, <2>6 DEF Inv
<1>3. QED BY <1>1, <1>2

LEMMA SignalGateKeeps ==
  ASSUME Inv, NEW t \in Thread, SignalGate(t)
  PROVE  Inv'
<1>1. /\ pc[t] \in AwayPc /\ "Signaled" \in AwayPc /\ "Signaled" \in Pc
      /\ pc' = [pc EXCEPT ![t] = "Signaled"]
      /\ UNCHANGED <<kqueue, queue, reasonQueue, item>>
  BY DEF SignalGate, Goto, AwayPc, Pc
<1>2. Sound(kqueue, queue, item, pc)
  BY DEF Inv
<1>3. Sound(kqueue, queue, item, [pc EXCEPT ![t] = "Signaled"])
  BY <1>1, <1>2, Moves
<1>4. QED BY <1>1, <1>3 DEF Inv

LEMMA RundownKeeps ==
  ASSUME Inv, NEW q \in Queue, Rundown(q)
  PROVE  Inv'
<1> DEFINE q2 == [t \in Thread |-> IF queue[t] = q THEN None ELSE queue[t]]
           k2 == [kqueue EXCEPT ![q] = EmptyQueue]
<1>0. /\ Sound(kqueue, queue, item, pc) /\ AllBusy(kqueue)
      /\ kqueue \in [Queue -> KQueue] /\ queue \in [Thread -> Queue \union {None}]
  BY DEF Inv, Sound, Types
<1>1. /\ \A t \in Thread : queue[t] = q => pc[t] \notin {"QueueWait", "Restart"}
      /\ kqueue' = k2 /\ queue' = q2
      /\ UNCHANGED <<reasonQueue, item, pc>>
  BY DEF Rundown
<1>2. /\ EmptyQueue \in KQueue /\ EmptyQueue.entries = <<>> /\ EmptyQueue.waiters = <<>>
      /\ EmptyQueue.current = 0
  BY DEF EmptyQueue, KQueue
<1>3. /\ k2 \in [Queue -> KQueue] /\ k2[q] = EmptyQueue
      /\ \A r \in Queue : r # q => k2[r] = kqueue[r]
  BY <1>0, <1>2
<1>4. /\ q2 \in [Thread -> Queue \union {None}]
      /\ \A t \in Thread : q2[t] = IF queue[t] = q THEN None ELSE queue[t]
  BY <1>0
<1>5. q # None /\ \A x : ~InList(<<>>, x)
  BY DEF InList
<1> HIDE DEF q2, k2
<1>6. Counts(k2, q2, pc)
  <2> SUFFICES ASSUME NEW r \in Queue
               PROVE  k2[r].current = Cardinality(ActiveIn(r, q2, pc))
    BY DEF Counts
  <2>1. CASE r = q
    <3>1. ActiveIn(r, q2, pc) = {}
      BY <1>4, <1>5, <2>1 DEF ActiveIn
    <3>2. k2[r].current = 0 /\ Cardinality(ActiveIn(r, q2, pc)) = 0
      BY <1>2, <1>3, <2>1, <3>1, FS_EmptySet
    <3>3. QED BY <3>2
  <2>2. CASE r # q
    <3>1. r # None /\ ActiveIn(r, q2, pc) = ActiveIn(r, queue, pc)
      BY <1>4, <2>2 DEF ActiveIn
    <3>2. QED BY <1>0, <1>3, <2>2, <3>1 DEF Sound, Counts
  <2>3. QED BY <2>1, <2>2
<1>7. WaitersMatch(k2, q2, pc)
  <2> SUFFICES ASSUME NEW r \in Queue
               PROVE  /\ IsInjective(k2[r].waiters)
                      /\ \A t \in Thread :
                           InList(k2[r].waiters, t) <=> q2[t] = r /\ pc[t] = "QueueWait"
    BY DEF WaitersMatch
  <2>1. CASE r = q
    <3>1. \A t \in Thread : q2[t] # q
      BY <1>4, <1>5
    <3>2. IsInjective(<<>>)
      BY DEF IsInjective
    <3>3. QED BY <1>2, <1>3, <1>5, <2>1, <3>1, <3>2
  <2>2. CASE r # q
    <3>1. r # None /\ \A t \in Thread : q2[t] = r <=> queue[t] = r
      BY <1>4, <2>2
    <3>2. QED BY <1>0, <1>3, <2>2, <3>1 DEF Sound, WaitersMatch
  <2>3. QED BY <2>1, <2>2
<1>8. HaveQueue(q2, pc)
  BY <1>0, <1>1, <1>4 DEF Sound, HaveQueue
<1>9. OnePlace(k2, item)
  <2>1. \A r \in Queue : IsInjective(k2[r].entries)
    <3>1. IsInjective(<<>>)
      BY DEF IsInjective
    <3>2. QED BY <1>0, <1>2, <1>3, <3>1 DEF Sound, OnePlace
  <2>2. \A r \in Queue : \A i : InList(k2[r].entries, i) => InList(kqueue[r].entries, i)
    BY <1>2, <1>3, <1>5
  <2>3. QED BY <1>0, <2>1, <2>2 DEF Sound, OnePlace
<1>10. AllBusy(k2)
  BY <1>0, <1>2, <1>3 DEF AllBusy, Busy
<1>11. QED BY <1>0, <1>1, <1>3, <1>4, <1>6, <1>7, <1>8, <1>9, <1>10
          DEF Inv, Sound, Types
-----------------------------------------------------------------------------
LEMMA InitInv == Init => Inv
<1> SUFFICES ASSUME Init PROVE Inv
  OBVIOUS
<1>1. /\ EmptyQueue \in KQueue /\ EmptyQueue.entries = <<>> /\ EmptyQueue.waiters = <<>>
      /\ EmptyQueue.current = 0
  BY DEF EmptyQueue, KQueue
<1>2. Types(kqueue, queue, item, pc) /\ reasonQueue \in [Thread -> BOOLEAN]
  BY <1>1 DEF Init, Types, Pc
<1>3. \A q \in Queue : kqueue[q] = EmptyQueue /\ q # None
  BY DEF Init
<1>4. \A t \in Thread : queue[t] = None /\ pc[t] = "Running" /\ item[t] = {}
  BY DEF Init
<1>5. IsInjective(<<>>) /\ \A x : ~InList(<<>>, x)
  BY DEF IsInjective, InList
<1>6. Counts(kqueue, queue, pc)
  <2>1. \A q \in Queue : ActiveIn(q, queue, pc) = {}
    BY <1>3, <1>4 DEF ActiveIn
  <2>2. QED BY <1>1, <1>3, <2>1, CountIsActive DEF Counts
<1>7. WaitersMatch(kqueue, queue, pc) /\ HaveQueue(queue, pc)
  BY <1>1, <1>3, <1>4, <1>5 DEF WaitersMatch, HaveQueue
<1>8. OnePlace(kqueue, item) /\ AllBusy(kqueue)
  BY <1>1, <1>3, <1>4, <1>5 DEF OnePlace, AllBusy, Busy
<1>9. QED BY <1>2, <1>6, <1>7, <1>8 DEF Inv, Sound

LEMMA NextInv == Inv /\ [Next]_vars => Inv'
<1> SUFFICES ASSUME Inv, [Next]_vars PROVE Inv'
  OBVIOUS
<1>1. ASSUME NEW t \in Thread, WaitSatisfied(t) PROVE Inv'
  <2>1. /\ reasonQueue' = [reasonQueue EXCEPT ![t] = FALSE]
        /\ UNCHANGED <<kqueue, queue, item, pc>>
    BY <1>1 DEF WaitSatisfied
  <2>2. reasonQueue' \in [Thread -> BOOLEAN]
    BY <2>1 DEF Inv
  <2>3. QED BY <2>1, <2>2 DEF Inv
<1>2. ASSUME NEW t \in Thread, EndWait(t) \/ CountAfterGate(t) PROVE Inv'
  BY <1>2, RunsAgain DEF EndWait, CountAfterGate
<1>3. CASE UNCHANGED vars
  BY <1>3 DEF vars, Inv
<1>4. ASSUME NEW q \in Queue,
             \/ \E i \in Item, current \in Thread \union {None} : Insert(q, i, current)
             \/ \E t \in Thread : RemoveQueue(t, q)
             \/ Rundown(q)
      PROVE  Inv'
  BY <1>4, InsertKeeps, RemoveQueueKeeps, RundownKeeps
<1>5. ASSUME NEW t \in Thread,
             \/ Restart(t) \/ EndQueueWait(t)
             \/ Wait(t) \/ WaitSatisfied(t) \/ EndWait(t)
             \/ SignalGate(t) \/ CountAfterGate(t) \/ Exit(t)
      PROVE  Inv'
  BY <1>1, <1>2, <1>5, RestartKeeps, EndQueueWaitKeeps, WaitKeeps, SignalGateKeeps, ExitKeeps
<1>6. QED BY <1>3, <1>4, <1>5 DEF Next

LEMMA InvHolds == Spec => []Inv
BY InitInv, NextInv, PTL DEF Spec

(* KiActivateWaiterQueue, KiUnwaitThread, KeRemoveQueue and KeRundownQueue *)
(* keep CurrentCount the number of threads at work for the queue, and an   *)
(* entry is on one list once or with one thread, whatever waits, timeouts, *)
(* APCs, moves and exits come in between.                                  *)
THEOREM QueuesAreConsistent == Spec => []QueuesConsistent
<1>1. Inv => QueuesConsistent
  <2> SUFFICES ASSUME Inv PROVE QueuesConsistent
    OBVIOUS
  <2>1. TypeOK
    BY DEF Inv, Sound, Types, KQueue, Pc, TypeOK
  <2>2. CountsActiveThreads
    BY DEF Inv, Sound, Counts, CountsActiveThreads, Active, ActiveIn, AtWorkPc
  <2>3. \A q \in Queue : \A i : i \in ToSet(kqueue[q].entries) <=> InList(kqueue[q].entries, i)
    <3>1. \A q \in Queue : kqueue[q].entries \in Seq(Item)
      BY DEF Inv, Sound, Types, KQueue
    <3>2. \A q \in Queue : DOMAIN kqueue[q].entries = 1..Len(kqueue[q].entries)
      BY <3>1
    <3>3. QED BY <3>2 DEF InList, ToSet
  <2>4. EntryInOnePlace
    BY <2>3 DEF Inv, Sound, OnePlace, EntryInOnePlace, Listed
  <2>5. QED BY <2>1, <2>2, <2>4 DEF QueuesConsistent
<1>2. QED BY <1>1, InvHolds, PTL

(* When KeInsertQueue leaves an entry on a queue that has waiters, and     *)
(* when a thread of the queue starts another wait or exits, there is still *)
(* a thread at work for the queue that will come back for the entry.       *)
THEOREM NoEntryIsIdle == Spec => []NoIdleEntry
<1>1. Inv => NoIdleEntry
  <2> SUFFICES ASSUME Inv, NEW q \in Queue, kqueue[q].entries # <<>>,
                      kqueue[q].waiters # <<>>
               PROVE  Active(q) # {}
    BY DEF NoIdleEntry
  <2>1. kqueue[q].current > 0 /\ kqueue[q].current = Cardinality(ActiveIn(q, queue, pc))
    BY DEF Inv, AllBusy, Busy, Sound, Counts
  <2>2. ActiveIn(q, queue, pc) # {}
    <3>1. Cardinality(ActiveIn(q, queue, pc)) # 0
      BY <2>1
    <3>2. QED BY <3>1, CountIsActive
  <2>3. QED BY <2>2 DEF Active, ActiveIn, AtWorkPc
<1>2. QED BY <1>1, InvHolds, PTL
=============================================================================
