--------------------------- MODULE RundownProofs ---------------------------
(***************************************************************************)
(* Both forms of rundown protection.                                       *)
(*                                                                         *)
(* Cache-aware, for any threads, any finite set of references and any      *)
(* number of words of any width that can count them: counts that wrap      *)
(* around, in words that are taken one by one, add up to the references    *)
(* held, and all words together implement the contract of one.             *)
(*                                                                         *)
(* With one word, for any threads and any finite set of references: the    *)
(* count in the word and the count in the wait block are the number of     *)
(* references held, so the teardown returns only when all are released,    *)
(* never leaves a thread with a pointer to a dead wait block, is never     *)
(* left without somebody to wake it, and rundown protection implements its *)
(* contract.                                                               *)
(***************************************************************************)
EXTENDS RundownProtection, RundownCacheAware, FiniteSetTheorems, WellFoundedInduction, TLAPS

Modulus == 2^Width

(* Which words are taken, in each phase of the teardown. *)
WordsTaken ==
  /\ teardown = "Idle" => \A p \in Processor : ~runRefs[p].active
  /\ teardown \in {"Marking", "Reopening", "Completing"} => index <= Number
  /\ teardown = "Marking" => \A p \in Processor : runRefs[p].active <=> p < index
  /\ teardown \in {"Publish", "Blocked", "Done", "Completing", "Completed"} =>
       \A p \in Processor : runRefs[p].active
  /\ teardown = "Reopening" =>
       \A p \in Processor :
         IF p < index THEN runRefs[p] = CountingCacheAware(0) ELSE runRefs[p].active

(* The releases in progress work on separate sets of references. *)
BatchesMatch ==
  /\ \A t \in Thread : /\ pc[t] = "Decrement" => batch[t] # {} /\ batch[t] \subseteq held
                       /\ pc[t] # "Decrement" => batch[t] = {}
  /\ \A t, u \in Thread : t # u => batch[t] \intersect batch[u] = {}

(* How many references have been counted out of the wait block. *)
CountedOut == Wrap(0 - blockCount)

(* What the counts mean: all that is ever counted together fits in a word; *)
(* once the total is published, the wait block counts the references.      *)
CountsBounded ==
  /\ teardown \in {"Marking", "Publish"} =>
       Cardinality(held) + CountedOut <= Cardinality(Ref) + acquired
  /\ teardown = "Blocked" => blockCount = Cardinality(held)
  /\ teardown \in {"Done", "Reopening", "Completing", "Completed"} => held = {}

(* Only who releases the last reference wakes the teardown, once. *)
WakesOnce ==
  /\ teardown # "Blocked" \/ held # {} => ~wakeEvent
  /\ \A t \in Thread : pc[t] = "Wake" => teardown = "Blocked" /\ held = {} /\ ~wakeEvent
  /\ \A t, u \in Thread : pc[t] = "Wake" /\ pc[u] = "Wake" => t = u

Inv ==
  /\ WordsConsistent /\ WordsTaken /\ BatchesMatch /\ CountsBounded /\ WakesOnce
-----------------------------------------------------------------------------
(* The arithmetic of words. *)
LEMMA Division ==
  ASSUME NEW M \in Nat \ {0}, NEW n \in Int
  PROVE  (n % M) \in 0..M - 1 /\ \E q \in Int : n = (n % M) + q * M
<1> DEFINE q == n \div M
<1>1. q \in Int /\ M * q <= n /\ n < M * q + M
  BY Z3
<1> HIDE DEF q
<1> DEFINE r == n - M * q
<1>2. r \in 0..M - 1 /\ n = q * M + r /\ n = r + q * M
  BY <1>1
<1> HIDE DEF r
<1>3. n % M = r
  BY <1>1, <1>2
<1>4. (n % M) \in 0..M - 1 /\ n = (n % M) + q * M
  BY <1>2, <1>3, Zenon
<1>5. QED BY <1>1, <1>4

LEMMA Remainder ==
  ASSUME NEW M \in Nat \ {0}, NEW n \in Int, NEW q \in Int, NEW r \in 0..M - 1, n = q * M + r
  PROVE  n % M = r
OBVIOUS

LEMMA Fits ==
  /\ Modulus \in Nat \ {0} /\ Cardinality(Ref) \in Nat
  /\ 2 * (Cardinality(Ref) + MaxMarking) < Modulus
<1>1. Cardinality(Ref) \in Nat
  BY FS_CardinalityType, RefAssumption
<1>2. 2^Width \in Int
  BY CacheAwareAssumption
<1>3. QED BY <1>1, <1>2, CacheAwareAssumption DEF Modulus

LEMMA WrapGives ==
  ASSUME NEW n \in Int
  PROVE  Wrap(n) \in 0..Modulus - 1 /\ \E q \in Int : n = Wrap(n) + q * Modulus
BY Division, Fits DEF Wrap, Modulus

LEMMA WrapIs ==
  ASSUME NEW n \in Int, NEW r \in 0..Modulus - 1, NEW q \in Int, n = r + q * Modulus
  PROVE  Wrap(n) = r
<1>1. n = q * Modulus + r
  BY Fits
<1>2. QED BY <1>1, Remainder, Fits DEF Wrap, Modulus
-----------------------------------------------------------------------------
(* The sum over the words. *)
IsSum(s, f) ==
  /\ s \in [0..Number -> Int] /\ s[0] = 0
  /\ \A n \in Processor : s[n] = s[n - 1] + f[n]

LEMMA SumUnique ==
  ASSUME NEW f, NEW s, NEW t, IsSum(s, f), IsSum(t, f)
  PROVE  s = t
<1> USE CacheAwareAssumption DEF Processor
<1> DEFINE D == {n \in Nat : n <= Number /\ s[n] # t[n]}
<1>1. CASE D = {}
  <2>1. \A n \in 0..Number : s[n] = t[n]
    BY <1>1
  <2>2. QED BY <2>1 DEF IsSum
<1>2. CASE D # {}
  <2>1. PICK n \in D : \A m \in D : ~(<<m, n>> \in OpToRel(<, Nat))
    BY <1>2, WFMin, NatLessThanWellFounded, D \subseteq Nat, Zenon
  <2>2. \A m \in D : ~(m < n)
    BY <2>1 DEF OpToRel
  <2>3. n # 0
    BY DEF IsSum
  <2>4. n \in Processor /\ n - 1 \in Nat /\ n - 1 < n /\ n - 1 <= Number
    BY <2>3
  <2>5. s[n - 1] = t[n - 1]
    BY <2>2, <2>4
  <2>6. s[n] = t[n]
    BY <2>4, <2>5 DEF IsSum
  <2>7. QED BY <2>6
<1>3. QED BY <1>1, <1>2

LEMMA SumExists ==
  ASSUME NEW f \in [Processor -> Int]
  PROVE  \E s : IsSum(s, f)
<1> USE CacheAwareAssumption DEF Processor
<1> DEFINE Upto(n, s) == /\ s \in [0..Number -> Int] /\ s[0] = 0
                         /\ \A m \in 1..n : s[m] = s[m - 1] + f[m]
           D == {n \in Nat : n <= Number /\ ~(\E s : Upto(n, s))}
<1>1. CASE D = {}
  <2> HIDE DEF Upto
  <2>1. \E s : Upto(Number, s)
    <3>1. Number \in Nat /\ Number <= Number
      OBVIOUS
    <3>2. ~(\E s : Upto(Number, s)) => Number \in D
      BY <3>1
    <3> QED BY <1>1, <3>2
  <2> USE DEF Upto
  <2>2. QED BY <2>1 DEF IsSum
<1>2. CASE D # {}
  <2>1. PICK n \in D : \A m \in D : ~(<<m, n>> \in OpToRel(<, Nat))
    BY <1>2, WFMin, NatLessThanWellFounded, D \subseteq Nat, Zenon
  <2>2. \A m \in D : ~(m < n)
    BY <2>1 DEF OpToRel
  <2>3. n # 0
    <3>1. Upto(0, [m \in 0..Number |-> 0])
      OBVIOUS
    <3>2. QED BY <3>1
  <2>4. n \in Processor /\ n - 1 \in Nat /\ n - 1 < n /\ n - 1 <= Number
    BY <2>3
  <2>5. PICK s : Upto(n - 1, s)
    BY <2>2, <2>4
  <2> DEFINE v == s[n - 1] + f[n]
             t == [s EXCEPT ![n] = v]
  <2>6. v \in Int /\ n \in 0..Number
    BY SMTT(30), <2>4, <2>5
  <2> HIDE DEF v
  <2>7. t \in [0..Number -> Int] /\ t[n] = v /\ \A m \in 0..Number : m # n => t[m] = s[m]
    BY <2>5, <2>6
  <2>8. t[0] = 0
    BY <2>3, <2>5, <2>7
  <2>9. ASSUME NEW m \in 1..n PROVE t[m] = t[m - 1] + f[m]
    <3>1. m - 1 \in 0..Number /\ m - 1 # n /\ m \in 0..Number
      BY <2>6
    <3>2. CASE m = n
      BY <2>7, <3>1, <3>2 DEF v
    <3>3. CASE m # n
      <4>1. m \in 1..n - 1
        BY <3>3, <2>4
      <4>2. QED BY <2>5, <2>7, <3>1, <3>3, <4>1
    <3>4. QED BY <3>2, <3>3
  <2> HIDE DEF t
  <2>10. Upto(n, t)
    BY <2>7, <2>8, <2>9
  <2>11. QED BY <2>10
<1>3. QED BY <1>1, <1>2

LEMMA SumIs ==
  ASSUME NEW f \in [Processor -> Int], NEW s, IsSum(s, f)
  PROVE  Sum(f) = s[Number] /\ Sum(f) \in Int
<1> USE CacheAwareAssumption DEF Processor
<1> DEFINE Rec(t) == [n \in 0..Number |-> IF n = 0 THEN 0 ELSE t[n - 1] + f[n]]
<1>1. s = Rec(s)
  BY DEF IsSum
<1>2. ASSUME NEW t, t = Rec(t) PROVE t = s
  <2> DEFINE D == {n \in Nat : n <= Number /\ s[n] # t[n]}
  <2>0. \A n \in 0..Number : t[n] = IF n = 0 THEN 0 ELSE t[n - 1] + f[n]
    BY <1>2
  <2>1. CASE D = {}
    <3>1. \A n \in 0..Number : s[n] = t[n]
      BY <2>1
    <3>2. DOMAIN s = 0..Number /\ s = [n \in 0..Number |-> s[n]] /\ t = [n \in 0..Number |-> t[n]]
      BY <1>1, <1>2
    <3>3. QED BY <3>1, <3>2
  <2>2. CASE D # {}
    <3>1. PICK n \in D : \A m \in D : ~(<<m, n>> \in OpToRel(<, Nat))
      BY <2>2, WFMin, NatLessThanWellFounded, D \subseteq Nat, Zenon
    <3>2. \A m \in D : ~(m < n)
      BY <3>1 DEF OpToRel
    <3>3. n # 0
      BY <2>0 DEF IsSum
    <3>4. n \in Processor /\ n \in 0..Number /\ n - 1 \in Nat /\ n - 1 < n /\ n - 1 <= Number
      BY <3>3
    <3>5. s[n - 1] = t[n - 1]
      BY <3>2, <3>4
    <3>6. s[n] = t[n]
      BY <2>0, <3>3, <3>4, <3>5 DEF IsSum
    <3>7. QED BY <3>6
  <2>3. QED BY <2>1, <2>2
<1> HIDE DEF Rec
<1>3. s = CHOOSE t : t = Rec(t)
  BY <1>1, <1>2
<1>4. Sum(f) = s[Number]
  BY <1>3, Zenon DEF Sum, Rec
<1>5. QED BY <1>4 DEF IsSum

LEMMA SumChanges ==
  ASSUME NEW f \in [Processor -> Int], NEW g \in [Processor -> Int], NEW p \in Processor,
         \A o \in Processor \ {p} : g[o] = f[o]
  PROVE  Sum(f) \in Int /\ Sum(g) = Sum(f) - f[p] + g[p]
<1> USE CacheAwareAssumption DEF Processor
<1>1. PICK s : IsSum(s, f)
  BY SumExists
<1> DEFINE d == g[p] - f[p]
           t == [n \in 0..Number |-> IF n < p THEN s[n] ELSE s[n] + d]
<1>2. d \in Int /\ p \in 1..Number /\ s \in [0..Number -> Int] /\ s[0] = 0
  BY SMTT(30), <1>1 DEF IsSum
<1>3. IsSum(t, g)
  <2>1. t \in [0..Number -> Int] /\ t[0] = 0
    BY SMTT(30), <1>2
  <2>2. ASSUME NEW n \in Processor PROVE t[n] = t[n - 1] + g[n]
    <3>0. n \in 0..Number /\ n - 1 \in 0..Number /\ n \in Nat /\ p \in Nat
      OBVIOUS
    <3>1. /\ s[n] = s[n - 1] + f[n]
          /\ s[n] \in Int /\ s[n - 1] \in Int /\ f[n] \in Int /\ g[n] \in Int
      BY <1>1, <1>2, <3>0 DEF IsSum
    <3>2. CASE n < p
      <4>1. t[n] = s[n] /\ t[n - 1] = s[n - 1] /\ g[n] = f[n]
        BY <3>0, <3>2
      <4>2. QED BY <3>1, <4>1
    <3>3. CASE n = p
      <4>1. t[n] = s[n] + d /\ t[n - 1] = s[n - 1] /\ d = g[n] - f[n]
        BY <3>0, <3>3
      <4> HIDE DEF d, t
      <4>2. QED BY SMTT(30), <1>2, <3>1, <4>1
    <3>4. CASE n > p
      <4>1. ~(n < p) /\ ~(n - 1 < p) /\ g[n] = f[n]
        BY <3>0, <3>4
      <4>2. t[n] = s[n] + d /\ t[n - 1] = s[n - 1] + d
        BY <3>0, <4>1
      <4> HIDE DEF d, t
      <4>3. QED BY SMTT(30), <1>2, <3>1, <4>1, <4>2
    <3>5. QED BY <3>0, <3>2, <3>3, <3>4
  <2>3. QED BY <2>1, <2>2 DEF IsSum
<1>4. t[Number] = s[Number] + d
  BY <1>2
<1> HIDE DEF t
<1>5. Sum(f) = s[Number] /\ Sum(f) \in Int /\ Sum(g) = t[Number]
  BY <1>1, <1>3, SumIs
<1>6. QED BY <1>4, <1>5

LEMMA SumOfZeros ==
  ASSUME NEW f \in [Processor -> Int], \A p \in Processor : f[p] = 0
  PROVE  Sum(f) = 0
<1> USE CacheAwareAssumption DEF Processor
<1>1. IsSum([n \in 0..Number |-> 0], f)
  BY DEF IsSum
<1>2. QED BY <1>1, SumIs
-----------------------------------------------------------------------------
(* Cardinalities of the finite sets of references that calls combine. *)
LEMMA Counts ==
  ASSUME NEW H \in SUBSET Ref, NEW B \in SUBSET Ref
  PROVE  /\ Cardinality(H) \in Nat /\ Cardinality(H) <= Cardinality(Ref)
         /\ Cardinality(H) = 0 <=> H = {}
         /\ B \subseteq H => Cardinality(H \ B) = Cardinality(H) - Cardinality(B)
         /\ B \intersect H = {} => Cardinality(H \union B) = Cardinality(H) + Cardinality(B)
<1>1. IsFiniteSet(H) /\ IsFiniteSet(B) /\ IsFiniteSet(Ref)
  BY FS_Subset, RefAssumption
<1>2. Cardinality(H) \in Nat /\ Cardinality(B) \in Nat /\ (Cardinality(H) = 0 <=> H = {})
  BY <1>1, FS_CardinalityType, FS_EmptySet
<1>3. Cardinality(H) <= Cardinality(Ref)
  BY <1>1, FS_Subset
<1>4. ASSUME B \subseteq H PROVE Cardinality(H \ B) = Cardinality(H) - Cardinality(B)
  <2>1. H \intersect B = B
    BY <1>4
  <2>2. Cardinality(H \ B) = Cardinality(H) - Cardinality(H \intersect B)
    BY <1>1, FS_Difference
  <2>3. QED BY <2>1, <2>2
<1>5. ASSUME B \intersect H = {} PROVE Cardinality(H \union B) = Cardinality(H) + Cardinality(B)
  <2>1. Cardinality(H \union B) = Cardinality(H) + Cardinality(B) - Cardinality(H \intersect B)
    BY <1>1, FS_Union
  <2>2. Cardinality(H \intersect B) = 0
    BY <1>5, FS_EmptySet
  <2>3. QED BY <1>2, <2>1, <2>2
<1>6. QED BY <1>2, <1>3, <1>4, <1>5

LEMMA SmallWrap ==
  ASSUME NEW n \in 0..Modulus - 1 PROVE Wrap(n) = n
<1>1. n = n + 0 * Modulus /\ n \in Int
  BY Fits
<1>2. QED BY <1>1, WrapIs

LEMMA Numbers ==
  ASSUME TypeOKCacheAware
  PROVE  /\ \A p \in Processor : /\ Counted(p) \in 0..Modulus - 1
                                 /\ runRefs[p].count \in 0..Modulus - 1
         /\ [p \in Processor |-> Counted(p)] \in [Processor -> Int]
         /\ InWords \in Int
         /\ total \in 0..Modulus - 1 /\ blockCount \in 0..Modulus - 1
         /\ CountedOut \in 0..Modulus - 1
         /\ \E q \in Int : 0 - blockCount = CountedOut + q * Modulus
         /\ Taken \in Int /\ InBlock \in Int
<1>1. \A p \in Processor : /\ runRefs[p].count \in 0..Modulus - 1
                           /\ runRefs[p].active \in BOOLEAN
  BY DEF TypeOKCacheAware, WordCacheAware, Modulus
<1>2. \A p \in Processor : Counted(p) \in 0..Modulus - 1
  BY <1>1, Fits DEF Counted
<1>3. [p \in Processor |-> Counted(p)] \in [Processor -> Int]
  BY <1>2
<1>4. InWords \in Int
  BY <1>3, SumExists, SumIs DEF InWords
<1>5. total \in 0..Modulus - 1 /\ blockCount \in 0..Modulus - 1
  BY DEF TypeOKCacheAware, Modulus
<1>6. CountedOut \in 0..Modulus - 1 /\ \E q \in Int : 0 - blockCount = CountedOut + q * Modulus
  <2>1. 0 - blockCount \in Int
    BY <1>5
  <2>2. QED BY <2>1, WrapGives DEF CountedOut
<1>7. Taken \in Int /\ InBlock \in Int
  BY <1>5 DEF Taken, InBlock
<1>8. QED BY <1>1, <1>2, <1>3, <1>4, <1>5, <1>6, <1>7

LEMMA HeldFits ==
  ASSUME TypeOKCacheAware
  PROVE  Cardinality(held) \in Nat /\ 2 * Cardinality(held) \in 0..Modulus - 1
<1>1. Cardinality(held) \in Nat /\ Cardinality(held) <= Cardinality(Ref)
  BY Counts DEF TypeOKCacheAware
<1>2. QED BY <1>1, Fits, CacheAwareAssumption

(* One word changes, or none, or all that are not taken are empty. *)
LEMMA WordChanges ==
  ASSUME TypeOKCacheAware, TypeOKCacheAware', NEW p \in Processor,
         \A o \in Processor \ {p} : runRefs'[o] = runRefs[o]
  PROVE  InWords' = InWords - Counted(p) + Counted(p)'
<1> DEFINE f == [o \in Processor |-> Counted(o)]
           g == [o \in Processor |-> Counted(o)']
<1>1. f \in [Processor -> Int] /\ g \in [Processor -> Int]
  <2>1. \A o \in Processor : runRefs'[o].count \in 0..Modulus - 1
    BY DEF TypeOKCacheAware, WordCacheAware, Modulus
  <2>2. \A o \in Processor : Counted(o)' \in Int
    BY <2>1, Fits DEF Counted
  <2>3. QED BY <2>2, Numbers
<1>2. \A o \in Processor \ {p} : g[o] = f[o]
  BY DEF Counted
<1>3. Sum(g) = Sum(f) - f[p] + g[p]
  BY <1>1, <1>2, SumChanges, Zenon
<1>4. QED BY <1>3 DEF InWords

LEMMA SameWords ==
  ASSUME UNCHANGED runRefs PROVE InWords' = InWords
BY DEF InWords, Counted

LEMMA NoWords ==
  ASSUME TypeOKCacheAware, \A p \in Processor : runRefs[p].active \/ runRefs[p] = CountingCacheAware(0)
  PROVE  InWords = 0
<1>1. Wrap(0) = 0
  BY SmallWrap, Fits
<1>2. \A p \in Processor : Counted(p) = 0
  BY <1>1 DEF Counted, CountingCacheAware
<1>3. QED BY <1>2, Numbers, SumOfZeros DEF InWords

LEMMA CountingIsWord == \A n \in Int : CountingCacheAware(n) \in WordCacheAware
<1>1. ASSUME NEW n \in Int PROVE Wrap(n) \in 0..(2^Width - 1)
  BY WrapGives DEF Modulus
<1>2. QED BY <1>1 DEF CountingCacheAware, WordCacheAware

(* Whatever a step counts in or out, modulo the size of a word. *)
LEMMA Accounted ==
  ASSUME TypeOKCacheAware, TypeOKCacheAware', CountsAddUp, NEW q \in Int,
         (InWords + Taken + 2 * InBlock)'
           = InWords + Taken + 2 * InBlock + 2 * (Cardinality(held') - Cardinality(held)) + q * Modulus
  PROVE  CountsAddUp'
<1>1. /\ Cardinality(held) \in Nat /\ Cardinality(held') \in Nat
      /\ Cardinality(held') <= Cardinality(Ref)
  BY Counts DEF TypeOKCacheAware
<1>2. Cardinality(held') <= Cardinality(Ref) + MaxMarking
  BY <1>1, Fits, CacheAwareAssumption
<1>3. PICK x \in Int : x = InWords + Taken + 2 * InBlock
  BY Numbers
<1>4. PICK h \in Int, k \in Nat : h = Cardinality(held) /\ k = Cardinality(held')
  BY <1>1
<1>5. PICK y \in Int : y = x + 2 * (k - h) + q * Modulus
  BY Fits
<1>6. Wrap(y) = 2 * k
  <2>1. Wrap(x) = 2 * h
    BY <1>3, <1>4 DEF CountsAddUp
  <2>2. PICK r \in Int : x = 2 * h + r * Modulus
    BY <2>1, WrapGives
  <2>3. y = 2 * k + (r + q) * Modulus /\ r + q \in Int
    BY <1>5, <2>2, Fits
  <2>4. 2 * k \in 0..Modulus - 1
    BY <1>2, <1>4, Fits, CacheAwareAssumption
  <2>5. QED BY <2>3, <2>4, WrapIs
<1>7. (InWords + Taken + 2 * InBlock)' = y
  BY <1>3, <1>4, <1>5
<1>8. Wrap((InWords + Taken + 2 * InBlock)') = 2 * Cardinality(held')
  BY <1>4, <1>6, <1>7
<1>9. QED BY <1>8 DEF CountsAddUp
-----------------------------------------------------------------------------
LEMMA InitInv == InitCacheAware => Inv
<1> SUFFICES ASSUME InitCacheAware PROVE Inv
  OBVIOUS
<1>0. Cardinality({}) = 0 /\ Wrap(0) = 0 /\ 0 \in 0..Modulus - 1
  BY FS_EmptySet, SmallWrap, Fits
<1>1. TypeOKCacheAware
  <2>1. CountingCacheAware(0) \in WordCacheAware
    BY <1>0 DEF CountingCacheAware, WordCacheAware, Modulus
  <2>2. wakeEvent \in BOOLEAN
    BY Zenon DEF InitCacheAware
  <2>3. QED BY <1>0, <2>1, <2>2, CacheAwareAssumption DEF InitCacheAware, TypeOKCacheAware,
    Modulus
<1>2. CountsAddUp
  <2>1. \A p \in Processor : runRefs[p] = CountingCacheAware(0)
    BY DEF InitCacheAware
  <2>2. InWords = 0 /\ Taken = 0 /\ InBlock = 0
    BY <1>1, <2>1, NoWords DEF InitCacheAware, Taken, InBlock
  <2>3. held = {}
    BY DEF InitCacheAware
  <2>4. QED BY <1>0, <2>2, <2>3 DEF CountsAddUp
<1>3. WordsTaken /\ BatchesMatch /\ CountsBounded /\ WakesOnce /\ WaitBlockInUseCacheAware
  BY DEF InitCacheAware, WordsTaken, BatchesMatch, CountsBounded, WakesOnce,
    WaitBlockInUseCacheAware, CountingCacheAware
<1>4. QED BY <1>1, <1>2, <1>3 DEF Inv, WordsConsistent

LEMMA StutterInv == Inv /\ UNCHANGED varsCacheAware => Inv'
<1> SUFFICES ASSUME Inv, UNCHANGED varsCacheAware PROVE Inv'
  OBVIOUS
<1> USE DEF varsCacheAware, threadVarsCacheAware, tearVarsCacheAware
<1>1. CountsAddUp'
  BY SameWords DEF Inv, WordsConsistent, CountsAddUp, Taken, InBlock
<1>2. QED BY <1>1 DEF Inv, WordsConsistent, TypeOKCacheAware, WaitBlockInUseCacheAware,
  WordsTaken, BatchesMatch, CountsBounded, CountedOut, WakesOnce

(* A count is added to a word. *)
LEMMA Recounted ==
  ASSUME TypeOKCacheAware, NEW p \in Processor, NEW n \in Int, ~runRefs[p].active,
         runRefs' = [runRefs EXCEPT ![p] = CountingCacheAware(@.count + n)]
  PROVE  /\ runRefs' \in [Processor -> WordCacheAware] /\ ~runRefs'[p].active
         /\ \A o \in Processor \ {p} : runRefs'[o] = runRefs[o]
         /\ TypeOKCacheAware' => \E q \in Int : InWords' = InWords + n + q * Modulus
<1> DEFINE w == runRefs[p].count
           v == Wrap(w + n)
<1>1. w \in 0..Modulus - 1 /\ w + n \in Int /\ InWords \in Int
  BY Numbers, Fits
<1>2. /\ CountingCacheAware(w + n) \in WordCacheAware
      /\ CountingCacheAware(w + n) = [active |-> FALSE, count |-> v]
  BY <1>1, CountingIsWord DEF CountingCacheAware
<1>3. PICK r \in Int : w + n = v + r * Modulus /\ v \in 0..Modulus - 1
  BY <1>1, WrapGives
<1>4. runRefs' = [runRefs EXCEPT ![p] = CountingCacheAware(w + n)]
  OBVIOUS
<1>5. Counted(p) = w
  BY DEF Counted
<1> HIDE DEF v, w
<1>6. /\ runRefs' \in [Processor -> WordCacheAware] /\ ~runRefs'[p].active /\ runRefs'[p].count = v
      /\ \A o \in Processor \ {p} : runRefs'[o] = runRefs[o]
  BY <1>2, <1>4 DEF TypeOKCacheAware
<1>7. ASSUME TypeOKCacheAware' PROVE InWords' = InWords + n + (-r) * Modulus /\ -r \in Int
  <2>1. InWords' = InWords - w + v
    BY <1>5, <1>6, <1>7, WordChanges DEF Counted
  <2>2. v = w + n + (-r) * Modulus /\ -r \in Int
    BY <1>1, <1>3, Fits
  <2>3. QED BY <1>1, <1>3, <2>1, <2>2, Fits
<1>8. QED BY <1>6, <1>7

(* An acquired reference is counted in the word of its processor. *)
LEMMA AcquireKeeps ==
  ASSUME Inv, NEW t \in Thread, NEW p \in Processor, NEW S \in SUBSET Ref, Acquire(t, p, S)
  PROVE  Inv'
<1> DEFINE n == Cardinality(S)
<1>1. /\ pc[t] = "Idle" /\ ~runRefs[p].active /\ S # {} /\ S \intersect held = {}
      /\ runRefs' = [runRefs EXCEPT ![p] = CountingCacheAware(@.count + 2 * n)]
      /\ held' = held \union S
      /\ teardown # "Reopening"
      /\ acquired' = acquired + (IF teardown = "Marking" THEN n ELSE 0) /\ acquired' <= MaxMarking
      /\ UNCHANGED <<blockCount, wakeEvent, pc, batch, teardown, index, total>>
  BY DEF Acquire, threadVarsCacheAware
<1>2. /\ n \in Nat /\ Cardinality(held) \in Nat /\ Cardinality(held') \in Nat
      /\ Cardinality(held') = Cardinality(held) + n /\ Cardinality(held') <= Cardinality(Ref)
      /\ held' \in SUBSET Ref
  <2>1. held \in SUBSET Ref /\ held' \in SUBSET Ref
    BY <1>1 DEF Inv, WordsConsistent, TypeOKCacheAware
  <2>2. QED BY <1>1, <2>1, Counts
<1> HIDE DEF n
<1>3. 2 * n \in Int
  BY <1>2
<1>4. /\ runRefs' \in [Processor -> WordCacheAware] /\ ~runRefs'[p].active
      /\ \A o \in Processor \ {p} : runRefs'[o] = runRefs[o]
  BY <1>1, <1>3, Recounted DEF Inv, WordsConsistent
<1>5. TypeOKCacheAware'
  BY <1>1, <1>2, <1>4, CacheAwareAssumption DEF Inv, WordsConsistent, TypeOKCacheAware
<1>6. CountsAddUp'
  <2>1. PICK q \in Int : InWords' = InWords + 2 * n + q * Modulus
    BY <1>1, <1>3, <1>5, Recounted DEF Inv, WordsConsistent
  <2>2. Taken' = Taken /\ InBlock' = InBlock
    BY <1>1 DEF Taken, InBlock
  <2>3. InWords \in Int /\ Taken \in Int /\ InBlock \in Int
    BY Numbers DEF Inv, WordsConsistent
  <2>4. (InWords + Taken + 2 * InBlock)'
          = InWords + Taken + 2 * InBlock + 2 * (Cardinality(held') - Cardinality(held)) + q * Modulus
    BY <1>2, <2>1, <2>2, <2>3, Fits
  <2>5. QED BY <1>5, <2>4, Accounted DEF Inv, WordsConsistent
<1>7. WordsTaken'
  BY <1>1, <1>4 DEF Inv, WordsTaken
<1>8. BatchesMatch' /\ WaitBlockInUseCacheAware'
  BY <1>1 DEF Inv, WordsConsistent, BatchesMatch, WaitBlockInUseCacheAware
<1>9. teardown \in {"Idle", "Marking"}
  BY <1>1 DEF Inv, WordsConsistent, TypeOKCacheAware, WordsTaken
<1>10. CountsBounded'
  BY <1>1, <1>2, <1>9, Numbers, Fits DEF Inv, WordsConsistent, TypeOKCacheAware, CountsBounded,
    CountedOut
<1>11. WakesOnce'
  BY <1>1, <1>9 DEF Inv, WakesOnce
<1>12. QED BY <1>5, <1>6, <1>7, <1>8, <1>10, <1>11 DEF Inv, WordsConsistent

(* A reference is released in a word that is not taken, maybe another than *)
(* the one it was acquired in.                                             *)
LEMMA ReleaseInWordKeeps ==
  ASSUME Inv, NEW t \in Thread, NEW p \in Processor, NEW S \in SUBSET Ref, Release(t, p, S),
         ~runRefs[p].active
  PROVE  Inv'
<1> DEFINE n == Cardinality(S)
<1>1. /\ S # {} /\ S \subseteq held /\ S \intersect InProgress = {}
      /\ runRefs' = [runRefs EXCEPT ![p] = CountingCacheAware(@.count - 2 * n)]
      /\ held' = held \ S
      /\ UNCHANGED <<blockCount, wakeEvent, pc, batch, teardown, index, total, acquired>>
  BY DEF Release, threadVarsCacheAware, tearVarsCacheAware
<1>2. /\ n \in Nat /\ Cardinality(held) \in Nat /\ Cardinality(held') \in Nat
      /\ Cardinality(held') = Cardinality(held) - n
      /\ held' \in SUBSET Ref
  <2>1. held \in SUBSET Ref /\ held' \in SUBSET Ref
    BY <1>1 DEF Inv, WordsConsistent, TypeOKCacheAware
  <2>2. QED BY <1>1, <2>1, Counts
<1>3. teardown \in {"Idle", "Marking"}
  BY <1>1 DEF Inv, WordsConsistent, TypeOKCacheAware, WordsTaken, CountsBounded
<1> HIDE DEF n
<1>4. /\ -(2 * n) \in Int
      /\ runRefs' = [runRefs EXCEPT ![p] = CountingCacheAware(@.count + (-(2 * n)))]
  <2>1. runRefs[p].count \in Int
    BY Numbers, Fits DEF Inv, WordsConsistent
  <2>2. runRefs[p].count - 2 * n = runRefs[p].count + (-(2 * n))
    BY <1>2, <2>1
  <2>3. runRefs' = [runRefs EXCEPT ![p] = CountingCacheAware(@.count + (-(2 * n)))]
    BY <1>1, <2>2, Zenon
  <2>4. QED BY <1>2, <2>3
<1>5. /\ runRefs' \in [Processor -> WordCacheAware] /\ ~runRefs'[p].active
      /\ \A o \in Processor \ {p} : runRefs'[o] = runRefs[o]
  BY <1>4, Recounted DEF Inv, WordsConsistent
<1>6. TypeOKCacheAware'
  BY <1>1, <1>2, <1>5 DEF Inv, WordsConsistent, TypeOKCacheAware
<1>7. CountsAddUp'
  <2>1. PICK q \in Int : InWords' = InWords + (-(2 * n)) + q * Modulus
    BY <1>4, <1>6, Recounted DEF Inv, WordsConsistent
  <2>2. Taken' = Taken /\ InBlock' = InBlock
    BY <1>1 DEF Taken, InBlock
  <2>3. InWords \in Int /\ Taken \in Int /\ InBlock \in Int
    BY Numbers DEF Inv, WordsConsistent
  <2>4. (InWords + Taken + 2 * InBlock)'
          = InWords + Taken + 2 * InBlock + 2 * (Cardinality(held') - Cardinality(held)) + q * Modulus
    BY <1>2, <2>1, <2>2, <2>3, Fits
  <2>5. QED BY <1>6, <2>4, Accounted DEF Inv, WordsConsistent
<1>8. WordsTaken'
  BY <1>1, <1>3, <1>5 DEF Inv, WordsTaken
<1>9. BatchesMatch' /\ WaitBlockInUseCacheAware'
  <2>1. \A u \in Thread : batch[u] \intersect S = {}
    BY <1>1 DEF InProgress
  <2>2. QED BY <1>1, <2>1 DEF Inv, WordsConsistent, BatchesMatch, WaitBlockInUseCacheAware
<1>10. CountsBounded'
  BY <1>1, <1>2, <1>3, Numbers, Fits DEF Inv, WordsConsistent, TypeOKCacheAware, CountsBounded,
    CountedOut
<1>11. WakesOnce'
  BY <1>1, <1>3 DEF Inv, WakesOnce
<1>12. QED BY <1>6, <1>7, <1>8, <1>9, <1>10, <1>11 DEF Inv, WordsConsistent

(* A word that is taken sends the releasing thread to the wait block, which *)
(* is in use since a reference is held.                                    *)
LEMMA ReleaseInBlockKeeps ==
  ASSUME Inv, NEW t \in Thread, NEW p \in Processor, NEW S \in SUBSET Ref, Release(t, p, S),
         runRefs[p].active
  PROVE  Inv'
<1>1. /\ pc[t] = "Idle" /\ S # {} /\ S \subseteq held /\ S \intersect InProgress = {}
      /\ pc' = [pc EXCEPT ![t] = "Decrement"] /\ batch' = [batch EXCEPT ![t] = S]
      /\ UNCHANGED <<runRefs, held, blockCount, wakeEvent, teardown, index, total, acquired>>
  BY DEF Release, tearVarsCacheAware
<1>2. /\ pc'[t] = "Decrement" /\ batch'[t] = S
      /\ \A u \in Thread \ {t} : pc'[u] = pc[u] /\ batch'[u] = batch[u]
      /\ \A u \in Thread : batch[u] \intersect S = {}
  BY <1>1 DEF Inv, WordsConsistent, TypeOKCacheAware, InProgress
<1>3. TypeOKCacheAware'
  BY <1>1 DEF Inv, WordsConsistent, TypeOKCacheAware
<1>4. CountsAddUp' /\ WordsTaken' /\ CountsBounded'
  BY <1>1, SameWords DEF Inv, WordsConsistent, CountsAddUp, Taken, InBlock, WordsTaken,
    CountsBounded, CountedOut
<1>5. BatchesMatch' /\ WakesOnce'
  BY <1>1, <1>2 DEF Inv, BatchesMatch, WakesOnce
<1>6. WaitBlockInUseCacheAware'
  <2>1. teardown \in {"Marking", "Publish", "Blocked"}
    BY <1>1 DEF Inv, WordsConsistent, TypeOKCacheAware, WordsTaken, CountsBounded
  <2>2. QED BY <1>1, <1>2, <2>1 DEF Inv, WordsConsistent, WaitBlockInUseCacheAware
<1>7. QED BY <1>3, <1>4, <1>5, <1>6 DEF Inv, WordsConsistent

(* The wait block loses references, before or after the total is added. *)
LEMMA DecrementKeeps ==
  ASSUME Inv, NEW t \in Thread, Decrement(t)
  PROVE  Inv'
<1> DEFINE S == batch[t]
           n == Cardinality(S)
           h == Cardinality(held)
<1>1. /\ pc[t] = "Decrement"
      /\ blockCount' = Wrap(blockCount - n)
      /\ held' = held \ S
      /\ pc' = [pc EXCEPT ![t] = IF blockCount' = 0 THEN "Wake" ELSE "Idle"]
      /\ batch' = [batch EXCEPT ![t] = {}]
      /\ UNCHANGED <<runRefs, wakeEvent, teardown, index, total, acquired>>
  BY DEF Decrement, tearVarsCacheAware
<1>2. /\ S # {} /\ S \subseteq held /\ S \in SUBSET Ref /\ held \in SUBSET Ref /\ held' \in SUBSET Ref
      /\ \A u \in Thread \ {t} : batch[u] \intersect S = {}
  BY <1>1 DEF Inv, WordsConsistent, TypeOKCacheAware, BatchesMatch
<1>3. /\ n \in Nat /\ n # 0 /\ h \in Nat /\ h <= Cardinality(Ref)
      /\ Cardinality(held') = h - n /\ Cardinality(held') \in Nat
      /\ Cardinality(held') = 0 <=> held' = {}
  BY <1>1, <1>2, Counts
<1>4. /\ pc'[t] = IF blockCount' = 0 THEN "Wake" ELSE "Idle"
      /\ batch'[t] = {}
      /\ \A u \in Thread \ {t} : pc'[u] = pc[u] /\ batch'[u] = batch[u]
  BY <1>1 DEF Inv, WordsConsistent, TypeOKCacheAware
<1>5. teardown \in {"Marking", "Publish", "Blocked"}
  BY <1>1 DEF Inv, WordsConsistent, WaitBlockInUseCacheAware
<1> HIDE DEF S, n, h
<1>6. /\ blockCount \in 0..Modulus - 1 /\ blockCount - n \in Int
      /\ blockCount' \in 0..Modulus - 1
      /\ \E q \in Int : blockCount' = blockCount - n + q * Modulus
  <2>1. blockCount \in 0..Modulus - 1 /\ blockCount - n \in Int
    BY <1>3, Numbers, Fits DEF Inv, WordsConsistent
  <2>2. PICK r \in Int : blockCount - n = blockCount' + r * Modulus /\ blockCount' \in 0..Modulus - 1
    BY <1>1, <2>1, WrapGives
  <2>3. -r \in Int /\ r * Modulus \in Int /\ (-r) * Modulus = -(r * Modulus)
    BY Fits
  <2>4. n \in Int /\ blockCount \in Int /\ blockCount' \in Int
    BY <1>3, <2>1, <2>2, Fits
  <2>5. blockCount' = blockCount - n + (-r) * Modulus
    BY <2>2, <2>3, <2>4
  <2>6. QED BY <2>1, <2>2, <2>3, <2>5
<1>7. TypeOKCacheAware'
  BY <1>1, <1>2, <1>6 DEF Inv, WordsConsistent, TypeOKCacheAware, Modulus
<1>8. CountsAddUp'
  <2>1. PICK q \in Int : blockCount' = blockCount - n + q * Modulus
    BY <1>6
  <2>2. Taken' = Taken /\ InBlock = blockCount /\ InBlock' = blockCount' /\ InWords' = InWords
    BY <1>1, <1>5, SameWords DEF Taken, InBlock
  <2>3. InWords \in Int /\ Taken \in Int
    BY Numbers DEF Inv, WordsConsistent
  <2>4. (InWords + Taken + 2 * InBlock)'
          = InWords + Taken + 2 * InBlock + 2 * (Cardinality(held') - Cardinality(held)) + (2 * q) * Modulus
        /\ 2 * q \in Int
    BY <1>3, <1>6, <2>1, <2>2, <2>3, Fits DEF h
  <2>5. QED BY <1>7, <2>4, Accounted DEF Inv, WordsConsistent
<1>9. WordsTaken'
  BY <1>1 DEF Inv, WordsTaken
<1>10. CountsBounded' /\ (teardown # "Blocked" => blockCount' # 0)
       /\ (teardown = "Blocked" => blockCount' = Cardinality(held'))
  <2>1. CASE teardown = "Blocked"
    <3>1. blockCount - n = Cardinality(held') /\ Cardinality(held') \in 0..Modulus - 1
      BY <1>3, <2>1, Fits, CacheAwareAssumption DEF Inv, CountsBounded, h
    <3>2. blockCount' = Cardinality(held')
      BY <1>1, <3>1, SmallWrap
    <3>3. QED BY <1>1, <2>1, <3>2 DEF CountsBounded
  <2>2. CASE teardown \in {"Marking", "Publish"}
    <3>1. PICK q \in Int : blockCount' = blockCount - n + q * Modulus
      BY <1>6
    <3>2. PICK r \in Int : 0 - blockCount = CountedOut + r * Modulus
      BY Numbers DEF Inv, WordsConsistent
    <3>3. CountedOut \in 0..Modulus - 1 /\ h + CountedOut <= Cardinality(Ref) + acquired /\ acquired \in 0..MaxMarking
      BY <2>2, Numbers DEF Inv, WordsConsistent, TypeOKCacheAware, CountsBounded, h
    <3>4. n <= h
      BY <1>3
    <3>5. CountedOut + n \in 0..Modulus - 1
      BY <1>3, <3>3, <3>4, Fits, CacheAwareAssumption
    <3>6. 0 - blockCount' = (CountedOut + n) + (r - q) * Modulus /\ 0 - blockCount' \in Int /\ r - q \in Int
      BY <1>3, <1>6, <3>1, <3>2, <3>3, Fits
    <3>7. CountedOut' = CountedOut + n
      BY <3>5, <3>6, WrapIs DEF CountedOut
    <3>8. blockCount' # 0
      <4>1. Wrap(0) = 0
        BY SmallWrap, Fits
      <4>2. blockCount' = 0 => CountedOut' = 0
        BY <4>1 DEF CountedOut
      <4>3. QED BY <1>3, <3>3, <3>7, <4>2, Fits
    <3>9. Cardinality(held') + CountedOut' <= Cardinality(Ref) + acquired
      BY <1>3, <3>3, <3>7, Fits
    <3>10. QED BY <1>1, <2>2, <3>8, <3>9 DEF CountsBounded
  <2>3. QED BY <1>5, <2>1, <2>2
<1>11. BatchesMatch' /\ WaitBlockInUseCacheAware'
  <2>1. BatchesMatch'
    BY <1>1, <1>2, <1>4 DEF Inv, BatchesMatch
  <2>2. QED BY <1>1, <1>4, <1>5, <1>10, <2>1 DEF Inv, WordsConsistent, WaitBlockInUseCacheAware
<1>12. WakesOnce'
  <2>1. held # {} /\ ~wakeEvent /\ \A u \in Thread : pc[u] # "Wake"
    BY <1>2 DEF Inv, WakesOnce
  <2>2. pc'[t] = "Wake" => teardown = "Blocked" /\ held' = {}
    BY <1>3, <1>4, <1>5, <1>10
  <2>3. QED BY <1>1, <1>4, <2>1, <2>2 DEF WakesOnce
<1>13. QED BY <1>7, <1>8, <1>9, <1>10, <1>11, <1>12 DEF Inv, WordsConsistent

LEMMA WakeKeeps ==
  ASSUME Inv, NEW t \in Thread, WakeCacheAware(t)
  PROVE  Inv'
<1>1. /\ pc[t] = "Wake" /\ pc' = [pc EXCEPT ![t] = "Idle"] /\ wakeEvent' = TRUE
      /\ UNCHANGED <<runRefs, blockCount, held, batch, teardown, index, total, acquired>>
  BY DEF WakeCacheAware, tearVarsCacheAware
<1>2. /\ pc'[t] = "Idle" /\ \A u \in Thread \ {t} : pc'[u] = pc[u] /\ pc[u] # "Wake"
      /\ teardown = "Blocked" /\ held = {}
  BY <1>1 DEF Inv, WordsConsistent, TypeOKCacheAware, WakesOnce
<1>3. TypeOKCacheAware'
  BY <1>1 DEF Inv, WordsConsistent, TypeOKCacheAware
<1>4. CountsAddUp' /\ WordsTaken' /\ CountsBounded'
  BY <1>1, SameWords DEF Inv, WordsConsistent, CountsAddUp, Taken, InBlock, WordsTaken,
    CountsBounded, CountedOut
<1>5. BatchesMatch' /\ WaitBlockInUseCacheAware' /\ WakesOnce'
  BY <1>1, <1>2 DEF Inv, WordsConsistent, BatchesMatch, WaitBlockInUseCacheAware, WakesOnce
<1>6. QED BY <1>3, <1>4, <1>5 DEF Inv, WordsConsistent
-----------------------------------------------------------------------------
LEMMA BeginWaitKeeps ==
  ASSUME Inv, BeginWait
  PROVE  Inv'
<1>1. /\ teardown = "Idle" /\ teardown' = "Marking" /\ index' = 1 /\ total' = 0 /\ acquired' = 0
      /\ blockCount' = 0 /\ wakeEvent' = FALSE
      /\ UNCHANGED <<runRefs, held, pc, batch>>
  BY DEF BeginWait, threadVarsCacheAware
<1>2. TypeOKCacheAware'
  <2>1. blockCount' \in 0..(2^Width - 1) /\ total' \in 0..(2^Width - 1)
    BY <1>1, Fits DEF Modulus
  <2>2. acquired' \in 0..MaxMarking /\ index' \in 1..(Number + 1)
    BY <1>1, CacheAwareAssumption
  <2>3. wakeEvent' \in BOOLEAN
    BY <1>1, Zenon
  <2>4. QED BY <1>1, <2>1, <2>2, <2>3 DEF Inv, WordsConsistent, TypeOKCacheAware
<1>3. CountsAddUp'
  <2>1. Taken = 0 /\ InBlock = 0 /\ Taken' = 0 /\ InBlock' = 0 /\ InWords' = InWords
    BY <1>1, SameWords DEF Taken, InBlock
  <2>2. QED BY <1>1, <2>1 DEF Inv, WordsConsistent, CountsAddUp
<1>4. WordsTaken'
  BY <1>1, CacheAwareAssumption DEF Inv, WordsTaken, Processor
<1>5. BatchesMatch' /\ WaitBlockInUseCacheAware' /\ WakesOnce'
  BY <1>1 DEF Inv, WordsConsistent, BatchesMatch, WaitBlockInUseCacheAware, WakesOnce
<1>6. CountsBounded'
  <2>1. CountedOut' = 0
    <3>1. 0 - blockCount' = 0
      BY <1>1
    <3>2. Wrap(0) = 0
      BY SmallWrap, Fits
    <3>3. QED BY <3>1, <3>2, Zenon DEF CountedOut
  <2>2. Cardinality(held') \in Nat /\ Cardinality(held') <= Cardinality(Ref)
    BY <1>1, Counts DEF Inv, WordsConsistent, TypeOKCacheAware
  <2>3. QED BY <1>1, <2>1, <2>2, Fits DEF CountsBounded
<1>7. QED BY <1>2, <1>3, <1>4, <1>5, <1>6 DEF Inv, WordsConsistent

(* When nothing is counted any more the references have been released:     *)
(* what was counted in and out never comes to the size of a word.          *)
LEMMA NothingLeft ==
  ASSUME Inv, teardown \in {"Marking", "Publish"}, NEW q \in Int,
         2 * blockCount = 2 * Cardinality(held) + q * Modulus
  PROVE  held = {}
<1> DEFINE h == Cardinality(held)
           k == CountedOut
<1>1. /\ h \in Nat /\ (h = 0 <=> held = {}) /\ k \in 0..Modulus - 1
      /\ h + k <= Cardinality(Ref) + acquired /\ acquired \in 0..MaxMarking
      /\ blockCount \in 0..Modulus - 1
  BY Counts, Numbers DEF Inv, WordsConsistent, TypeOKCacheAware, CountsBounded
<1>2. PICK r \in Int : 0 - blockCount = k + r * Modulus
  BY Numbers DEF Inv, WordsConsistent
<1> HIDE DEF h, k
<1>3. 2 * (h + k) \in 0..Modulus - 1
  BY <1>1, Fits, CacheAwareAssumption
<1>4. 2 * blockCount = 2 * h + q * Modulus
  BY DEF h
<1>5. 0 = 2 * (h + k) + (q + 2 * r) * Modulus /\ q + 2 * r \in Int
  BY <1>1, <1>2, <1>4, Fits
<1>6. Wrap(0) = 2 * (h + k) /\ Wrap(0) = 0
  BY <1>3, <1>5, WrapIs, SmallWrap, Fits
<1>7. h = 0
  BY <1>1, <1>6, Fits
<1>8. QED BY <1>1, <1>7

LEMMA MarkActiveKeeps ==
  ASSUME Inv, MarkActive
  PROVE  Inv' /\ (teardown' = "Done" => held = {})
<1>0. PICK i \in Processor : i = index
  BY CacheAwareAssumption DEF MarkActive, Inv, WordsConsistent, TypeOKCacheAware, WordsTaken,
    Processor
<1> DEFINE w == runRefs[i].count
<1>1. /\ teardown = "Marking"
      /\ runRefs' = [runRefs EXCEPT ![i] = ToBlockCacheAware]
      /\ total' = Wrap(total + w)
      /\ index' = i + 1
      /\ teardown' = IF i < Number THEN "Marking"
                     ELSE IF total' # 0 THEN "Publish" ELSE "Done"
      /\ UNCHANGED <<blockCount, wakeEvent, held, pc, batch, acquired>>
  BY <1>0 DEF MarkActive, threadVarsCacheAware
<1>2. /\ i + 1 \in 1..(Number + 1) /\ ~runRefs[i].active
      /\ i < Number <=> i + 1 <= Number
  BY <1>0, <1>1, CacheAwareAssumption DEF Inv, WordsConsistent, TypeOKCacheAware, WordsTaken,
    Processor
<1>3. ToBlockCacheAware \in WordCacheAware
  BY Fits DEF ToBlockCacheAware, WordCacheAware, Modulus
<1>4. /\ runRefs' \in [Processor -> WordCacheAware] /\ runRefs'[i].active
      /\ \A o \in Processor \ {i} : runRefs'[o] = runRefs[o]
  BY <1>0, <1>1, <1>2, <1>3 DEF Inv, WordsConsistent, TypeOKCacheAware, ToBlockCacheAware
<1>5. w \in 0..Modulus - 1 /\ total \in 0..Modulus - 1 /\ total + w \in Int
  BY <1>0, <1>2, Numbers, Fits DEF Inv, WordsConsistent
<1>6. Counted(i) = w /\ Counted(i)' = 0
  BY <1>2, <1>4 DEF Counted
<1> HIDE DEF w
<1>7. total' \in 0..Modulus - 1 /\ \E q \in Int : total' = total + w + q * Modulus
  <2>1. PICK r \in Int : total + w = total' + r * Modulus /\ total' \in 0..Modulus - 1
    BY <1>1, <1>5, WrapGives
  <2>2. -r \in Int /\ r * Modulus \in Int /\ (-r) * Modulus = -(r * Modulus)
    BY Fits
  <2>3. total' \in Int /\ total \in Int /\ w \in Int
    BY <1>5, <2>1, Fits
  <2>4. total' = total + w + (-r) * Modulus
    BY <2>1, <2>2, <2>3
  <2>5. QED BY <2>1, <2>2, <2>4
<1>8. TypeOKCacheAware'
  BY <1>1, <1>2, <1>4, <1>7 DEF Inv, WordsConsistent, TypeOKCacheAware, Modulus
<1>9. InWords \in Int /\ blockCount \in Int /\ w \in Int /\ total \in Int /\ total' \in Int
  BY <1>5, <1>7, Numbers, Fits DEF Inv, WordsConsistent
<1>10. InWords' = InWords - w
  <2>1. InWords' = InWords - Counted(i) + Counted(i)'
    BY <1>0, <1>4, <1>8, WordChanges DEF Inv, WordsConsistent
  <2>2. QED BY <1>6, <1>9, <2>1
<1>11. WordsTaken'
  BY <1>0, <1>1, <1>2, <1>4, CacheAwareAssumption DEF Inv, WordsTaken, Processor
<1>12. \E q \in Int : InWords' + total' + 2 * blockCount = 2 * Cardinality(held) + q * Modulus
  <2>1. PICK q \in Int : total' = total + w + q * Modulus
    BY <1>7
  <2>2. InWords + total + 2 * blockCount \in Int
        /\ Wrap(InWords + total + 2 * blockCount) = 2 * Cardinality(held)
    BY <1>1, <1>9 DEF Inv, WordsConsistent, CountsAddUp, Taken, InBlock
  <2>3. PICK r \in Int : InWords + total + 2 * blockCount = 2 * Cardinality(held) + r * Modulus
    BY <2>2, WrapGives
  <2>4. Cardinality(held) \in Int /\ Modulus \in Int
    BY HeldFits, Fits DEF Inv, WordsConsistent
  <2>5. InWords' + total' + 2 * blockCount = 2 * Cardinality(held) + (r + q) * Modulus /\ r + q \in Int
    BY <1>9, <1>10, <2>1, <2>3, <2>4
  <2>6. QED BY <2>5
<1>13. teardown' = "Done" => held = {} /\ InWords' = 0
  <2> SUFFICES ASSUME teardown' = "Done" PROVE held = {} /\ InWords' = 0
    OBVIOUS
  <2>1. total' = 0
    BY <1>1
  <2>2. InWords' = 0
    <3>1. \A p \in Processor : runRefs'[p].active
      BY <1>11 DEF WordsTaken
    <3>2. \A p \in Processor : Counted(p)' = 0
      BY <3>1 DEF Counted
    <3>3. Sum([p \in Processor |-> Counted(p)']) = 0
      BY <3>2, SumOfZeros
    <3>4. QED BY <3>3 DEF InWords
  <2>3. PICK q \in Int : 2 * blockCount = 2 * Cardinality(held) + q * Modulus
    BY <1>9, <1>12, <2>1, <2>2
  <2>4. QED BY <1>1, <2>2, <2>3, NothingLeft
<1>14. CountsAddUp'
  <2>1. CASE teardown' = "Done"
    <3>1. InWords' = 0 /\ Taken' = 0 /\ InBlock' = 0 /\ held' = {}
      BY <1>1, <1>13, <2>1 DEF Taken, InBlock
    <3>2. Wrap(0) = 0 /\ Cardinality({}) = 0
      BY SmallWrap, Fits, FS_EmptySet
    <3>3. QED BY <3>1, <3>2 DEF CountsAddUp
  <2>2. CASE teardown' # "Done"
    <3>1. Taken' = total' /\ InBlock' = blockCount
      BY <1>1, <2>2 DEF Taken, InBlock
    <3>2. PICK q \in Int : InWords' + total' + 2 * blockCount = 2 * Cardinality(held) + q * Modulus
      BY <1>12
    <3>3. 2 * Cardinality(held) \in 0..Modulus - 1
      BY HeldFits DEF Inv, WordsConsistent
    <3>4. InWords' + total' + 2 * blockCount \in Int
      BY <1>9, <1>10
    <3>5. Wrap(InWords' + total' + 2 * blockCount) = 2 * Cardinality(held)
      BY <3>2, <3>3, <3>4, WrapIs
    <3>6. QED BY <1>1, <3>1, <3>5 DEF CountsAddUp
  <2>3. QED BY <2>1, <2>2
<1>15. BatchesMatch' /\ WaitBlockInUseCacheAware' /\ WakesOnce'
  BY <1>1, <1>13 DEF Inv, WordsConsistent, BatchesMatch, WaitBlockInUseCacheAware, WakesOnce
<1>16. CountsBounded'
  BY <1>1, <1>13 DEF Inv, CountsBounded, CountedOut
<1>17. QED BY <1>1, <1>8, <1>11, <1>13, <1>14, <1>15, <1>16 DEF Inv, WordsConsistent

(* Every word is taken, so nothing is counted in them. *)
LEMMA AllTaken ==
  ASSUME TypeOKCacheAware, \A p \in Processor : runRefs[p].active PROVE InWords = 0
BY NoWords

(* The total is what is still held, and what was counted out of the wait   *)
(* block meanwhile.                                                        *)
LEMMA AddTotalKeeps ==
  ASSUME Inv, AddTotal
  PROVE  Inv' /\ (teardown' = "Done" => held = {})
<1> DEFINE h == Cardinality(held)
           k == CountedOut
<1>1. /\ teardown = "Publish"
      /\ blockCount' = Wrap(blockCount + (total \div 2))
      /\ teardown' = IF blockCount # Wrap(-(total \div 2)) THEN "Blocked" ELSE "Done"
      /\ UNCHANGED <<runRefs, wakeEvent, held, pc, batch, index, total, acquired>>
  BY DEF AddTotal, threadVarsCacheAware
<1>2. InWords = 0
  BY <1>1, AllTaken DEF Inv, WordsConsistent, WordsTaken
<1>3. /\ h \in Nat /\ (h = 0 <=> held = {}) /\ h \in 0..Modulus - 1 /\ k \in 0..Modulus - 1
      /\ h + k <= Cardinality(Ref) + acquired /\ acquired \in 0..MaxMarking
      /\ blockCount \in 0..Modulus - 1 /\ total \in 0..Modulus - 1
  <2>1. h \in Nat /\ (h = 0 <=> held = {}) /\ 2 * h \in 0..Modulus - 1
    BY Counts, HeldFits DEF Inv, WordsConsistent, TypeOKCacheAware
  <2>2. h \in 0..Modulus - 1
    BY <2>1, Fits
  <2>3. /\ blockCount \in 0..Modulus - 1 /\ total \in 0..Modulus - 1 /\ k \in 0..Modulus - 1
    BY Numbers DEF Inv, WordsConsistent
  <2>4. acquired \in 0..MaxMarking /\ h + k <= Cardinality(Ref) + acquired
    BY <1>1 DEF Inv, WordsConsistent, TypeOKCacheAware, CountsBounded
  <2>5. QED BY <2>1, <2>2, <2>3, <2>4
<1>4. PICK r \in Int : 0 - blockCount = k + r * Modulus
  BY Numbers DEF Inv, WordsConsistent
<1>5. total + 2 * blockCount \in Int /\ Wrap(total + 2 * blockCount) = 2 * h
  <2>1. Taken = total /\ InBlock = blockCount
    BY <1>1 DEF Taken, InBlock
  <2>2. 0 + total + 2 * blockCount = total + 2 * blockCount /\ total + 2 * blockCount \in Int
    BY <1>3, Fits
  <2>3. QED BY <1>2, <2>1, <2>2 DEF Inv, WordsConsistent, CountsAddUp
<1> HIDE DEF h, k
<1>6. total = 2 * (h + k)
  <2>1. PICK q \in Int : total + 2 * blockCount = 2 * h + q * Modulus
    BY <1>5, WrapGives
  <2>2. total = 2 * (h + k) + (q + 2 * r) * Modulus /\ q + 2 * r \in Int /\ total \in Int
    BY <1>3, <1>4, <2>1, Fits
  <2>3. 2 * (h + k) \in 0..Modulus - 1
    BY <1>3, Fits, CacheAwareAssumption
  <2>4. Wrap(total) = 2 * (h + k)
    BY <2>2, <2>3, WrapIs
  <2>5. Wrap(total) = total
    BY <1>3, SmallWrap
  <2>6. QED BY <2>4, <2>5
<1>7. total \div 2 = h + k
  BY <1>3, <1>6, Fits
<1>8. blockCount' = h
  <2>1. blockCount + (h + k) = h + (0 - r) * Modulus /\ blockCount + (h + k) \in Int /\ 0 - r \in Int
    BY <1>3, <1>4, Fits
  <2>2. Wrap(blockCount + (h + k)) = h
    BY <1>3, <2>1, WrapIs
  <2>3. QED BY <1>1, <1>7, <2>2
<1>9. teardown' = "Done" => held = {}
  <2> SUFFICES ASSUME blockCount = Wrap(-(h + k)) PROVE held = {}
    BY <1>1, <1>7
  <2>1. PICK x \in Int : x = -(h + k) /\ x + (h + k) = 0
    BY <1>3, Fits
  <2>2. PICK q \in Int : x = blockCount + q * Modulus
    BY <2>1, WrapGives
  <2>3. 2 * blockCount = 2 * h + (2 * (0 - r)) * Modulus - 2 * (h + k)
        /\ blockCount = 0 - (h + k) + (0 - q) * Modulus
    BY <1>3, <1>4, <2>1, <2>2, Fits
  <2>4. h = 0 + (r - q) * Modulus /\ r - q \in Int /\ 0 \in 0..Modulus - 1 /\ h \in Int
    BY <1>3, <1>4, <2>3, Fits
  <2>5. Wrap(h) = 0 /\ Wrap(h) = h
    BY <1>3, <2>4, WrapIs, SmallWrap
  <2>6. QED BY <1>3, <2>5
<1>10. TypeOKCacheAware'
  BY <1>1, <1>3, <1>8 DEF Inv, WordsConsistent, TypeOKCacheAware, Modulus
<1>11. CountsAddUp'
  <2>1. InWords' = 0 /\ Taken' = 0 /\ InBlock' = IF teardown' = "Done" THEN 0 ELSE h
    BY <1>1, <1>2, <1>8, SameWords DEF Taken, InBlock
  <2>2. Wrap(0) = 0 /\ Wrap(2 * h) = 2 * h
    BY HeldFits, SmallWrap, Fits DEF h, Inv, WordsConsistent
  <2>3. CASE teardown' = "Done"
    <3>1. held' = {} /\ Cardinality({}) = 0
      BY <1>1, <1>9, <2>3, FS_EmptySet
    <3>2. 0 + 0 + 2 * 0 = 0 /\ 2 * 0 = 0
      OBVIOUS
    <3>3. QED BY <2>1, <2>2, <2>3, <3>1, <3>2 DEF CountsAddUp
  <2>4. CASE teardown' # "Done"
    <3>1. 0 + 0 + 2 * h = 2 * h
      BY <1>3
    <3>2. QED BY <1>1, <2>1, <2>2, <2>4, <3>1 DEF CountsAddUp, h
  <2>5. QED BY <2>3, <2>4
<1>12. WordsTaken'
  BY <1>1 DEF Inv, WordsTaken
<1>13. BatchesMatch' /\ WaitBlockInUseCacheAware' /\ WakesOnce'
  BY <1>1, <1>9 DEF Inv, WordsConsistent, BatchesMatch, WaitBlockInUseCacheAware, WakesOnce
<1>14. CountsBounded'
  BY <1>1, <1>8, <1>9 DEF CountsBounded, h
<1>15. QED BY <1>9, <1>10, <1>11, <1>12, <1>13, <1>14 DEF Inv, WordsConsistent

(* Steps of the teardown when no reference is held. *)
LEMMA IdleKeeps ==
  ASSUME Inv, held = {}, UNCHANGED <<blockCount, held, pc, batch, total, acquired>>,
         TypeOKCacheAware', WordsTaken', teardown' \notin {"Marking", "Publish", "Blocked"},
         \A p \in Processor : runRefs'[p].active \/ runRefs'[p] = CountingCacheAware(0),
         ~wakeEvent', \A t \in Thread : pc[t] # "Wake"
  PROVE  Inv'
<1>1. CountsAddUp'
  <2>1. Wrap(0) = 0 /\ Cardinality({}) = 0
    BY SmallWrap, Fits, FS_EmptySet
  <2>2. \A p \in Processor : Counted(p)' = 0
    BY <2>1 DEF Counted, CountingCacheAware
  <2>3. Sum([p \in Processor |-> Counted(p)']) = 0
    BY <2>2, SumOfZeros
  <2>4. InWords' = 0 /\ Taken' = 0 /\ InBlock' = 0
    BY <2>3 DEF InWords, Taken, InBlock
  <2>5. QED BY <2>1, <2>4 DEF CountsAddUp
<1>2. \A t \in Thread : pc[t] # "Decrement"
  BY DEF Inv, BatchesMatch
<1>3. BatchesMatch' /\ WaitBlockInUseCacheAware' /\ WakesOnce'
  BY <1>2 DEF Inv, BatchesMatch, WaitBlockInUseCacheAware, WakesOnce
<1>4. CountsBounded'
  BY DEF CountsBounded
<1>5. QED BY <1>1, <1>3, <1>4 DEF Inv, WordsConsistent

LEMMA WaitReturnsKeeps ==
  ASSUME Inv, WaitReturnsCacheAware
  PROVE  Inv' /\ held = {}
<1>1. /\ teardown = "Blocked" /\ wakeEvent /\ wakeEvent' = FALSE /\ teardown' = "Done"
      /\ UNCHANGED <<runRefs, blockCount, held, pc, batch, index, total, acquired>>
  BY DEF WaitReturnsCacheAware, threadVarsCacheAware
<1>2. held = {} /\ \A t \in Thread : pc[t] # "Wake"
  BY <1>1 DEF Inv, WakesOnce
<1>3. TypeOKCacheAware' /\ WordsTaken'
  <2>1. wakeEvent' \in BOOLEAN
    BY <1>1, Zenon
  <2>2. QED BY <1>1, <2>1 DEF Inv, WordsConsistent, TypeOKCacheAware, WordsTaken
<1>4. \A p \in Processor : runRefs'[p].active
  BY <1>1, <1>3 DEF WordsTaken
<1>5. QED BY <1>1, <1>2, <1>3, <1>4, IdleKeeps

LEMMA BeginResetKeeps ==
  ASSUME Inv, NEW to \in {"Reopening", "Completing"}, BeginReset(to)
  PROVE  Inv'
<1>1. /\ teardown \in {"Done", "Completed"} /\ teardown' = to /\ index' = 1
      /\ UNCHANGED <<runRefs, blockCount, wakeEvent, held, pc, batch, total, acquired>>
  BY DEF BeginReset, threadVarsCacheAware
<1>2. held = {} /\ ~wakeEvent /\ \A t \in Thread : pc[t] # "Wake"
  BY <1>1 DEF Inv, CountsBounded, WakesOnce
<1>3. TypeOKCacheAware'
  <2>1. index' \in 1..(Number + 1)
    BY <1>1, CacheAwareAssumption
  <2>2. QED BY <1>1, <2>1 DEF Inv, WordsConsistent, TypeOKCacheAware
<1>4. \A p \in Processor : runRefs'[p].active
  BY <1>1 DEF Inv, WordsTaken
<1>5. WordsTaken'
  BY <1>1, <1>4, CacheAwareAssumption DEF WordsTaken, Processor
<1>6. QED BY <1>1, <1>2, <1>3, <1>4, <1>5, IdleKeeps

LEMMA ResetWordKeeps ==
  ASSUME Inv, ResetWord
  PROVE  Inv'
<1>0. PICK i \in Processor : i = index
  BY CacheAwareAssumption DEF ResetWord, Inv, WordsConsistent, TypeOKCacheAware, WordsTaken,
    Processor
<1>1. /\ teardown \in {"Reopening", "Completing"}
      /\ runRefs' = [runRefs EXCEPT ![i] =
                       IF teardown = "Reopening" THEN CountingCacheAware(0) ELSE CompletedCacheAware]
      /\ index' = i + 1
      /\ teardown' = IF i < Number THEN teardown
                     ELSE IF teardown = "Reopening" THEN "Idle" ELSE "Completed"
      /\ UNCHANGED <<blockCount, wakeEvent, held, pc, batch, total, acquired>>
  BY <1>0 DEF ResetWord, threadVarsCacheAware
<1>2. held = {} /\ ~wakeEvent /\ \A t \in Thread : pc[t] # "Wake"
  BY <1>1 DEF Inv, CountsBounded, WakesOnce
<1>3. /\ CountingCacheAware(0) \in WordCacheAware /\ ~CountingCacheAware(0).active
      /\ CompletedCacheAware \in WordCacheAware /\ CompletedCacheAware.active
  <2>1. 1 <= Modulus - 1
    <3>1. Cardinality(Ref) # 0
      BY FS_EmptySet, RefAssumption, CacheAwareAssumption
    <3>2. QED BY <3>1, Fits, CacheAwareAssumption
  <2>2. /\ CompletedCacheAware \in WordCacheAware /\ CompletedCacheAware.active
        /\ ~CountingCacheAware(0).active
    BY <2>1, Fits DEF CompletedCacheAware, WordCacheAware, Modulus, CountingCacheAware
  <2>3. CountingCacheAware(0) \in WordCacheAware
    BY CountingIsWord, 0 \in Int, Zenon
  <2>4. QED BY <2>2, <2>3, Zenon
<1>4. /\ runRefs' \in [Processor -> WordCacheAware]
      /\ runRefs'[i] = IF teardown = "Reopening" THEN CountingCacheAware(0) ELSE CompletedCacheAware
      /\ \A o \in Processor \ {i} : runRefs'[o] = runRefs[o]
  BY <1>1, <1>3 DEF Inv, WordsConsistent, TypeOKCacheAware
<1>5. TypeOKCacheAware'
  BY <1>0, <1>1, <1>4, CacheAwareAssumption DEF Inv, WordsConsistent, TypeOKCacheAware,
    Processor
<1>6. WordsTaken'
  <2>1. i \in 1..Number /\ (i < Number <=> i + 1 <= Number) /\ Number \in Nat
    BY CacheAwareAssumption DEF Processor
  <2>2. CASE teardown = "Reopening"
    <3>1. /\ \A p \in Processor : IF p < i THEN runRefs[p] = CountingCacheAware(0) ELSE runRefs[p].active
          /\ runRefs'[i] = CountingCacheAware(0)
      BY <1>0, <1>4, <2>2 DEF Inv, WordsTaken
    <3>2. \A p \in Processor : IF p < i + 1 THEN runRefs'[p] = CountingCacheAware(0) ELSE runRefs'[p].active
      BY <1>4, <2>1, <3>1 DEF Processor
    <3>3. CASE i < Number
      BY <1>1, <2>1, <2>2, <3>2, <3>3 DEF WordsTaken
    <3>4. CASE ~(i < Number)
      <4>1. \A p \in Processor : runRefs'[p] = CountingCacheAware(0)
        BY <2>1, <3>2, <3>4 DEF Processor
      <4>2. QED BY <1>1, <1>3, <2>2, <3>4, <4>1 DEF WordsTaken
    <3>5. QED BY <3>3, <3>4
  <2>3. CASE teardown = "Completing"
    <3>1. \A p \in Processor : runRefs'[p].active
      BY <1>3, <1>4, <2>3 DEF Inv, WordsTaken
    <3>2. QED BY <1>1, <2>1, <2>3, <3>1 DEF WordsTaken
  <2>4. QED BY <1>1, <2>2, <2>3
<1>7. \A p \in Processor : runRefs'[p].active \/ runRefs'[p] = CountingCacheAware(0)
  <2>1. \A p \in Processor : runRefs[p].active \/ runRefs[p] = CountingCacheAware(0)
    BY <1>1 DEF Inv, WordsTaken
  <2>2. QED BY <1>1, <1>3, <1>4, <2>1
<1>8. teardown' \notin {"Marking", "Publish", "Blocked"}
  BY <1>1
<1>9. QED BY <1>1, <1>2, <1>5, <1>6, <1>7, <1>8, IdleKeeps
-----------------------------------------------------------------------------
LEMMA NextInv == Inv /\ NextCacheAware => Inv'
<1> SUFFICES ASSUME Inv, NextCacheAware PROVE Inv'
  OBVIOUS
<1>1. ASSUME NEW t \in Thread, NEW p \in Processor, NEW S \in SUBSET Ref,
             Acquire(t, p, S) \/ Release(t, p, S)
      PROVE  Inv'
  BY <1>1, AcquireKeeps, ReleaseInWordKeeps, ReleaseInBlockKeeps
<1>2. ASSUME NEW t \in Thread, Decrement(t) \/ WakeCacheAware(t) PROVE Inv'
  BY <1>2, DecrementKeeps, WakeKeeps
<1>3. ASSUME TeardownCacheAware PROVE Inv'
  BY <1>3, BeginWaitKeeps, MarkActiveKeeps, AddTotalKeeps, WaitReturnsKeeps, BeginResetKeeps,
     ResetWordKeeps DEF TeardownCacheAware
<1>4. QED BY <1>1, <1>2, <1>3 DEF NextCacheAware

LEMMA InvHolds == SpecCacheAware => []Inv
<1>1. Inv /\ [NextCacheAware]_varsCacheAware => Inv'
  BY NextInv, StutterInv
<1>2. QED BY <1>1, InitInv, PTL DEF SpecCacheAware

(* No reference is lost when it is released on another processor, or while *)
(* the words are taken one by one: at every point of the teardown the      *)
(* counts left in the words, the total and the wait block add up, modulo   *)
(* the size of a word, to the references held; and the wait block is in    *)
(* use whenever a releasing thread is about to touch it.                   *)
THEOREM WordsAreConsistent == SpecCacheAware => []WordsConsistent
<1>1. Inv => WordsConsistent
  BY DEF Inv
<1>2. QED BY <1>1, InvHolds, PTL
-----------------------------------------------------------------------------
(***************************************************************************)
(* All words together implement the contract of one: references are        *)
(* granted until the last word is taken.                                   *)
(***************************************************************************)
Open == \E p \in Processor : ~runRefs[p].active
Phase == IF Open THEN "Open" ELSE IF teardown \in {"Publish", "Blocked"} THEN "Closing" ELSE "Closed"

LEMMA StepIn ==
  ASSUME \/ /\ Phase = "Open" /\ UNCHANGED Phase
            /\ \E S \in SUBSET Ref : S \intersect held = {} /\ held' = held \union S
         \/ UNCHANGED Phase /\ \E S \in SUBSET Ref : held' = held \ S
         \/ Phase \in {"Open", "Closing"} /\ Phase' = "Closed" /\ held = {} /\ UNCHANGED held
         \/ Phase = "Open" /\ Phase' = "Closing" /\ UNCHANGED held
         \/ Phase = "Closed" /\ Phase' = "Open" /\ UNCHANGED held
         \/ UNCHANGED <<held, Phase>>
  PROVE  [ContractCacheAware!Next]_<<held, Phase>>
BY DEF ContractCacheAware!Next, ContractCacheAware!Acquire, ContractCacheAware!Release,
  ContractCacheAware!BeginTeardown, ContractCacheAware!FinishTeardown,
  ContractCacheAware!Reopen, Phase, Open
-----------------------------------------------------------------------------
LEMMA CallMaps ==
  ASSUME Inv, NEW t \in Thread,
         \/ \E p \in Processor, S \in SUBSET Ref : Acquire(t, p, S) \/ Release(t, p, S)
         \/ Decrement(t) \/ WakeCacheAware(t)
  PROVE  [ContractCacheAware!Next]_<<held, Phase>>
<1>1. ASSUME NEW p \in Processor, NEW S \in SUBSET Ref, Acquire(t, p, S)
      PROVE  [ContractCacheAware!Next]_<<held, Phase>>
  <2>1. /\ ~runRefs[p].active /\ UNCHANGED teardown
        /\ runRefs' = [runRefs EXCEPT ![p] = CountingCacheAware(@.count + 2 * Cardinality(S))]
        /\ S \intersect held = {} /\ held' = held \union S
    BY <1>1 DEF Acquire
  <2>2. ~runRefs'[p].active
    BY <2>1 DEF CountingCacheAware, Inv, WordsConsistent, TypeOKCacheAware
  <2>3. Open /\ Open'
    BY <2>1, <2>2 DEF Open
  <2>4. Phase = "Open" /\ UNCHANGED Phase
    BY <2>3 DEF Phase
  <2>5. QED BY <2>1, <2>4, StepIn
<1>2. ASSUME NEW p \in Processor, NEW S \in SUBSET Ref, Release(t, p, S)
      PROVE  [ContractCacheAware!Next]_<<held, Phase>>
  <2>1. CASE runRefs[p].active
    <3>1. UNCHANGED <<runRefs, teardown, held>>
      BY <1>2, <2>1 DEF Release, tearVarsCacheAware
    <3>2. QED BY <3>1, StepIn DEF Phase, Open
  <2>2. CASE ~runRefs[p].active
    <3>1. /\ UNCHANGED teardown /\ held' = held \ S
          /\ runRefs' = [runRefs EXCEPT ![p] = CountingCacheAware(@.count - 2 * Cardinality(S))]
      BY <1>2, <2>2 DEF Release, tearVarsCacheAware
    <3>2. ~runRefs'[p].active
      BY <3>1 DEF CountingCacheAware, Inv, WordsConsistent, TypeOKCacheAware
    <3>3. Open /\ Open'
      BY <2>2, <3>2 DEF Open
    <3>4. UNCHANGED Phase
      BY <3>3 DEF Phase
    <3>5. QED BY <3>1, <3>4, StepIn
  <2>3. QED BY <2>1, <2>2
<1>3. ASSUME Decrement(t) PROVE [ContractCacheAware!Next]_<<held, Phase>>
  <2>1. UNCHANGED <<runRefs, teardown>> /\ held' = held \ batch[t] /\ batch[t] \in SUBSET Ref
    BY <1>3 DEF Decrement, tearVarsCacheAware, Inv, WordsConsistent, TypeOKCacheAware
  <2>2. UNCHANGED Phase
    BY <2>1 DEF Phase, Open
  <2>3. QED BY <2>1, <2>2, StepIn
<1>4. ASSUME WakeCacheAware(t) PROVE [ContractCacheAware!Next]_<<held, Phase>>
  <2>1. UNCHANGED <<runRefs, teardown, held>>
    BY <1>4 DEF WakeCacheAware, tearVarsCacheAware
  <2>2. QED BY <2>1, StepIn DEF Phase, Open
<1>5. QED BY <1>1, <1>2, <1>3, <1>4

(* The last word that is taken closes the structure, at once or, while     *)
(* references are held, until the last of them is released.                *)
LEMMA TeardownMaps ==
  ASSUME Inv, Inv', TeardownCacheAware
  PROVE  [ContractCacheAware!Next]_<<held, Phase>>
<1>1. ASSUME BeginWait PROVE [ContractCacheAware!Next]_<<held, Phase>>
  <2>1. UNCHANGED <<runRefs, held>> /\ teardown = "Idle" /\ teardown' = "Marking"
    BY <1>1 DEF BeginWait
  <2>2. UNCHANGED Phase
    BY <2>1 DEF Phase, Open
  <2>3. QED BY <2>1, <2>2, StepIn
<1>2. ASSUME MarkActive PROVE [ContractCacheAware!Next]_<<held, Phase>>
  <2>1. teardown = "Marking" /\ UNCHANGED held /\ teardown' \in {"Marking", "Publish", "Done"}
    BY <1>2 DEF MarkActive
  <2>2. Open
    BY SMTT(30), <2>1, CacheAwareAssumption DEF Inv, WordsConsistent, TypeOKCacheAware, WordsTaken, Open,
      Processor
  <2>3. CASE teardown' = "Marking"
    <3>1. Open'
      BY SMTT(30), <2>3, CacheAwareAssumption DEF Inv, WordsConsistent, TypeOKCacheAware, WordsTaken,
        Open, Processor
    <3>2. QED BY <2>1, <2>2, <3>1, StepIn DEF Phase
  <2>4. CASE teardown' # "Marking"
    <3>1. ~Open'
      BY <2>1, <2>4 DEF Inv, WordsTaken, Open
    <3>2. teardown' = "Done" => held = {}
      BY <1>2, MarkActiveKeeps
    <3>3. QED BY <2>1, <2>2, <2>4, <3>1, <3>2, StepIn DEF Phase
  <2>5. QED BY <2>3, <2>4
<1>3. ASSUME AddTotal \/ WaitReturnsCacheAware PROVE [ContractCacheAware!Next]_<<held, Phase>>
  <2>1. /\ teardown \in {"Publish", "Blocked"} /\ UNCHANGED <<held, runRefs>>
        /\ teardown' \in {"Blocked", "Done"}
    BY <1>3 DEF AddTotal, WaitReturnsCacheAware
  <2>2. ~Open /\ ~Open'
    BY <2>1 DEF Inv, WordsTaken, Open
  <2>3. teardown' = "Done" => held = {}
    BY <1>3, AddTotalKeeps, WaitReturnsKeeps
  <2>4. QED BY <2>1, <2>2, <2>3, StepIn DEF Phase
<1>4. ASSUME NEW to \in {"Reopening", "Completing"}, BeginReset(to)
      PROVE  [ContractCacheAware!Next]_<<held, Phase>>
  <2>1. /\ teardown \in {"Done", "Completed"} /\ UNCHANGED <<runRefs, held>>
        /\ teardown' \in {"Reopening", "Completing"}
    BY <1>4 DEF BeginReset
  <2>2. ~Open /\ ~Open'
    BY <2>1 DEF Inv, WordsTaken, Open
  <2>3. QED BY <2>1, <2>2, StepIn DEF Phase
<1>5. ASSUME ResetWord PROVE [ContractCacheAware!Next]_<<held, Phase>>
  <2>1. /\ teardown \in {"Reopening", "Completing"} /\ UNCHANGED held
        /\ teardown' \in {"Reopening", "Completing", "Idle", "Completed"}
    BY <1>5 DEF ResetWord
  <2>2. Phase \in {"Open", "Closed"} /\ Phase' \in {"Open", "Closed"}
    BY <2>1 DEF Phase
  <2>3. Open => Open'
    <3>1. CASE teardown = "Reopening"
      <4>1. /\ runRefs' = [runRefs EXCEPT ![index] = CountingCacheAware(0)]
            /\ index \in Processor
        BY <1>5, <3>1, CacheAwareAssumption DEF ResetWord, Inv, WordsConsistent,
          TypeOKCacheAware, WordsTaken, Processor
      <4>2. PICK i \in Processor : i = index
        BY <4>1
      <4>3. ~runRefs'[i].active
        BY <4>1, <4>2 DEF CountingCacheAware, Inv, WordsConsistent, TypeOKCacheAware
      <4>4. QED BY <4>3 DEF Open
    <3>2. CASE teardown = "Completing"
      BY <3>2 DEF Inv, WordsTaken, Open
    <3>3. QED BY <2>1, <3>1, <3>2
  <2>4. CASE Open
    BY <2>1, <2>3, <2>4, StepIn DEF Phase
  <2>5. CASE ~Open
    <3>1. Phase = "Closed"
      BY <2>1, <2>5 DEF Phase
    <3>2. QED BY <2>1, <2>2, <3>1, StepIn
  <2>6. QED BY <2>4, <2>5
<1>6. QED BY <1>1, <1>2, <1>3, <1>4, <1>5 DEF TeardownCacheAware

(* A teardown of many words, taken while threads acquire and release on    *)
(* all processors, gives what a teardown of one word gives: it returns     *)
(* when no reference is left, and none is granted after that.              *)
THEOREM CacheAwareRefinement == SpecCacheAware => ImplementsContractCacheAware
<1>1. InitCacheAware => ContractCacheAware!Init
  <2> SUFFICES ASSUME InitCacheAware PROVE ContractCacheAware!Init
    OBVIOUS
  <2>1. 1 \in Processor /\ ~runRefs[1].active
    BY CacheAwareAssumption DEF InitCacheAware, Processor, CountingCacheAware
  <2>2. Open
    BY <2>1 DEF Open
  <2>3. QED BY <2>2 DEF InitCacheAware, ContractCacheAware!Init, Open
<1>2. Inv /\ Inv' /\ [NextCacheAware]_varsCacheAware => [ContractCacheAware!Next]_<<held, Phase>>
  <2> SUFFICES ASSUME Inv, Inv', [NextCacheAware]_varsCacheAware
               PROVE  [ContractCacheAware!Next]_<<held, Phase>>
    OBVIOUS
  <2>1. CASE NextCacheAware
    BY <2>1, CallMaps, TeardownMaps DEF NextCacheAware
  <2>2. CASE UNCHANGED varsCacheAware
    <3>1. UNCHANGED <<runRefs, teardown, held>>
      BY <2>2 DEF varsCacheAware, tearVarsCacheAware
    <3>2. QED BY <3>1, StepIn DEF Phase, Open
  <2>3. QED BY <2>1, <2>2
<1>3. QED BY <1>1, <1>2, InvHolds, PTL DEF SpecCacheAware, ImplementsContractCacheAware,
  ContractCacheAware!Spec, Phase, Open
-----------------------------------------------------------------------------
(***************************************************************************)
(* Rundown protection with one word.                                       *)
(***************************************************************************)
(* The word counts the references until the teardown takes it, the wait    *)
(* block counts them while the teardown thread is blocked.                 *)
OneCounts ==
  /\ ~runRef.active => /\ runRef = Counting(Cardinality(held))
                       /\ teardown \in {"Idle", "Swap"}
  /\ runRef.active => /\ runRef \in {ToBlock, Completed}
                      /\ teardown \in {"Blocked", "Done"}
  /\ teardown = "Blocked" => runRef = ToBlock /\ blockCount = Cardinality(held)
  /\ teardown = "Swap" => ~teardownValue.active

(* What the calls in progress work on. *)
OneBatches ==
  /\ \A t \in Thread :
       /\ pc[t] = "Idle" => batch[t] = {}
       /\ pc[t] = "Acquire" => batch[t] # {} /\ batch[t] \intersect held = {}
       /\ pc[t] = "Release" => batch[t] # {} /\ batch[t] \subseteq held
  /\ \A t, u \in Thread : t # u => batch[t] \intersect batch[u] = {}

OneInv ==
  /\ TypeOK
  /\ OneCounts
  /\ OneBatches
  /\ DrainedBeforeReturn
  /\ WaitBlockInUse
  /\ WakeupPending

LEMMA OneInitInv == Init => OneInv
<1>1. Cardinality({}) = 0
  BY FS_EmptySet
<1> SUFFICES ASSUME Init PROVE OneInv
  OBVIOUS
<1>2. TypeOK
  <2>1. Counting(0) \in Word
    BY DEF Word, Counting
  <2>2. wakeEvent \in BOOLEAN
    BY Zenon DEF Init
  <2>3. QED BY <2>1, <2>2 DEF Init, TypeOK
<1>3. OneCounts
  BY <1>1 DEF Init, OneCounts, Counting
<1>4. OneBatches /\ DrainedBeforeReturn /\ WaitBlockInUse /\ WakeupPending
  BY DEF Init, OneBatches, DrainedBeforeReturn, WaitBlockInUse, WakeupPending
<1>5. QED BY <1>2, <1>3, <1>4 DEF OneInv

LEMMA BeginInv ==
  ASSUME OneInv, NEW t \in Thread, BeginAcquire(t) \/ BeginRelease(t)
  PROVE  OneInv'
<1>1. PICK S \in SUBSET Ref, where \in {"Acquire", "Release"} :
        /\ Begin(t, S, where)
        /\ where = "Acquire" => S \intersect held = {}
        /\ where = "Release" => S \subseteq held
  BY DEF BeginAcquire, BeginRelease, OneInv, TypeOK
<1>2. TypeOK'
  BY <1>1 DEF Begin, OneInv, TypeOK, Word, blockVars, tearVars
<1>3. OneCounts' /\ DrainedBeforeReturn'
  BY <1>1 DEF Begin, OneInv, OneCounts, DrainedBeforeReturn, blockVars,
    tearVars
<1>4. OneBatches'
  BY <1>1 DEF Begin, OneInv, TypeOK, OneBatches, InProgress
<1>5. WaitBlockInUse'
  BY <1>1 DEF Begin, OneInv, TypeOK, WaitBlockInUse, OneCounts,
    DrainedBeforeReturn, ToBlock, Completed, blockVars, tearVars
<1>6. WakeupPending'
  BY <1>1 DEF Begin, OneInv, TypeOK, WakeupPending, blockVars, tearVars
<1>7. QED BY <1>2, <1>3, <1>4, <1>5, <1>6 DEF OneInv

LEMMA StepInv ==
  ASSUME OneInv, NEW t \in Thread, Step(t)
  PROVE  OneInv'
<1> USE DEF OneInv
<1> DEFINE b == batch[t]
<1>1. b \in SUBSET Ref /\ held \in SUBSET Ref
  BY DEF TypeOK
<1>2. /\ Cardinality(held) \in Nat /\ Cardinality(b) \in Nat
      /\ Cardinality(held) = 0 <=> held = {}
      /\ Cardinality(b) = 0 <=> b = {}
      /\ Cardinality(held \ b) \in Nat
      /\ Cardinality(held \ b) = 0 <=> held \ b = {}
      /\ b \subseteq held => Cardinality(held \ b) = Cardinality(held) - Cardinality(b)
      /\ b \intersect held = {} => Cardinality(held \union b) = Cardinality(held) + Cardinality(b)
  BY <1>1, Counts, held \ b \in SUBSET Ref
<1>3. CASE AcquireFails(t)
  BY <1>3 DEF AcquireFails, Return, TypeOK, OneCounts, OneBatches,
    DrainedBeforeReturn, WaitBlockInUse, WakeupPending, blockVars, tearVars
<1>4. CASE Retry(t) /\ pc[t] \in {"Acquire", "Release"}
  BY <1>4 DEF Retry, TypeOK, Word, OneCounts, OneBatches, DrainedBeforeReturn,
    WaitBlockInUse, WakeupPending, ToBlock, Completed, blockVars,
    tearVars
<1>5. CASE AcquireSwaps(t) /\ ~Retry(t)
  <2>1. /\ ~runRef.active /\ runRef = Counting(Cardinality(held))
        /\ runRef' = Counting(Cardinality(held')) /\ held' \in SUBSET Ref
        /\ pc[t] = "Acquire"
    <3>1. /\ pc[t] = "Acquire" /\ ~value[t].active /\ value[t] = runRef /\ held' = held \union b
          /\ runRef' = Counting(value[t].count + Cardinality(b))
      BY <1>5 DEF AcquireSwaps
    <3>2. ~runRef.active /\ runRef = Counting(Cardinality(held))
      BY <3>1 DEF OneCounts
    <3>3. value[t].count = Cardinality(held)
      BY <3>1, <3>2 DEF Counting
    <3>4. Cardinality(held') = Cardinality(held) + Cardinality(b)
      BY <1>2, <3>1 DEF OneBatches
    <3>5. QED BY <1>1, <3>1, <3>2, <3>3, <3>4
  <2>2. TypeOK' /\ OneCounts' /\ DrainedBeforeReturn'
    BY <1>1, <1>2, <1>5, <2>1, Counts DEF AcquireSwaps, Return, TypeOK, Word,
      OneCounts, DrainedBeforeReturn, Counting, blockVars, tearVars
  <2>3. OneBatches'
    BY <1>1, <1>5, <2>1 DEF AcquireSwaps, Return, TypeOK, OneBatches
  <2>4. WaitBlockInUse' /\ WakeupPending'
    BY <1>1, <1>5, <2>1 DEF AcquireSwaps, Return, TypeOK, OneCounts,
      WaitBlockInUse, WakeupPending, blockVars, tearVars
  <2>5. QED BY <2>2, <2>3, <2>4
<1>6. CASE ReleaseSwaps(t) /\ ~Retry(t)
  <2>1. /\ ~runRef.active /\ runRef = Counting(Cardinality(held))
        /\ runRef' = Counting(Cardinality(held')) /\ held' \in SUBSET Ref
        /\ pc[t] = "Release"
    <3>1. /\ pc[t] = "Release" /\ ~value[t].active /\ value[t] = runRef /\ held' = held \ b
          /\ runRef' = Counting(value[t].count - Cardinality(b))
      BY <1>6 DEF ReleaseSwaps
    <3>2. ~runRef.active /\ runRef = Counting(Cardinality(held))
      BY <3>1 DEF OneCounts
    <3>3. value[t].count = Cardinality(held)
      BY <3>1, <3>2 DEF Counting
    <3>4. Cardinality(held') = Cardinality(held) - Cardinality(b)
      BY <1>2, <3>1 DEF OneBatches
    <3>5. QED BY <1>1, <3>1, <3>2, <3>3, <3>4
  <2>2. TypeOK' /\ OneCounts' /\ DrainedBeforeReturn'
    BY <1>1, <1>2, <1>6, <2>1, Counts DEF ReleaseSwaps, Return, TypeOK, Word,
      OneCounts, DrainedBeforeReturn, Counting, blockVars, tearVars
  <2>3. OneBatches'
    BY <1>1, <1>6, <2>1 DEF ReleaseSwaps, Return, TypeOK, OneBatches
  <2>4. WaitBlockInUse' /\ WakeupPending'
    BY <1>1, <1>6, <2>1 DEF ReleaseSwaps, Return, TypeOK, OneCounts,
      WaitBlockInUse, WakeupPending, blockVars, tearVars
  <2>5. QED BY <2>2, <2>3, <2>4
<1>7. CASE ReleaseDecrements(t)
  <2>1. /\ teardown = "Blocked" /\ runRef = ToBlock /\ blockCount = Cardinality(held)
        /\ pc[t] = "Release" /\ b # {} /\ b \subseteq held /\ held # {}
    BY <1>7 DEF ReleaseDecrements, OneCounts, OneBatches, WaitBlockInUse
  <2>2. /\ blockCount' = Cardinality(held') /\ blockCount' \in Nat /\ held' \in SUBSET Ref
        /\ blockCount = Cardinality(b) <=> held' = {}
        /\ UNCHANGED <<runRef, wakeEvent, value, teardown, teardownValue>>
    BY <1>1, <1>2, <1>7, <2>1 DEF ReleaseDecrements, tearVars
  <2>3. \A u \in Thread : pc[u] # "Wake" /\ ~wakeEvent
    BY <2>1 DEF WakeupPending
  <2>4. TypeOK' /\ OneCounts' /\ DrainedBeforeReturn'
    BY <1>1, <1>7, <2>1, <2>2 DEF ReleaseDecrements, Return, TypeOK, OneCounts,
      DrainedBeforeReturn, ToBlock, Completed
  <2>5. OneBatches'
    BY <1>1, <1>7, <2>1 DEF ReleaseDecrements, Return, TypeOK, OneBatches
  <2>6. WaitBlockInUse'
    BY <1>7, <2>1, <2>2 DEF WaitBlockInUse
  <2>7. WakeupPending'
    BY <1>7, <2>1, <2>2, <2>3 DEF ReleaseDecrements, Return,
      TypeOK, WakeupPending
  <2>8. QED BY <2>4, <2>5, <2>6, <2>7
<1>8. CASE Wake(t)
  <2>1. /\ teardown = "Blocked" /\ held = {} /\ ~wakeEvent
        /\ \A u \in Thread : pc[u] = "Wake" => u = t
    BY <1>8 DEF Wake, WaitBlockInUse, WakeupPending
  <2>2. QED
    BY <1>8, <2>1 DEF Wake, Return, TypeOK, OneCounts, OneBatches,
      DrainedBeforeReturn, WaitBlockInUse, WakeupPending, blockVars,
      tearVars
<1>9. QED
  BY <1>3, <1>4, <1>5, <1>6, <1>7, <1>8 DEF Step, AcquireSwaps, ReleaseSwaps

LEMMA TeardownInv ==
  ASSUME OneInv, Teardown
  PROVE  OneInv'
<1> USE DEF OneInv
<1>1. /\ Cardinality(held) \in Nat
      /\ Cardinality(held) = 0 <=> held = {}
      /\ Cardinality({}) = 0
  BY Counts, {} \in SUBSET Ref DEF TypeOK
<1>2. ASSUME held = {}
      PROVE  \A t \in Thread : ~(pc[t] = "Release")
  BY <1>2 DEF OneBatches
<1>3. CASE WaitFast
  <2>1. /\ ~runRef.active /\ runRef = Counting(Cardinality(held))
        /\ \A t \in Thread : pc[t] # "Wake" /\ (pc[t] = "Release" => ~value[t].active)
    BY <1>3 DEF WaitFast, OneCounts, WaitBlockInUse
  <2>2. CASE runRef = Counting(0)
    <3>1. held = {}
      BY <1>1, <2>1, <2>2 DEF Counting
    <3>2. Completed \in Word /\ Completed.active
      BY DEF Completed, Word
    <3>3. QED
      BY <1>3, <2>1, <2>2, <3>1, <3>2 DEF WaitFast, TypeOK, OneCounts, OneBatches,
        DrainedBeforeReturn, WaitBlockInUse, WakeupPending, blockVars,
        threadVars
  <2>3. CASE runRef # Counting(0)
    BY <1>3, <2>1, <2>3 DEF WaitFast, TypeOK, OneCounts, OneBatches,
      DrainedBeforeReturn, WaitBlockInUse, WakeupPending, blockVars,
      threadVars
  <2>4. QED BY <2>2, <2>3
<1>4. CASE WaitSwaps
  <2>1. CASE runRef # teardownValue
    BY <1>4, <2>1 DEF WaitSwaps, TypeOK, Word, OneCounts, OneBatches,
      DrainedBeforeReturn, WaitBlockInUse, WakeupPending, blockVars,
      threadVars
  <2>2. CASE runRef = teardownValue
    <3> DEFINE n == teardownValue.count
    <3>0. runRef = Counting(Cardinality(held)) /\ n = Cardinality(held)
      BY <1>4, <2>2 DEF WaitSwaps, OneCounts, Counting
    <3>1. /\ blockCount' = Cardinality(held) /\ runRef' = ToBlock /\ wakeEvent' = FALSE
          /\ teardown' = IF held # {} THEN "Blocked" ELSE "Done"
          /\ UNCHANGED <<held, pc, batch, value, teardownValue>>
      <4>1. n > 0 <=> held # {}
        BY <1>1, <3>0
      <4>2. /\ blockCount' = n /\ runRef' = ToBlock /\ wakeEvent' = FALSE
            /\ teardown' = IF n > 0 THEN "Blocked" ELSE "Done"
            /\ UNCHANGED <<held, pc, batch, value, teardownValue>>
        BY <1>4, <2>2 DEF WaitSwaps, threadVars
      <4>3. QED BY <3>0, <4>1, <4>2
    <3>2. \A t \in Thread : pc[t] # "Wake" /\ (pc[t] = "Release" => ~value[t].active)
      BY <1>4 DEF WaitSwaps, WaitBlockInUse
    <3>3. TypeOK'
      <4>1. wakeEvent' \in BOOLEAN
        BY <3>1, Zenon
      <4>2. runRef' \in Word
        BY <3>1 DEF ToBlock, Word
      <4>3. QED BY <1>1, <3>1, <4>1, <4>2 DEF TypeOK
    <3>7. OneCounts'
      <4>1. runRef'.active
        BY <3>1 DEF ToBlock
      <4>2. QED BY <3>1, <4>1 DEF OneCounts
    <3>6. OneBatches' /\ DrainedBeforeReturn'
      BY <3>1 DEF OneBatches, DrainedBeforeReturn
    <3>4. WaitBlockInUse' /\ WakeupPending'
      BY <3>1, <3>2 DEF WaitBlockInUse, WakeupPending
    <3>5. QED BY <3>3, <3>4, <3>6, <3>7
  <2>3. QED BY <2>1, <2>2
<1>5. CASE WaitReturns
  <2>1. held = {} /\ \A t \in Thread : pc[t] # "Wake"
    BY <1>5 DEF WaitReturns, WakeupPending
  <2>2. QED
    BY <1>1, <1>2, <1>5, <2>1 DEF WaitReturns, TypeOK, OneCounts, OneBatches,
      DrainedBeforeReturn, WaitBlockInUse, WakeupPending, threadVars
<1>6. CASE RundownCompleted
  BY <1>6 DEF RundownCompleted, TypeOK, Word, OneCounts, OneBatches,
    DrainedBeforeReturn, WaitBlockInUse, WakeupPending, Completed, ToBlock,
    blockVars, threadVars, tearVars
<1>7. CASE ReInitialize
  <2>1. held = {} /\ \A t \in Thread : pc[t] # "Wake" /\ pc[t] # "Release"
    BY <1>2, <1>7 DEF ReInitialize, DrainedBeforeReturn, WaitBlockInUse
  <2>2. QED
    BY <1>1, <1>7, <2>1 DEF ReInitialize, TypeOK, Word, OneCounts, OneBatches,
      DrainedBeforeReturn, WaitBlockInUse, WakeupPending, Counting,
      ToBlock, Completed, blockVars, threadVars
<1>8. QED BY <1>3, <1>4, <1>5, <1>6, <1>7 DEF Teardown

(* The invariant is inductive. *)
LEMMA OneNextInv == OneInv /\ [Next]_vars => OneInv'
<1> SUFFICES ASSUME OneInv, [Next]_vars PROVE OneInv'
  OBVIOUS
<1>1. CASE Next
  BY <1>1, BeginInv, StepInv, TeardownInv DEF Next
<1>2. CASE UNCHANGED vars
  BY <1>2 DEF vars, OneInv, TypeOK, OneCounts, OneBatches, DrainedBeforeReturn,
    WaitBlockInUse, WakeupPending, blockVars, threadVars, tearVars
<1>3. QED BY <1>1, <1>2

(* The invariant holds in every reachable state. *)
LEMMA OneInvHolds == Spec => []OneInv
BY OneInitInv, OneNextInv, PTL DEF Spec

(* Every variable keeps its type. *)
THEOREM TypeCorrect == Spec => []TypeOK
BY OneInvHolds, PTL DEF OneInv

(* ExWaitForRundownProtectionRelease returns only when every reference has *)
(* been released.                                                          *)
THEOREM Drained == Spec => []DrainedBeforeReturn
BY OneInvHolds, PTL DEF OneInv

(* No thread follows a pointer to the wait block, or sets its event, after *)
(* the teardown thread has returned and its stack frame is gone.           *)
THEOREM BlockInUse == Spec => []WaitBlockInUse
BY OneInvHolds, PTL DEF OneInv

(* A blocked teardown thread always has somebody left to wake it. *)
THEOREM WakeupNotLost == Spec => []WakeupPending
BY OneInvHolds, PTL DEF OneInv

(* The three together, as the run of TLC checks them: a teardown waits for *)
(* every reference, is woken, and leaves nobody with its wait block.       *)
THEOREM TeardownIsSafe == Spec => []TeardownSafe
<1>1. OneInv => TeardownSafe
  BY DEF OneInv, TeardownSafe
<1>2. QED
  BY <1>1, OneInvHolds, PTL

(* Rundown protection implements its contract: no reference is granted     *)
(* once the teardown has begun, and it ends only without references.       *)
THEOREM Refinement == Spec => ImplementsContract
<1>1. Init => Contract!Init
  BY DEF Init, Contract!Init, Counting
<1>2. ASSUME OneInv, OneInv', [Next]_vars
      PROVE  [Contract!Next]_<<held, IF ~runRef.active THEN "Open"
                 ELSE IF teardown = "Done" THEN "Closed" ELSE "Closing">>
  <2> USE <1>2
  <2> DEFINE phase == IF ~runRef.active THEN "Open"
                      ELSE IF teardown = "Done" THEN "Closed" ELSE "Closing"
  <2>1. ASSUME NEW t \in Thread, Step(t)
        PROVE  Contract!Next \/ UNCHANGED <<held, phase>>
    <3>1. CASE AcquireSwaps(t) /\ ~Retry(t)
      <4>1. Contract!Acquire(batch[t])
        BY <3>1 DEF AcquireSwaps, Return, OneInv, OneBatches, Contract!Acquire,
          Counting
      <4>2. batch[t] \in SUBSET Ref
        BY DEF OneInv, TypeOK
      <4>3. QED BY <4>1, <4>2 DEF Contract!Next
    <3>2. CASE (ReleaseSwaps(t) /\ ~Retry(t)) \/ ReleaseDecrements(t)
      <4>1. held' = held \ batch[t] /\ UNCHANGED phase
        BY <3>2 DEF ReleaseSwaps, ReleaseDecrements, Return, Counting,
          tearVars
      <4>2. Contract!Release(batch[t])
        BY <4>1 DEF Contract!Release
      <4>3. batch[t] \in SUBSET Ref
        BY DEF OneInv, TypeOK
      <4>4. QED BY <4>2, <4>3 DEF Contract!Next
    <3>3. CASE Retry(t) \/ AcquireFails(t) \/ Wake(t)
      BY <3>3 DEF Retry, AcquireFails, Wake, tearVars
    <3>4. QED BY <2>1, <3>1, <3>2, <3>3 DEF Step, AcquireSwaps, ReleaseSwaps
  <2>2. ASSUME NEW t \in Thread, BeginAcquire(t) \/ BeginRelease(t)
        PROVE  UNCHANGED <<held, phase>>
    BY <2>2 DEF BeginAcquire, BeginRelease, Begin, tearVars
  <2>3. ASSUME WaitFast \/ WaitSwaps
        PROVE  Contract!Next \/ UNCHANGED <<held, phase>>
    <3>1. UNCHANGED held
      BY <2>3 DEF WaitFast, WaitSwaps
    <3>2. teardown \in {"Idle", "Swap"} /\ ~runRef.active
      BY <2>3 DEF WaitFast, WaitSwaps, OneInv, OneCounts
    <3>3. \/ ~runRef'.active
          \/ runRef'.active /\ teardown' = "Done" /\ held = {}
          \/ runRef'.active /\ teardown' = "Blocked"
      BY <2>3, <3>1 DEF WaitFast, WaitSwaps, OneInv, OneCounts, DrainedBeforeReturn
    <3>4. QED
      BY <3>1, <3>2, <3>3 DEF Contract!Next, Contract!BeginTeardown,
        Contract!FinishTeardown
  <2>4. ASSUME WaitReturns \/ RundownCompleted \/ ReInitialize
        PROVE  Contract!Next \/ UNCHANGED <<held, phase>>
    <3>1. UNCHANGED held /\ runRef.active
      BY <2>4 DEF WaitReturns, RundownCompleted, ReInitialize, OneInv, OneCounts
    <3>2. CASE WaitReturns
      BY <3>1, <3>2 DEF WaitReturns, OneInv, DrainedBeforeReturn, Contract!Next,
        Contract!FinishTeardown
    <3>3. CASE RundownCompleted
      BY <3>1, <3>3 DEF RundownCompleted, Completed, tearVars
    <3>4. CASE ReInitialize
      BY <3>1, <3>4 DEF ReInitialize, Counting, Contract!Next, Contract!Reopen
    <3>5. QED BY <2>4, <3>2, <3>3, <3>4
  <2>5. CASE UNCHANGED vars
    BY <2>5 DEF vars, tearVars
  <2>6. QED
    BY <2>1, <2>2, <2>3, <2>4, <2>5 DEF Next, Teardown
<1>3. QED
  BY <1>1, <1>2, OneInvHolds, PTL DEF Spec, ImplementsContract, Contract!Spec
=============================================================================
