--------------------------- MODULE RegistryProofs ---------------------------
(***************************************************************************)
(* Invariants of Resource and of Hive, for all values of their constants.  *)
(* The registry is where the two meet: the flusher lock that keeps changes *)
(* out of the sync of a hive is an executive resource, and so is the lock  *)
(* of the whole registry (base/ntos/config/cminit.c, cmsubs3.c).           *)
(*                                                                         *)
(* Resource.  The inductive invariant says for each owner what the table   *)
(* has for it (OwnersFit), and that the resource is in one of two phases.  *)
(* Exclusive: there is one owner and it knows, or nobody owns the resource *)
(* yet and one of three places has the news: the releasing thread that is  *)
(* to set the event, the event, or the thread that the event woke.         *)
(* Shared: ActiveCount is the number of holders, of signals in the         *)
(* semaphore, of signals that releasing threads still owe, and of woken    *)
(* threads that have not registered.  The signals owed are a number n:     *)
(* Owes(n) of Resource says so, and the invariant is that some n fits      *)
(* everything.                                                             *)
(*                                                                         *)
(* Hive.  Of two promised images, D and L, and a vector v, the inductive   *)
(* invariant says (StageFits) that the primary file certainly holds D      *)
(* while its header is complete, and that the log certainly holds the      *)
(* sectors v of L before the header of the primary may be incomplete.      *)
(* What lies on disk for certain is what maybe has for a cell, not what    *)
(* now has; a flush turns the one into the other.  A load that ends a      *)
(* recovery, and a failure that leaves the sequence numbers different, are *)
(* where D and L are not what they were before.                            *)
(***************************************************************************)
EXTENDS Resource, Hive, FiniteSetTheorems, WellFoundedInduction, TLAPS

(* A waiter whose entry is in the table before it owns the resource.       *)
WaitsRegistered(o) == o \in Thread /\ pc[o] = "WaitShared" /\ registered[o]

(* What the table has for an owner, and for a thread that owns nothing.    *)
Recorded(o) ==
  \/ first = Entry(o, held[o]) /\ table[o] = 0
  \/ table[o] = held[o] /\ first.owner # o /\ ~ownedExclusive
Unrecorded(o) ==
  /\ table[o] = IF WaitsRegistered(o) THEN 1 ELSE 0
  /\ first.owner = o => o \in Thread /\ pc[o] = "Awake"
Fits(o) ==
  /\ held[o] > 0 => /\ Recorded(o)
                    /\ o \in Thread => pc[o] \in {"Idle", "ReleaseSemaphore"}
  /\ held[o] = 0 => Unrecorded(o)
OwnersFit == \A o \in Owner : Fits(o)

Owing == \A t \in Thread : pc[t] = "ReleaseSemaphore" <=> number[t] > 0

(* Of an exclusive resource, one owner knows, or the event tells somebody. *)
NobodyTold == ~event /\ At("SetEvent") = {} /\ At("Awake") = {}
OneOwner == NobodyTold /\ \E o \in Owner : Holders = {o} /\ heldExclusive = {o}
OneTold ==
  /\ first.count = 1 /\ Holders = {} /\ heldExclusive = {}
  /\ \/ event /\ At("SetEvent") = {} /\ At("Awake") = {}
     \/ \E t \in Thread : ~event /\ At("SetEvent") = {t} /\ At("Awake") = {}
     \/ \E t \in Thread : ~event /\ At("SetEvent") = {} /\ At("Awake") = {t}

Exclusive(n) ==
  /\ ownedExclusive /\ activeCount = 1
  /\ semaphore = 0 /\ n = 0 /\ At("Register") = {}
  /\ OneOwner \/ OneTold
Shared(n) ==
  /\ ~ownedExclusive
  /\ activeCount = Cardinality(Holders) + semaphore + n + Cardinality(At("Register"))
  /\ NobodyTold /\ heldExclusive = {}
Phase(n) == Exclusive(n) \/ Shared(n)

WaitersCounted(n) ==
  /\ Cardinality(At("WaitShared")) = sharedWaiters + semaphore + n
  /\ activeCount = 0 => exclusiveWaiters = 0
  /\ sharedWaiters > 0 => ownedExclusive \/ exclusiveWaiters > 0

Rest(n) == OwnersFit /\ Owing /\ Owes(n) /\ Phase(n) /\ WaitersCounted(n)
Sound(n) == TypeOK /\ Rest(n)
Inv == \E n \in Nat : Sound(n)
-----------------------------------------------------------------------------
LEMMA Finite ==
  ASSUME NEW S, S \subseteq Owner
  PROVE  IsFiniteSet(S) /\ Cardinality(S) \in Nat /\ (Cardinality(S) = 0 <=> S = {})
<1>1. IsFiniteSet(Owner)
  BY ResourceAssumption, FS_Union DEF Owner
<1> QED
  BY <1>1, FS_Subset, FS_CardinalityType, FS_EmptySet

LEMMA CountAdd ==
  ASSUME NEW S, S \subseteq Owner, NEW x \in Owner, x \notin S
  PROVE  Cardinality(S \union {x}) = Cardinality(S) + 1
BY Finite, FS_AddElement

LEMMA CountRemove ==
  ASSUME NEW S, S \subseteq Owner, NEW x \in S
  PROVE  Cardinality(S \ {x}) = Cardinality(S) - 1
BY Finite, FS_RemoveElement

LEMMA CountOne ==
  ASSUME NEW x
  PROVE  Cardinality({x}) = 1
BY FS_Singleton

LEMMA AtSubset ==
  ASSUME NEW w
  PROVE  At(w) \subseteq Owner /\ At(w) \subseteq Thread
BY DEF At, Owner

LEMMA HoldersSubset == Holders \subseteq Owner
BY DEF Holders

(* Who is where after a thread has moved. *)
LEMMA AtGoto ==
  ASSUME TypeOK, NEW t \in Thread, NEW w, Goto(t, w), NEW x
  PROVE  /\ x = w => At(x)' = At(x) \union {t}
         /\ x # w => At(x)' = At(x) \ {t}
         /\ x # w /\ pc[t] # x => At(x)' = At(x)
<1>1. \A u \in Thread : pc'[u] = IF u = t THEN w ELSE pc[u]
  BY DEF TypeOK, Goto
<1> QED
  BY <1>1 DEF At

LEMMA AtSame ==
  ASSUME UNCHANGED pc, NEW x
  PROVE  At(x)' = At(x)
BY DEF At

LEMMA HoldersTake ==
  ASSUME TypeOK, NEW o \in Owner, Hold(o, 1)
  PROVE  /\ Holders' = Holders \union {o}
         /\ \A u \in Owner : held'[u] = IF u = o THEN held[u] + 1 ELSE held[u]
<1>1. \A u \in Owner : held'[u] = IF u = o THEN held[u] + 1 ELSE held[u]
  BY DEF TypeOK, Hold
<1>2. \A u \in Owner : held[u] \in Nat
  BY DEF TypeOK
<1> QED
  BY <1>1, <1>2 DEF Holders

LEMMA HoldersDrop ==
  ASSUME TypeOK, NEW o \in Owner, held[o] > 0, Hold(o, -1)
  PROVE  /\ held[o] = 1 => Holders' = Holders \ {o}
         /\ held[o] > 1 => Holders' = Holders
         /\ \A u \in Owner : held'[u] = IF u = o THEN held[u] - 1 ELSE held[u]
<1>1. \A u \in Owner : held'[u] = IF u = o THEN held[u] - 1 ELSE held[u]
  BY DEF TypeOK, Hold
<1>2. \A u \in Owner : held[u] \in Nat
  BY DEF TypeOK
<1> QED
  BY <1>1, <1>2 DEF Holders

LEMMA HoldersSame ==
  ASSUME UNCHANGED held
  PROVE  Holders' = Holders
BY DEF Holders
-----------------------------------------------------------------------------
(* A thread that is not in a call and holds nothing has no entry.          *)
LEMMA IdleUnrecorded ==
  ASSUME OwnersFit, TypeOK, NEW t \in Thread, pc[t] = "Idle", held[t] = 0
  PROVE  table[t] = 0 /\ first.owner # t
BY DEF OwnersFit, Fits, Unrecorded, WaitsRegistered, Owner

LEMMA HolderRecorded ==
  ASSUME OwnersFit, NEW o \in Owner, held[o] > 0
  PROVE  Recorded(o)
BY DEF OwnersFit, Fits

(* An owner that a step does not concern. *)
LEMMA FitsAside ==
  ASSUME TypeOK, NEW o \in Owner, Fits(o),
         held'[o] = held[o], table'[o] = table[o],
         o \in Thread => pc'[o] = pc[o] /\ registered'[o] = registered[o],
         \/ UNCHANGED first
         \/ first'.owner # o /\ first.owner # o,
         ~ownedExclusive => ~ownedExclusive'
  PROVE  Fits(o)'
BY DEF Fits, Recorded, Unrecorded, WaitsRegistered, Entry

LEMMA OwesSame ==
  ASSUME NEW n \in Nat, Owes(n), UNCHANGED number
  PROVE  Owes(n)'
BY DEF Owes

(* Threads that move between places that owe nothing. *)
LEMMA OwingSame ==
  ASSUME TypeOK, Owing, UNCHANGED number, NEW t \in Thread, NEW w, Goto(t, w),
         pc[t] # "ReleaseSemaphore", w # "ReleaseSemaphore"
  PROVE  Owing'
<1>1. \A u \in Thread : pc'[u] = IF u = t THEN w ELSE pc[u]
  BY DEF TypeOK, Goto
<1> QED
  BY <1>1 DEF Owing

(* An owner is counted. *)
LEMMA HasOwners ==
  ASSUME NEW n \in Nat, Sound(n), NEW o \in Owner, held[o] > 0
  PROVE  activeCount > 0
<1>1. o \in Holders /\ Cardinality(Holders) \in Nat /\ Cardinality(Holders) # 0
  BY HoldersSubset, Finite DEF Holders
<1>2. Cardinality(At("Register")) \in Nat
  BY AtSubset, Finite
<1>3. semaphore \in Nat
  BY DEF Sound, TypeOK
<1> QED
  BY <1>1, <1>2, <1>3 DEF Sound, Rest, Phase, Exclusive, Shared

(* While the resource is free, nobody holds it, is about to or waits.      *)
LEMMA NoOwners ==
  ASSUME NEW n \in Nat, TypeOK, Phase(n), activeCount = 0
  PROVE  /\ ~ownedExclusive
         /\ Holders = {} /\ semaphore = 0 /\ n = 0 /\ At("Register") = {} /\ NobodyTold
         /\ heldExclusive = {}
<1>1. Cardinality(Holders) \in Nat /\ (Cardinality(Holders) = 0 <=> Holders = {})
  BY HoldersSubset, Finite
<1>2. /\ Cardinality(At("Register")) \in Nat
      /\ Cardinality(At("Register")) = 0 <=> At("Register") = {}
  BY AtSubset, Finite
<1>3. semaphore \in Nat
  BY DEF TypeOK
<1>4. Shared(n)
  BY DEF Phase, Exclusive
<1>5. 0 = Cardinality(Holders) + semaphore + n + Cardinality(At("Register"))
  BY <1>4 DEF Shared
<1>6. Cardinality(Holders) = 0 /\ semaphore = 0 /\ n = 0 /\ Cardinality(At("Register")) = 0
  <2>1. \A a, b, c, d \in Nat : 0 = a + b + c + d => a = 0 /\ b = 0 /\ c = 0 /\ d = 0
    OBVIOUS
  <2> QED
    BY <1>1, <1>2, <1>3, <1>5, <2>1
<1>7. ~ownedExclusive /\ NobodyTold /\ heldExclusive = {}
  BY <1>4, Zenon DEF Shared
<1> QED
  BY <1>1, <1>2, <1>6, <1>7

LEMMA TypeStep ==
  ASSUME NEW n \in Nat, Sound(n), [Next]_vars
  PROVE  TypeOK'
<1> TypeOK
  BY DEF Sound
<1> USE DEF TypeOK, Entry, Goto, Hold, Call, lockVars, signalVars, Owner
<1>1. ASSUME NEW t \in Thread, Acquire(t)
      PROVE  TypeOK'
  <2>1. CASE AgainExclusive(t)
    BY <2>1 DEF AgainExclusive
  <2>2. CASE TakeExclusive(t)
    BY <2>2 DEF TakeExclusive
  <2>3. CASE QueueExclusive(t)
    BY <2>3 DEF QueueExclusive
  <2>4. CASE TakeFree(t)
    BY <2>4 DEF TakeFree
  <2>5. CASE Refuse(t)
    BY <2>5 DEF Refuse
  <2>6. ASSUME NEW kind, AgainShared(t, kind)
        PROVE  TypeOK'
    BY <2>6 DEF AgainShared
  <2>7. ASSUME NEW kind, JoinOwners(t, kind)
        PROVE  TypeOK'
    BY <2>7 DEF JoinOwners
  <2>8. ASSUME NEW kind, QueueShared(t, kind)
        PROVE  TypeOK'
    BY <2>8 DEF QueueShared
  <2> QED
    BY <1>1, <2>1, <2>2, <2>3, <2>4, <2>5, <2>6, <2>7, <2>8 DEF Acquire
<1>2. ASSUME NEW t \in Thread, Waiting(t)
      PROVE  TypeOK'
  <2>1. CASE TakeEvent(t)
    BY <2>1 DEF TakeEvent
  <2>2. CASE NameOwner(t)
    BY <2>2 DEF NameOwner
  <2>3. CASE TakeSemaphore(t)
    BY <2>3 DEF TakeSemaphore
  <2>4. CASE Register(t)
    BY <2>4 DEF Register
  <2> QED
    BY <1>2, <2>1, <2>2, <2>3, <2>4 DEF Waiting
<1>3. ASSUME NEW t \in Thread, Signal(t)
      PROVE  TypeOK'
  <2>1. CASE ReleaseSemaphore(t)
    BY <2>1 DEF ReleaseSemaphore
  <2>2. CASE SetEvent(t)
    BY <2>2 DEF SetEvent
  <2> QED
    BY <1>3, <2>1, <2>2 DEF Signal
<1>4. ASSUME NEW t \in Thread, Convert(t)
      PROVE  TypeOK'
  <2>0. ownedExclusive' \in BOOLEAN
    BY <1>4, Zenon DEF Convert
  <2>1. CASE sharedWaiters > 0
    BY <1>4, <2>0, <2>1 DEF Convert
  <2>2. CASE ~(sharedWaiters > 0)
    BY <1>4, <2>0, <2>2 DEF Convert
  <2> QED
    BY <2>1, <2>2
<1>5. ASSUME NEW t \in Thread, NEW o \in Owner, Release(t, o)
      PROVE  TypeOK'
  <2>1. ASSUME ReleaseAgain(t, o)
        PROVE  TypeOK'
    BY <2>1 DEF ReleaseAgain, Releases
  <2>2. ASSUME ReleaseExclusive(t, o)
        PROVE  TypeOK'
    <3>0. /\ held' \in [Owner -> Nat] /\ heldExclusive' \in SUBSET Owner
          /\ UNCHANGED <<table, semaphore, event, registered, calls>>
          /\ \E own \in {Nobody, Granted}, c \in {0, 1} : first' = [owner |-> own, count |-> c]
      BY <2>2 DEF ReleaseExclusive, Releases
    <3>1. CASE GiveToShared(t)
      <4>1. ownedExclusive' \in BOOLEAN
        BY <3>1, Zenon DEF GiveToShared
      <4> QED
        BY <3>0, <3>1, <4>1 DEF GiveToShared
    <3>2. CASE GiveToExclusive(t) /\ exclusiveWaiters > 0
      BY <3>0, <3>2 DEF GiveToExclusive
    <3>3. CASE GiveToNobody
      <4>1. ownedExclusive' \in BOOLEAN
        BY <3>3, Zenon DEF GiveToNobody
      <4> QED
        BY <3>0, <3>3, <4>1 DEF GiveToNobody
    <3> QED
      BY <2>2, <3>1, <3>2, <3>3 DEF ReleaseExclusive
  <2>3. ASSUME ReleaseShared(t, o)
        PROVE  TypeOK'
    <3>0. /\ held' \in [Owner -> Nat] /\ table' \in [Owner -> Nat]
          /\ UNCHANGED <<semaphore, event, registered, calls, heldExclusive>>
          /\ \/ GiveAfterShared(t, first)
             \/ GiveAfterShared(t, [owner |-> Nobody, count |-> 0])
      BY <2>3 DEF ReleaseShared, Releases
    <3>1. PICK new \in [owner : Owner \union {Nobody, Granted}, count : Nat] :
            GiveAfterShared(t, new)
      BY <3>0
    <3>2. CASE activeCount > 1
      BY <3>0, <3>1, <3>2 DEF GiveAfterShared
    <3>3. CASE ~(activeCount > 1) /\ exclusiveWaiters > 0
      BY <3>0, <3>1, <3>3 DEF GiveAfterShared, GiveToExclusive
    <3>4. CASE ~(activeCount > 1) /\ ~(exclusiveWaiters > 0)
      <4>1. GiveToNobody /\ first' = new
        BY <3>1, <3>4 DEF GiveAfterShared
      <4>2. ownedExclusive' \in BOOLEAN
        BY <4>1, Zenon DEF GiveToNobody
      <4> QED
        BY <3>0, <3>1, <4>1, <4>2 DEF GiveToNobody
    <3> QED
      BY <3>2, <3>3, <3>4
  <2> QED
    BY <1>5, <2>1, <2>2, <2>3 DEF Release
<1>6. ASSUME NEW t \in Thread, NEW p \in Pointer, SetOwnerPointer(t, p)
      PROVE  TypeOK'
  <2>1. p # t /\ p \in Owner /\ t \in Owner
    BY ResourceAssumption
  <2>2. held' \in [Owner -> Nat] /\ heldExclusive' \in SUBSET Owner
    BY <1>6, <2>1 DEF SetOwnerPointer
  <2>3. UNCHANGED <<ownedExclusive, sharedWaiters, exclusiveWaiters, semaphore, event, pc,
                    number, registered, calls>>
    BY <1>6 DEF SetOwnerPointer
  <2>4. /\ first' \in [owner : Owner \union {Nobody, Granted}, count : Nat]
        /\ table' \in [Owner -> Nat]
    BY <1>6, <2>1 DEF SetOwnerPointer
  <2>5. activeCount' \in Nat
    <3>1. held[t] > 0
      BY <1>6 DEF SetOwnerPointer
    <3>2. activeCount > 0
      BY <2>1, <3>1, HasOwners
    <3> QED
      BY <1>6, <3>2 DEF SetOwnerPointer
  <2> QED
    BY <2>2, <2>3, <2>4, <2>5
<1>7. CASE UNCHANGED vars
  BY <1>7 DEF vars
<1> QED
  BY <1>1, <1>2, <1>3, <1>4, <1>5, <1>6, <1>7 DEF Next
-----------------------------------------------------------------------------
LEMMA RestSame ==
  ASSUME NEW n \in Nat, Rest(n),
         UNCHANGED <<activeCount, ownedExclusive, first, table, sharedWaiters, exclusiveWaiters,
                     semaphore, event, pc, number, registered, held, heldExclusive>>
  PROVE  Rest(n)'
<1>1. OwnersFit' /\ Owing' /\ Owes(n)'
  BY DEF Rest, OwnersFit, Fits, Recorded, Unrecorded, WaitsRegistered, Owing, Owes
<1>2. Phase(n)'
  BY AtSame, HoldersSame
     DEF Rest, Phase, Exclusive, Shared, OneOwner, OneTold, NobodyTold
<1>3. WaitersCounted(n)'
  BY AtSame DEF Rest, WaitersCounted
<1> QED
  BY <1>1, <1>2, <1>3 DEF Rest

(* The lemmas XKeeps are the steps of the invariant, one per action.       *)
LEMMA AgainExclusiveKeeps ==
  ASSUME NEW n \in Nat, Sound(n), NEW t \in Thread, AgainExclusive(t)
  PROVE  Rest(n)'
<1>0. TypeOK /\ OwnersFit /\ Owing /\ Owes(n) /\ Phase(n) /\ WaitersCounted(n)
  BY DEF Sound, Rest
<1>1. t \in Owner /\ Call(t) /\ ownedExclusive /\ first.owner = t /\ pc[t] = "Idle"
  BY DEF AgainExclusive, OwnsExclusive, Call, Owner
<1>2. held[t] > 0 /\ first = Entry(t, held[t]) /\ table[t] = 0
  BY <1>0, <1>1 DEF OwnersFit, Fits, Recorded, Unrecorded, TypeOK
<1>3. /\ UNCHANGED <<activeCount, ownedExclusive, table, sharedWaiters, exclusiveWaiters,
                     semaphore, event, pc, number, registered, heldExclusive>>
      /\ Hold(t, 1) /\ first' = [first EXCEPT !.count = @ + 1]
  BY DEF AgainExclusive, signalVars
<1>4. /\ Holders' = Holders \union {t}
      /\ \A u \in Owner : held'[u] = IF u = t THEN held[u] + 1 ELSE held[u]
  BY <1>0, <1>1, <1>3, HoldersTake
<1>5. Holders' = Holders
  BY <1>1, <1>2, <1>4 DEF Holders
<1>6. ASSUME NEW o \in Owner
      PROVE  Fits(o)'
  <2>1. CASE o = t
    <3>1. first' = Entry(t, held[t] + 1)
      BY <1>2, <1>3 DEF Entry
    <3> QED
      BY <1>0, <1>1, <1>2, <1>3, <1>4, <2>1, <3>1 DEF Fits, Recorded, TypeOK
  <2>2. CASE o # t
    <3>1. first'.owner # o /\ first.owner # o
      BY <1>2, <1>3, <2>2 DEF Entry
    <3>2. held'[o] = held[o] /\ Fits(o)
      BY <1>0, <1>4, <2>2 DEF OwnersFit
    <3> QED
      BY <1>0, <1>3, <3>1, <3>2, FitsAside
  <2> QED
    BY <2>1, <2>2
<1>7. OwnersFit'
  BY <1>6 DEF OwnersFit
<1>8. Owing' /\ Owes(n)' /\ WaitersCounted(n)'
  BY <1>0, <1>3 DEF Owing, Owes, WaitersCounted, At
<1>9. Phase(n)'
  <2>1. OneOwner
    BY <1>0, <1>1, <1>2 DEF Phase, Exclusive, Shared, OneTold, Holders
  <2>2. OneOwner'
    BY <2>1, <1>3, <1>5, AtSame DEF OneOwner, NobodyTold
  <2> QED
    BY <1>0, <1>1, <1>3, <2>2, AtSame DEF Phase, Exclusive, Shared
<1> QED
  BY <1>7, <1>8, <1>9 DEF Rest

LEMMA TakeExclusiveKeeps ==
  ASSUME NEW n \in Nat, Sound(n), NEW t \in Thread, TakeExclusive(t)
  PROVE  Rest(n)'
<1>0. TypeOK /\ OwnersFit /\ Owing /\ Owes(n) /\ Phase(n) /\ WaitersCounted(n)
  BY DEF Sound, Rest
<1>1. t \in Owner /\ pc[t] = "Idle" /\ activeCount = 0
  BY DEF TakeExclusive, Call, Owner
<1>2. /\ UNCHANGED <<table, sharedWaiters, exclusiveWaiters,
                     semaphore, event, pc, number, registered>>
      /\ Hold(t, 1) /\ first' = Entry(t, 1) /\ ownedExclusive' = TRUE /\ activeCount' = 1
      /\ heldExclusive' = heldExclusive \union {t}
  BY DEF TakeExclusive, signalVars
<1>3. Holders = {} /\ semaphore = 0 /\ n = 0 /\ At("Register") = {} /\ NobodyTold
      /\ heldExclusive = {}
  BY <1>0, <1>1, NoOwners
<1>4. /\ Holders' = Holders \union {t}
      /\ \A u \in Owner : held'[u] = IF u = t THEN held[u] + 1 ELSE held[u]
  BY <1>0, <1>1, <1>2, HoldersTake
<1>5. held[t] = 0 /\ table[t] = 0
  BY <1>0, <1>1, <1>3, IdleUnrecorded DEF Holders, TypeOK
<1>6. ASSUME NEW o \in Owner
      PROVE  Fits(o)'
  <2>1. CASE o = t
    BY <1>1, <1>2, <1>4, <1>5, <2>1 DEF Fits, Recorded
  <2>2. CASE o # t
    <3>1. held[o] = 0 /\ held'[o] = 0 /\ Unrecorded(o)
      BY <1>0, <1>3, <1>4, <2>2 DEF Holders, OwnersFit, Fits, TypeOK
    <3>2. first'.owner # o
      BY <1>2, <2>2 DEF Entry
    <3> QED
      BY <1>2, <3>1, <3>2 DEF Fits, Unrecorded, WaitsRegistered
  <2> QED
    BY <2>1, <2>2
<1>7. OwnersFit'
  BY <1>6 DEF OwnersFit
<1>8. Owing' /\ Owes(n)' /\ WaitersCounted(n)'
  BY <1>0, <1>1, <1>2 DEF Owing, Owes, WaitersCounted, At
<1>9. Phase(n)'
  <2>1. OneOwner'
    BY <1>1, <1>2, <1>3, <1>4, AtSame DEF OneOwner, NobodyTold
  <2> QED
    BY <1>2, <1>3, <2>1, AtSame DEF Phase, Exclusive
<1> QED
  BY <1>7, <1>8, <1>9 DEF Rest

LEMMA QueueExclusiveKeeps ==
  ASSUME NEW n \in Nat, Sound(n), NEW t \in Thread, QueueExclusive(t)
  PROVE  Rest(n)'
<1>0. TypeOK /\ OwnersFit /\ Owing /\ Owes(n) /\ Phase(n) /\ WaitersCounted(n)
  BY DEF Sound, Rest
<1>1. t \in Owner /\ pc[t] = "Idle" /\ activeCount # 0 /\ held[t] = 0
  BY DEF QueueExclusive, Call, Owner
<1>2. /\ UNCHANGED <<activeCount, ownedExclusive, first, table, sharedWaiters,
                     semaphore, event, number, registered, held, heldExclusive>>
      /\ exclusiveWaiters' = exclusiveWaiters + 1 /\ Goto(t, "WaitExclusive")
  BY DEF QueueExclusive, signalVars
<1>3. /\ \A x \in {"Register", "SetEvent", "Awake", "WaitShared"} : At(x)' = At(x)
      /\ Holders' = Holders
  BY <1>0, <1>1, <1>2, AtGoto, HoldersSame
<1>4. \A u \in Thread : pc'[u] = IF u = t THEN "WaitExclusive" ELSE pc[u]
  BY <1>0, <1>2 DEF TypeOK, Goto
<1>5. table[t] = 0 /\ first.owner # t
  BY <1>0, <1>1, IdleUnrecorded
<1>6. OwnersFit'
  <2> SUFFICES ASSUME NEW o \in Owner
               PROVE  Fits(o)'
    BY DEF OwnersFit
  <2>1. CASE o = t
    BY <1>1, <1>2, <1>4, <1>5, <2>1 DEF Fits, Unrecorded, WaitsRegistered
  <2>2. CASE o # t
    BY <1>0, <1>2, <1>4, <2>2, FitsAside DEF OwnersFit
  <2> QED
    BY <2>1, <2>2
<1>7. Owing' /\ Owes(n)'
  BY <1>0, <1>1, <1>2, OwingSame, OwesSame
<1>8. WaitersCounted(n)'
  BY <1>0, <1>1, <1>2, <1>3 DEF WaitersCounted, TypeOK
<1>9. Phase(n)'
  BY <1>0, <1>2, <1>3 DEF Phase, Exclusive, Shared, OneOwner, OneTold, NobodyTold
<1> QED
  BY <1>6, <1>7, <1>8, <1>9 DEF Rest

LEMMA TakeEventKeeps ==
  ASSUME NEW n \in Nat, Sound(n), NEW t \in Thread, TakeEvent(t)
  PROVE  Rest(n)'
<1>0. TypeOK /\ OwnersFit /\ Owing /\ Owes(n) /\ Phase(n) /\ WaitersCounted(n)
  BY DEF Sound, Rest
<1>1. t \in Owner /\ pc[t] = "WaitExclusive" /\ event
  BY DEF TakeEvent, Owner
<1>2. /\ UNCHANGED <<activeCount, ownedExclusive, first, table, sharedWaiters, exclusiveWaiters,
                     semaphore, number, registered, held, heldExclusive>>
      /\ ~event' /\ Goto(t, "Awake")
  BY DEF TakeEvent, lockVars
<1>3. /\ \A x \in {"Register", "SetEvent", "WaitShared"} : At(x)' = At(x)
      /\ At("Awake")' = At("Awake") \union {t}
      /\ Holders' = Holders
  BY <1>0, <1>1, <1>2, AtGoto, HoldersSame
<1>4. \A u \in Thread : pc'[u] = IF u = t THEN "Awake" ELSE pc[u]
  BY <1>0, <1>2 DEF TypeOK, Goto
<1>5. held[t] = 0 /\ Unrecorded(t)
  BY <1>0, <1>1 DEF OwnersFit, Fits, TypeOK
<1>6. OwnersFit'
  <2> SUFFICES ASSUME NEW o \in Owner
               PROVE  Fits(o)'
    BY DEF OwnersFit
  <2>1. CASE o = t
    BY <1>1, <1>2, <1>4, <1>5, <2>1 DEF Fits, Unrecorded, WaitsRegistered
  <2>2. CASE o # t
    BY <1>0, <1>2, <1>4, <2>2, FitsAside DEF OwnersFit
  <2> QED
    BY <2>1, <2>2
<1>7. Owing' /\ Owes(n)'
  BY <1>0, <1>1, <1>2, OwingSame, OwesSame
<1>8. WaitersCounted(n)'
  BY <1>0, <1>1, <1>2, <1>3 DEF WaitersCounted, TypeOK
<1>9. Phase(n)'
  <2>1. Exclusive(n) /\ OneTold
    BY <1>0, <1>1 DEF Phase, Exclusive, Shared, OneOwner, NobodyTold
  <2>2. At("SetEvent") = {} /\ At("Awake") = {}
    BY <1>1, <2>1 DEF OneTold
  <2>3. At("SetEvent")' = {} /\ At("Awake")' = {t}
    BY <1>3, <2>2
  <2>4. OneTold'
    BY <1>2, <1>3, <2>1, <2>3 DEF OneTold
  <2> QED
    BY <1>2, <1>3, <2>1, <2>4 DEF Phase, Exclusive
<1> QED
  BY <1>6, <1>7, <1>8, <1>9 DEF Rest

LEMMA NameOwnerKeeps ==
  ASSUME NEW n \in Nat, Sound(n), NEW t \in Thread, NameOwner(t)
  PROVE  Rest(n)'
<1>0. TypeOK /\ OwnersFit /\ Owing /\ Owes(n) /\ Phase(n) /\ WaitersCounted(n)
  BY DEF Sound, Rest
<1>1. t \in Owner /\ pc[t] = "Awake" /\ t \in At("Awake")
  BY DEF NameOwner, Owner, At
<1>2. /\ UNCHANGED <<activeCount, ownedExclusive, table, sharedWaiters, exclusiveWaiters,
                     semaphore, event, number, registered>>
      /\ first' = [first EXCEPT !.owner = t]
      /\ Hold(t, 1) /\ heldExclusive' = heldExclusive \union {t} /\ Goto(t, "Idle")
  BY DEF NameOwner, signalVars
<1>3. Exclusive(n) /\ OneTold /\ ~event /\ At("SetEvent") = {} /\ At("Awake") = {t}
  BY <1>0, <1>1 DEF Phase, Exclusive, Shared, OneOwner, OneTold, NobodyTold
<1>4. first.count = 1 /\ Holders = {} /\ heldExclusive = {}
  BY <1>3 DEF OneTold
<1>5. /\ \A x \in {"Register", "SetEvent", "WaitShared"} : At(x)' = At(x)
      /\ At("Awake")' = {}
      /\ Holders' = {t}
      /\ \A u \in Owner : held'[u] = IF u = t THEN held[u] + 1 ELSE held[u]
  BY <1>0, <1>1, <1>2, <1>3, <1>4, AtGoto, HoldersTake
<1>6. \A u \in Thread : pc'[u] = IF u = t THEN "Idle" ELSE pc[u]
  BY <1>0, <1>2 DEF TypeOK, Goto
<1>7. \A o \in Owner : held[o] = 0 /\ Unrecorded(o)
  BY <1>0, <1>4 DEF Holders, OwnersFit, Fits, TypeOK
<1>8. first' = Entry(t, 1)
  BY <1>0, <1>2, <1>4 DEF TypeOK, Entry
<1>9. OwnersFit'
  <2> SUFFICES ASSUME NEW o \in Owner
               PROVE  Fits(o)'
    BY DEF OwnersFit
  <2>1. CASE o = t
    <3>1. table[t] = 0
      BY <1>1, <1>7 DEF Unrecorded, WaitsRegistered
    <3> QED
      BY <1>2, <1>5, <1>6, <1>7, <1>8, <2>1, <3>1 DEF Fits, Recorded
  <2>2. CASE o # t
    <3>1. held'[o] = 0 /\ table'[o] = table[o] /\ first'.owner # o
      BY <1>2, <1>5, <1>7, <1>8, <2>2 DEF Entry
    <3>2. WaitsRegistered(o)' <=> WaitsRegistered(o)
      BY <1>2, <1>6, <2>2 DEF WaitsRegistered
    <3> QED
      BY <1>7, <3>1, <3>2 DEF Fits, Unrecorded
  <2> QED
    BY <2>1, <2>2
<1>10. Owing' /\ Owes(n)'
  BY <1>0, <1>1, <1>2, OwingSame, OwesSame
<1>11. WaitersCounted(n)'
  BY <1>0, <1>1, <1>2, <1>5 DEF WaitersCounted, TypeOK
<1>12. Phase(n)'
  <2>1. OneOwner'
    BY <1>1, <1>2, <1>3, <1>4, <1>5 DEF OneOwner, NobodyTold
  <2> QED
    BY <1>2, <1>3, <1>5, <2>1 DEF Phase, Exclusive
<1> QED
  BY <1>9, <1>10, <1>11, <1>12 DEF Rest

(* One more owner that the count of the resource now has.                  *)
LEMMA SharedCounts ==
  ASSUME TypeOK, NEW n \in Nat
  PROVE  /\ Cardinality(Holders) \in Nat /\ Cardinality(At("Register")) \in Nat
         /\ Cardinality(At("WaitShared")) \in Nat
         /\ activeCount \in Nat /\ semaphore \in Nat
         /\ sharedWaiters \in Nat /\ exclusiveWaiters \in Nat
BY HoldersSubset, AtSubset, Finite DEF TypeOK

LEMMA TakeFreeKeeps ==
  ASSUME NEW n \in Nat, Sound(n), NEW t \in Thread, TakeFree(t)
  PROVE  Rest(n)'
<1>0. TypeOK /\ OwnersFit /\ Owing /\ Owes(n) /\ Phase(n) /\ WaitersCounted(n)
  BY DEF Sound, Rest
<1>1. t \in Owner /\ pc[t] = "Idle" /\ activeCount = 0
  BY DEF TakeFree, Call, Owner
<1>2. /\ UNCHANGED <<ownedExclusive, first, sharedWaiters, exclusiveWaiters,
                     semaphore, event, pc, number, registered, heldExclusive>>
      /\ Hold(t, 1) /\ table' = [table EXCEPT ![t] = 1] /\ activeCount' = 1
  BY DEF TakeFree, signalVars
<1>3. /\ ~ownedExclusive
      /\ Holders = {} /\ semaphore = 0 /\ n = 0 /\ At("Register") = {} /\ NobodyTold
      /\ heldExclusive = {}
  BY <1>0, <1>1, NoOwners
<1>4. /\ Holders' = {t}
      /\ \A u \in Owner : held'[u] = IF u = t THEN held[u] + 1 ELSE held[u]
  BY <1>0, <1>1, <1>2, <1>3, HoldersTake
<1>5. held[t] = 0 /\ table[t] = 0 /\ first.owner # t
  BY <1>0, <1>1, <1>3, IdleUnrecorded DEF Holders, TypeOK
<1>6. \A u \in Owner : table'[u] = IF u = t THEN 1 ELSE table[u]
  BY <1>0, <1>2 DEF TypeOK
<1>7. OwnersFit'
  <2> SUFFICES ASSUME NEW o \in Owner
               PROVE  Fits(o)'
    BY DEF OwnersFit
  <2>1. CASE o = t
    BY <1>1, <1>2, <1>3, <1>4, <1>5, <1>6, <2>1 DEF Fits, Recorded
  <2>2. CASE o # t
    BY <1>0, <1>2, <1>4, <1>6, <2>2, FitsAside DEF OwnersFit
  <2> QED
    BY <2>1, <2>2
<1>8. Owing' /\ Owes(n)' /\ WaitersCounted(n)'
  BY <1>0, <1>1, <1>2 DEF Owing, Owes, WaitersCounted, At
<1>9. Phase(n)'
  <2>1. Cardinality(Holders') = 1 /\ Cardinality(At("Register")') = 0
    BY <1>2, <1>3, <1>4, AtSame, CountOne, FS_EmptySet
  <2>2. NobodyTold'
    BY <1>2, <1>3 DEF NobodyTold, At
  <2>3. ~ownedExclusive' /\ heldExclusive' = {}
    BY <1>2, <1>3
  <2>4. activeCount' = Cardinality(Holders') + semaphore' + n + Cardinality(At("Register")')
    BY <1>2, <1>3, <2>1
  <2> QED
    BY <2>2, <2>3, <2>4 DEF Phase, Shared
<1> QED
  BY <1>7, <1>8, <1>9 DEF Rest

LEMMA AgainSharedKeeps ==
  ASSUME NEW n \in Nat, Sound(n), NEW t \in Thread, NEW kind, AgainShared(t, kind)
  PROVE  Rest(n)'
<1>0. TypeOK /\ OwnersFit /\ Owing /\ Owes(n) /\ Phase(n) /\ WaitersCounted(n)
  BY DEF Sound, Rest
<1>1. t \in Owner /\ pc[t] = "Idle" /\ ~ownedExclusive /\ HasEntry(t)
  BY DEF AgainShared, Call, Owner
<1>2. /\ UNCHANGED <<activeCount, ownedExclusive, sharedWaiters, exclusiveWaiters,
                     semaphore, event, pc, number, registered, heldExclusive>>
      /\ Hold(t, 1)
      /\ IF first.owner = t
         THEN first' = [first EXCEPT !.count = @ + 1] /\ table' = table
         ELSE table' = [table EXCEPT ![t] = @ + 1] /\ first' = first
  BY DEF AgainShared, signalVars
<1>3. held[t] > 0 /\ Recorded(t)
  <2>1. held[t] # 0
    BY <1>0, <1>1, IdleUnrecorded DEF HasEntry, TypeOK
  <2> QED
    BY <1>0, <1>1, <2>1, HolderRecorded DEF TypeOK
<1>4. /\ Holders' = Holders \union {t}
      /\ \A u \in Owner : held'[u] = IF u = t THEN held[u] + 1 ELSE held[u]
  BY <1>0, <1>1, <1>2, HoldersTake
<1>5. Holders' = Holders
  BY <1>1, <1>3, <1>4 DEF Holders
<1>6. OwnersFit'
  <2> SUFFICES ASSUME NEW o \in Owner
               PROVE  Fits(o)'
    BY DEF OwnersFit
  <2>1. CASE o = t
    <3>1. CASE first.owner = t
      <4>1. first = Entry(t, held[t]) /\ table[t] = 0
        BY <1>3, <3>1 DEF Recorded
      <4>2. first' = Entry(t, held[t] + 1) /\ table'[t] = 0
        BY <1>2, <3>1, <4>1 DEF Entry
      <4> QED
        BY <1>0, <1>1, <1>2, <1>3, <1>4, <2>1, <4>2 DEF Fits, Recorded, TypeOK
    <3>2. CASE first.owner # t
      <4>1. table[t] = held[t]
        BY <1>3, <3>2 DEF Recorded, Entry
      <4>2. table'[t] = held[t] + 1 /\ first' = first
        BY <1>0, <1>1, <1>2, <3>2, <4>1 DEF TypeOK
      <4> QED
        BY <1>0, <1>1, <1>2, <1>3, <1>4, <2>1, <3>2, <4>2 DEF Fits, Recorded, TypeOK
    <3> QED
      BY <3>1, <3>2
  <2>2. CASE o # t
    <3>1. table'[o] = table[o]
      BY <1>0, <1>2, <2>2 DEF TypeOK
    <3>2. \/ UNCHANGED first
          \/ first'.owner # o /\ first.owner # o
      BY <1>0, <1>2, <2>2 DEF TypeOK
    <3>3. held'[o] = held[o] /\ Fits(o)
      BY <1>0, <1>4, <2>2 DEF OwnersFit
    <3> QED
      BY <1>0, <1>2, <3>1, <3>2, <3>3, FitsAside
  <2> QED
    BY <2>1, <2>2
<1>7. Owing' /\ Owes(n)' /\ WaitersCounted(n)'
  BY <1>0, <1>1, <1>2 DEF Owing, Owes, WaitersCounted, At
<1>8. Phase(n)'
  BY <1>0, <1>1, <1>2, <1>5, AtSame DEF Phase, Exclusive, Shared, NobodyTold
<1> QED
  BY <1>6, <1>7, <1>8 DEF Rest

LEMMA JoinOwnersKeeps ==
  ASSUME NEW n \in Nat, Sound(n), NEW t \in Thread, NEW kind, JoinOwners(t, kind)
  PROVE  Rest(n)'
<1>0. TypeOK /\ OwnersFit /\ Owing /\ Owes(n) /\ Phase(n) /\ WaitersCounted(n)
  BY DEF Sound, Rest
<1>1. t \in Owner /\ pc[t] = "Idle" /\ ~ownedExclusive /\ table[t] = 0 /\ first.owner # t
  BY <1>0 DEF JoinOwners, HasEntry, Call, Owner, TypeOK
<1>2. /\ UNCHANGED <<ownedExclusive, first, sharedWaiters, exclusiveWaiters,
                     semaphore, event, pc, number, registered, heldExclusive>>
      /\ Hold(t, 1) /\ table' = [table EXCEPT ![t] = 1] /\ activeCount' = activeCount + 1
      /\ activeCount # 0
  BY DEF JoinOwners, signalVars
<1>3. held[t] = 0
  <2>1. held[t] > 0 => first = Entry(t, held[t]) \/ table[t] = held[t]
    BY <1>0, <1>1, HolderRecorded DEF Recorded
  <2> QED
    BY <1>0, <1>1, <2>1 DEF Entry, TypeOK
<1>4. /\ Holders' = Holders \union {t} /\ t \notin Holders
      /\ \A u \in Owner : held'[u] = IF u = t THEN held[u] + 1 ELSE held[u]
  BY <1>0, <1>1, <1>2, <1>3, HoldersTake DEF Holders
<1>5. \A u \in Owner : table'[u] = IF u = t THEN 1 ELSE table[u]
  BY <1>0, <1>2 DEF TypeOK
<1>6. OwnersFit'
  <2> SUFFICES ASSUME NEW o \in Owner
               PROVE  Fits(o)'
    BY DEF OwnersFit
  <2>1. CASE o = t
    BY <1>1, <1>2, <1>3, <1>4, <1>5, <2>1 DEF Fits, Recorded
  <2>2. CASE o # t
    BY <1>0, <1>2, <1>4, <1>5, <2>2, FitsAside DEF OwnersFit
  <2> QED
    BY <2>1, <2>2
<1>7. Owing' /\ Owes(n)'
  BY <1>0, <1>2 DEF Owing, Owes
<1>8. WaitersCounted(n)'
  BY <1>0, <1>2, AtSame, SharedCounts DEF WaitersCounted
<1>9. Phase(n)'
  <2>1. Shared(n)
    BY <1>0, <1>1 DEF Phase, Exclusive
  <2>2. Cardinality(Holders') = Cardinality(Holders) + 1
    BY <1>1, <1>4, HoldersSubset, CountAdd
  <2>3. activeCount' = Cardinality(Holders') + semaphore' + n + Cardinality(At("Register")')
    <3>1. activeCount = Cardinality(Holders) + semaphore + n + Cardinality(At("Register"))
      BY <2>1 DEF Shared
    <3>2. At("Register")' = At("Register")
      BY <1>2, AtSame
    <3> QED
      BY <1>0, <1>2, <2>2, <3>1, <3>2, SharedCounts
  <2>4. ~ownedExclusive' /\ NobodyTold' /\ heldExclusive' = {}
    BY <1>1, <1>2, <2>1, AtSame DEF Shared, NobodyTold
  <2> QED
    BY <2>3, <2>4 DEF Phase, Shared
<1> QED
  BY <1>6, <1>7, <1>8, <1>9 DEF Rest

LEMMA QueueSharedKeeps ==
  ASSUME NEW n \in Nat, Sound(n), NEW t \in Thread, NEW kind, QueueShared(t, kind)
  PROVE  Rest(n)'
<1>0. TypeOK /\ OwnersFit /\ Owing /\ Owes(n) /\ Phase(n) /\ WaitersCounted(n)
  BY DEF Sound, Rest
<1> DEFINE atOnce == ownedExclusive \/ kind = "Shared"
<1>1. t \in Owner /\ pc[t] = "Idle" /\ activeCount # 0 /\ held[t] = 0
  BY DEF QueueShared, Call, Owner
<1>2. /\ UNCHANGED <<activeCount, ownedExclusive, first, exclusiveWaiters,
                     semaphore, event, number, held, heldExclusive>>
      /\ table' = [table EXCEPT ![t] = IF atOnce THEN 1 ELSE @]
      /\ registered' = [registered EXCEPT ![t] = atOnce]
      /\ sharedWaiters' = sharedWaiters + 1 /\ Goto(t, "WaitShared")
  BY DEF QueueShared, signalVars
<1>3. ownedExclusive \/ exclusiveWaiters > 0
  BY DEF QueueShared, MustWait
<1>4. /\ \A x \in {"Register", "SetEvent", "Awake"} : At(x)' = At(x)
      /\ At("WaitShared")' = At("WaitShared") \union {t}
      /\ t \notin At("WaitShared")
      /\ Holders' = Holders
  BY SMTT(30), <1>0, <1>1, <1>2, AtGoto, HoldersSame DEF At
<1>5. \A u \in Thread : pc'[u] = IF u = t THEN "WaitShared" ELSE pc[u]
  BY <1>0, <1>2 DEF TypeOK, Goto
<1>6. table[t] = 0 /\ first.owner # t
  BY <1>0, <1>1, IdleUnrecorded
<1>7. OwnersFit'
  <2> SUFFICES ASSUME NEW o \in Owner
               PROVE  Fits(o)'
    BY DEF OwnersFit
  <2>1. CASE o = t
    <3>1. table'[t] = IF atOnce THEN 1 ELSE 0
      BY <1>0, <1>1, <1>2, <1>6 DEF TypeOK
    <3>2. registered'[t] <=> atOnce
      BY <1>0, <1>2 DEF TypeOK
    <3>3. Unrecorded(t)'
      BY <1>2, <1>5, <1>6, <3>1, <3>2 DEF Unrecorded, WaitsRegistered
    <3> QED
      BY <1>1, <1>2, <2>1, <3>3 DEF Fits
  <2>2. CASE o # t
    <3>1. table'[o] = table[o]
      BY <1>0, <1>2, <2>2 DEF TypeOK
    <3>2. o \in Thread => pc'[o] = pc[o] /\ registered'[o] = registered[o]
      BY <1>0, <1>2, <1>5, <2>2 DEF TypeOK
    <3> QED
      BY <1>0, <1>2, <3>1, <3>2, FitsAside DEF OwnersFit
  <2> QED
    BY <2>1, <2>2
<1>8. Owing' /\ Owes(n)'
  BY <1>0, <1>1, <1>2, OwingSame, OwesSame
<1>9. WaitersCounted(n)'
  <2>1. Cardinality(At("WaitShared")') = Cardinality(At("WaitShared")) + 1
    BY <1>1, <1>4, AtSubset, CountAdd
  <2> QED
    BY <1>0, <1>1, <1>2, <1>3, <2>1, SharedCounts DEF WaitersCounted
<1>10. Phase(n)'
  BY <1>0, <1>2, <1>4 DEF Phase, Exclusive, Shared, OneOwner, OneTold, NobodyTold
<1> QED
  BY <1>7, <1>8, <1>9, <1>10 DEF Rest

LEMMA RefuseKeeps ==
  ASSUME NEW n \in Nat, Sound(n), NEW t \in Thread, Refuse(t)
  PROVE  Rest(n)'
<1>1. UNCHANGED <<activeCount, ownedExclusive, first, table, sharedWaiters, exclusiveWaiters,
                  semaphore, event, pc, number, registered, held, heldExclusive>>
  BY DEF Refuse, lockVars, signalVars
<1> QED
  BY <1>1, RestSame DEF Sound

(* A semaphore count belongs to a shared resource. *)
LEMMA TakeSemaphoreKeeps ==
  ASSUME NEW n \in Nat, Sound(n), NEW t \in Thread, TakeSemaphore(t)
  PROVE  Rest(n)'
<1>0. TypeOK /\ OwnersFit /\ Owing /\ Owes(n) /\ Phase(n) /\ WaitersCounted(n)
  BY DEF Sound, Rest
<1>1. t \in Owner /\ pc[t] = "WaitShared" /\ semaphore > 0 /\ t \in At("WaitShared")
  BY DEF TakeSemaphore, Owner, At
<1>2. /\ UNCHANGED <<activeCount, ownedExclusive, first, table, sharedWaiters, exclusiveWaiters,
                     event, number, registered, heldExclusive>>
      /\ semaphore' = semaphore - 1
      /\ \/ registered[t] /\ Goto(t, "Idle") /\ Hold(t, 1)
         \/ ~registered[t] /\ Goto(t, "Register") /\ held' = held
  BY DEF TakeSemaphore, lockVars
<1>3. Shared(n)
  BY <1>0, <1>1 DEF Phase, Exclusive
<1>4. activeCount = Cardinality(Holders) + semaphore + n + Cardinality(At("Register"))
  BY <1>3 DEF Shared
<1>5. held[t] = 0 /\ Unrecorded(t)
  BY <1>0, <1>1 DEF OwnersFit, Fits, TypeOK
<1>6. PICK w \in {"Idle", "Register"} : Goto(t, w)
  BY <1>2
<1>7. \A u \in Thread : pc'[u] = IF u = t THEN w ELSE pc[u]
  BY <1>0, <1>6 DEF TypeOK, Goto
<1>8. Owing' /\ Owes(n)'
  BY <1>0, <1>1, <1>2, <1>6, OwingSame, OwesSame
<1>9. /\ \A x \in {"SetEvent", "Awake"} : At(x)' = At(x)
      /\ At("WaitShared")' = At("WaitShared") \ {t}
  BY <1>0, <1>1, <1>6, AtGoto
<1>10. WaitersCounted(n)'
  <2>1. Cardinality(At("WaitShared")') = Cardinality(At("WaitShared")) - 1
    BY <1>1, <1>9, AtSubset, CountRemove
  <2> QED
    BY <1>0, <1>1, <1>2, <2>1, SharedCounts DEF WaitersCounted
<1>11. ~ownedExclusive' /\ NobodyTold' /\ heldExclusive' = {}
  BY <1>2, <1>3, <1>9 DEF Shared, NobodyTold
<1>12. \A o \in Owner \ {t} : held'[o] = held[o]
  BY <1>0, <1>2 DEF TypeOK, Hold
<1>13. \A o \in Owner \ {t} : Fits(o)'
  BY <1>0, <1>2, <1>7, <1>12, FitsAside DEF OwnersFit
<1>14. CASE registered[t] /\ Goto(t, "Idle") /\ Hold(t, 1)
  <2>1. /\ Holders' = Holders \union {t} /\ t \notin Holders
        /\ held'[t] = 1
        /\ At("Register")' = At("Register")
    BY <1>0, <1>1, <1>5, <1>14, HoldersTake, AtGoto DEF Holders
  <2>2. Cardinality(Holders') = Cardinality(Holders) + 1
    BY <1>1, <2>1, HoldersSubset, CountAdd
  <2>3. Shared(n)'
    <3>1. activeCount' = Cardinality(Holders') + semaphore' + n + Cardinality(At("Register")')
      BY <1>0, <1>1, <1>2, <1>4, <2>1, <2>2, SharedCounts
    <3> QED
      BY <1>11, <3>1 DEF Shared
  <2>4. Fits(t)'
    <3>1. table[t] = 1 /\ first.owner # t /\ ~ownedExclusive
      BY <1>1, <1>3, <1>5, <1>14 DEF Unrecorded, WaitsRegistered, Shared
    <3>2. pc'[t] = "Idle"
      BY <1>0, <1>14 DEF TypeOK, Goto
    <3> QED
      BY <1>2, <2>1, <3>1, <3>2 DEF Fits, Recorded
  <2> QED
    BY <1>8, <1>10, <1>13, <2>3, <2>4 DEF Rest, Phase, OwnersFit
<1>15. CASE ~registered[t] /\ Goto(t, "Register") /\ held' = held
  <2>1. /\ Holders' = Holders
        /\ At("Register")' = At("Register") \union {t} /\ t \notin At("Register")
    BY <1>0, <1>1, <1>15, HoldersSame, AtGoto DEF At
  <2>2. Cardinality(At("Register")') = Cardinality(At("Register")) + 1
    BY <1>1, <2>1, AtSubset, CountAdd
  <2>3. Shared(n)'
    <3>1. activeCount' = Cardinality(Holders') + semaphore' + n + Cardinality(At("Register")')
      BY <1>0, <1>1, <1>2, <1>4, <2>1, <2>2, SharedCounts
    <3> QED
      BY <1>11, <3>1 DEF Shared
  <2>4. Fits(t)'
    <3>1. table[t] = 0 /\ first.owner # t
      BY <1>1, <1>5, <1>15 DEF Unrecorded, WaitsRegistered
    <3>2. pc'[t] = "Register"
      BY <1>0, <1>15 DEF TypeOK, Goto
    <3> QED
      BY <1>1, <1>2, <1>5, <1>15, <3>1, <3>2 DEF Fits, Unrecorded, WaitsRegistered
  <2> QED
    BY <1>8, <1>10, <1>13, <2>3, <2>4 DEF Rest, Phase, OwnersFit
<1> QED
  BY <1>2, <1>14, <1>15

LEMMA RegisterKeeps ==
  ASSUME NEW n \in Nat, Sound(n), NEW t \in Thread, Register(t)
  PROVE  Rest(n)'
<1>0. TypeOK /\ OwnersFit /\ Owing /\ Owes(n) /\ Phase(n) /\ WaitersCounted(n)
  BY DEF Sound, Rest
<1>1. t \in Owner /\ pc[t] = "Register" /\ t \in At("Register")
  BY DEF Register, Owner, At
<1>2. /\ UNCHANGED <<activeCount, ownedExclusive, first, sharedWaiters, exclusiveWaiters,
                     semaphore, event, number, registered, heldExclusive>>
      /\ table' = [table EXCEPT ![t] = 1] /\ Goto(t, "Idle") /\ Hold(t, 1)
  BY DEF Register, signalVars
<1>3. Shared(n)
  BY <1>0, <1>1 DEF Phase, Exclusive
<1>4. held[t] = 0 /\ first.owner # t
  BY <1>0, <1>1 DEF OwnersFit, Fits, Unrecorded, TypeOK
<1>5. /\ Holders' = Holders \union {t} /\ t \notin Holders
      /\ \A u \in Owner : held'[u] = IF u = t THEN held[u] + 1 ELSE held[u]
  BY <1>0, <1>1, <1>2, <1>4, HoldersTake DEF Holders
<1>6. /\ \A x \in {"SetEvent", "Awake", "WaitShared"} : At(x)' = At(x)
      /\ At("Register")' = At("Register") \ {t}
  BY <1>0, <1>1, <1>2, AtGoto
<1>7. \A u \in Thread : pc'[u] = IF u = t THEN "Idle" ELSE pc[u]
  BY <1>0, <1>2 DEF TypeOK, Goto
<1>8. \A u \in Owner : table'[u] = IF u = t THEN 1 ELSE table[u]
  BY <1>0, <1>2 DEF TypeOK
<1>9. OwnersFit'
  <2> SUFFICES ASSUME NEW o \in Owner
               PROVE  Fits(o)'
    BY DEF OwnersFit
  <2>1. CASE o = t
    BY <1>1, <1>2, <1>3, <1>4, <1>5, <1>7, <1>8, <2>1 DEF Fits, Recorded, Shared
  <2>2. CASE o # t
    BY <1>0, <1>2, <1>5, <1>7, <1>8, <2>2, FitsAside DEF OwnersFit
  <2> QED
    BY <2>1, <2>2
<1>10. Owing' /\ Owes(n)'
  BY <1>0, <1>1, <1>2, OwingSame, OwesSame
<1>11. WaitersCounted(n)'
  BY <1>0, <1>2, <1>6 DEF WaitersCounted
<1>12. Shared(n)'
  <2>1. /\ Cardinality(Holders') = Cardinality(Holders) + 1
        /\ Cardinality(At("Register")') = Cardinality(At("Register")) - 1
    BY <1>1, <1>5, <1>6, HoldersSubset, AtSubset, CountAdd, CountRemove
  <2>2. activeCount = Cardinality(Holders) + semaphore + n + Cardinality(At("Register"))
    BY <1>3 DEF Shared
  <2>3. activeCount' = Cardinality(Holders') + semaphore' + n + Cardinality(At("Register")')
    BY <1>0, <1>2, <2>1, <2>2, SharedCounts
  <2>4. ~ownedExclusive' /\ NobodyTold' /\ heldExclusive' = {}
    BY <1>2, <1>3, <1>6 DEF Shared, NobodyTold
  <2> QED
    BY <2>3, <2>4 DEF Shared
<1> QED
  BY <1>9, <1>10, <1>11, <1>12 DEF Rest, Phase

LEMMA ReleaseAgainKeeps ==
  ASSUME NEW n \in Nat, Sound(n), NEW t \in Thread, NEW o \in Owner, ReleaseAgain(t, o)
  PROVE  Rest(n)'
<1>0. TypeOK /\ OwnersFit /\ Owing /\ Owes(n) /\ Phase(n) /\ WaitersCounted(n)
  BY DEF Sound, Rest
<1>1. held[o] > 0 /\ Hold(o, -1)
  BY DEF ReleaseAgain, Releases
<1>2. /\ UNCHANGED <<activeCount, ownedExclusive, sharedWaiters, exclusiveWaiters,
                     semaphore, event, pc, number, registered, heldExclusive>>
      /\ IF first.owner = o
         THEN first.count > 1 /\ first' = [first EXCEPT !.count = @ - 1] /\ table' = table
         ELSE table[o] > 1 /\ table' = [table EXCEPT ![o] = @ - 1] /\ first' = first
  BY DEF ReleaseAgain, Releases, signalVars
<1>3. Recorded(o)
  BY <1>0, <1>1, HolderRecorded
<1>4. held[o] > 1
  <2>1. CASE first.owner = o
    BY <1>2, <1>3, <2>1 DEF Recorded, Entry
  <2>2. CASE first.owner # o
    BY <1>2, <1>3, <2>2 DEF Recorded, Entry
  <2> QED
    BY <2>1, <2>2
<1>5. /\ Holders' = Holders
      /\ \A u \in Owner : held'[u] = IF u = o THEN held[u] - 1 ELSE held[u]
  BY <1>0, <1>1, <1>4, HoldersDrop
<1>6. OwnersFit'
  <2> SUFFICES ASSUME NEW u \in Owner
               PROVE  Fits(u)'
    BY DEF OwnersFit
  <2>0. held[o] \in Nat
    BY <1>0 DEF TypeOK
  <2>1. CASE u = o
    <3>1. Recorded(o)'
      <4>1. CASE first.owner = o
        <5>1. first = Entry(o, held[o]) /\ table[o] = 0
          BY <1>3, <4>1 DEF Recorded
        <5>2. first' = Entry(o, held[o] - 1) /\ table'[o] = 0
          BY <1>2, <4>1, <5>1 DEF Entry
        <5> QED
          BY <1>5, <5>2 DEF Recorded
      <4>2. CASE first.owner # o
        <5>1. table[o] = held[o] /\ ~ownedExclusive
          BY <1>3, <4>2 DEF Recorded, Entry
        <5>2. table'[o] = held[o] - 1 /\ first' = first
          BY <1>0, <1>2, <4>2, <5>1 DEF TypeOK
        <5> QED
          BY <1>2, <1>5, <4>2, <5>1, <5>2 DEF Recorded
      <4> QED
        BY <4>1, <4>2
    <3>2. held'[o] # 0
      BY <1>4, <1>5, <2>0
    <3>3. o \in Thread => pc'[o] \in {"Idle", "ReleaseSemaphore"}
      BY <1>0, <1>1, <1>2 DEF OwnersFit, Fits
    <3> QED
      BY <2>1, <3>1, <3>2, <3>3 DEF Fits
  <2>2. CASE u # o
    <3>1. table'[u] = table[u]
      BY <1>0, <1>2, <2>2 DEF TypeOK
    <3>2. \/ UNCHANGED first
          \/ first'.owner # u /\ first.owner # u
      BY <1>0, <1>2, <2>2 DEF TypeOK
    <3>3. held'[u] = held[u] /\ Fits(u)
      BY <1>0, <1>5, <2>2 DEF OwnersFit
    <3> QED
      BY <1>0, <1>2, <3>1, <3>2, <3>3, FitsAside
  <2> QED
    BY <2>1, <2>2
<1>7. Owing' /\ Owes(n)' /\ WaitersCounted(n)'
  BY <1>0, <1>2 DEF Owing, Owes, WaitersCounted, At
<1>8. Phase(n)'
  <2>1. CASE Shared(n)
    BY <1>2, <1>5, <2>1, AtSame DEF Phase, Shared, NobodyTold
  <2>2. CASE Exclusive(n)
    <3>1. OneOwner
      BY <1>1, <2>2 DEF Exclusive, OneTold, Holders
    <3>2. OneOwner'
      BY <1>2, <1>5, <3>1, AtSame DEF OneOwner, NobodyTold
    <3> QED
      BY <1>2, <2>2, <3>2, AtSame DEF Phase, Exclusive
  <2> QED
    BY <1>0, <2>1, <2>2 DEF Phase
<1> QED
  BY <1>6, <1>7, <1>8 DEF Rest

(* A thread that is to release the semaphore for the first time.           *)
LEMMA OwesNew ==
  ASSUME TypeOK, Owes(0), Owing, NEW t \in Thread, Goto(t, "ReleaseSemaphore"),
         NEW m \in Nat, m > 0, number' = [number EXCEPT ![t] = m]
  PROVE  Owes(m)' /\ Owing'
<1>1. \A u \in Thread : number[u] = 0
  BY DEF Owes
<1>2. number' = [u \in Thread |-> IF u = t THEN m ELSE 0]
  BY <1>1 DEF TypeOK
<1>3. \A u \in Thread : pc'[u] = IF u = t THEN "ReleaseSemaphore" ELSE pc[u]
  BY DEF TypeOK, Goto
<1>4. Owes(m)'
  BY <1>2 DEF Owes
<1>5. Owing'
  BY <1>1, <1>2, <1>3 DEF Owing
<1> QED
  BY <1>4, <1>5

(* An owner of an exclusive resource holds it alone. *)
LEMMA SoleOwner ==
  ASSUME NEW n \in Nat, Phase(n), ownedExclusive, NEW o \in Owner, held[o] > 0
  PROVE  /\ activeCount = 1 /\ semaphore = 0 /\ n = 0 /\ At("Register") = {}
         /\ NobodyTold /\ Holders = {o} /\ heldExclusive = {o}
BY DEF Phase, Shared, Exclusive, OneOwner, OneTold, Holders

(* The last owner releases: nobody holds the resource any more.            *)
LEMMA OwnersGone ==
  ASSUME TypeOK, OwnersFit, NEW o \in Owner, Holders = {o}, held[o] = 1, Hold(o, -1),
         table'[o] = 0, \A u \in Owner \ {o} : table'[u] = table[u],
         first'.owner \notin Owner, UNCHANGED registered,
         NEW t \in Thread, NEW w, Goto(t, w), pc[t] = "Idle", w # "WaitShared",
         o \in Thread => o = t
  PROVE  OwnersFit' /\ Holders' = {}
<1>1. /\ Holders' = {}
      /\ \A u \in Owner : held'[u] = IF u = o THEN held[u] - 1 ELSE held[u]
  BY HoldersDrop
<1>2. \A u \in Thread : pc'[u] = IF u = t THEN w ELSE pc[u]
  BY DEF TypeOK, Goto
<1>3. \A u \in Owner : held'[u] = 0
  BY <1>1 DEF Holders, TypeOK
<1>4. ASSUME NEW u \in Owner
      PROVE  Unrecorded(u)'
  <2>1. CASE u = o
    BY <1>2, <2>1 DEF Unrecorded, WaitsRegistered
  <2>2. CASE u # o
    <3>1. held[u] = 0 /\ Unrecorded(u)
      BY <2>2 DEF Holders, OwnersFit, Fits, TypeOK
    <3>2. WaitsRegistered(u)' <=> WaitsRegistered(u)
      BY <1>2 DEF WaitsRegistered
    <3> QED
      BY <2>2, <3>1, <3>2 DEF Unrecorded
  <2> QED
    BY <2>1, <2>2
<1> QED
  BY <1>1, <1>3, <1>4 DEF OwnersFit, Fits

LEMMA GrantedUnnamed == Nobody \notin Owner /\ Granted \notin Owner
BY ResourceAssumption DEF Owner

(* What the release of the last owner gives: see GiveToShared,             *)
(* GiveToExclusive and GiveToNobody.                                       *)
LEMMA GiveToSharedKeeps ==
  ASSUME TypeOK, Owing, Owes(0), WaitersCounted(0),
         semaphore = 0, At("Register") = {}, NobodyTold,
         UNCHANGED <<semaphore, event>>, OwnersFit', Holders' = {}, heldExclusive' = {},
         NEW t \in Thread, pc[t] = "Idle", sharedWaiters > 0, GiveToShared(t)
  PROVE  \E k \in Nat : Rest(k)'
<1> DEFINE m == sharedWaiters
<1>1. m \in Nat /\ m > 0
  BY DEF TypeOK
<1>2. /\ ~ownedExclusive' /\ activeCount' = m /\ sharedWaiters' = 0
      /\ number' = [number EXCEPT ![t] = m] /\ Goto(t, "ReleaseSemaphore")
  BY DEF GiveToShared
<1>3. PICK k \in Nat : k = m
  BY <1>1
<1>4. Owes(k)' /\ Owing'
  BY <1>1, <1>2, <1>3, OwesNew
<1>5. \A x \in {"Register", "SetEvent", "Awake", "WaitShared"} : At(x)' = At(x)
  BY <1>2, AtGoto
<1>6. Cardinality(Holders') = 0 /\ Cardinality(At("Register")') = 0
  BY <1>5, FS_EmptySet
<1>7. Shared(k)'
  BY <1>1, <1>2, <1>3, <1>5, <1>6 DEF Shared, NobodyTold
<1>8. WaitersCounted(k)'
  BY <1>1, <1>2, <1>3, <1>5 DEF WaitersCounted
<1>9. Rest(k)'
  BY <1>4, <1>7, <1>8 DEF Rest, Phase
<1> QED
  BY <1>9

LEMMA GiveToExclusiveKeeps ==
  ASSUME TypeOK, Owing, Owes(0), WaitersCounted(0),
         semaphore = 0, At("Register") = {}, NobodyTold,
         UNCHANGED <<semaphore, event>>, OwnersFit', Holders' = {}, heldExclusive' = {},
         NEW t \in Thread, pc[t] = "Idle", GiveToExclusive(t), first' = Entry(Granted, 1)
  PROVE  Rest(0)'
<1>1. /\ ownedExclusive' /\ activeCount' = 1
      /\ UNCHANGED <<sharedWaiters, number>> /\ Goto(t, "SetEvent")
  BY DEF GiveToExclusive
<1>2. Owing' /\ Owes(0)'
  BY <1>1, OwingSame, OwesSame
<1>3. /\ \A x \in {"Register", "Awake", "WaitShared"} : At(x)' = At(x)
      /\ At("SetEvent")' = At("SetEvent") \union {t}
  BY <1>1, AtGoto
<1>4. ~event' /\ At("SetEvent")' = {t} /\ At("Awake")' = {}
  BY <1>3 DEF NobodyTold
<1>5. OneTold'
  BY <1>4 DEF OneTold, Entry
<1>6. Exclusive(0)'
  BY <1>1, <1>3, <1>5 DEF Exclusive
<1>7. WaitersCounted(0)'
  BY <1>1, <1>3 DEF WaitersCounted
<1> QED
  BY <1>2, <1>6, <1>7 DEF Rest, Phase

LEMMA GiveToNobodyKeeps ==
  ASSUME TypeOK, Owing, Owes(0), WaitersCounted(0),
         semaphore = 0, At("Register") = {}, NobodyTold,
         UNCHANGED <<semaphore, event>>, OwnersFit', Holders' = {}, heldExclusive' = {},
         GiveToNobody, exclusiveWaiters = 0, sharedWaiters = 0
  PROVE  Rest(0)'
<1>1. /\ ~ownedExclusive' /\ activeCount' = 0
      /\ UNCHANGED <<sharedWaiters, exclusiveWaiters, pc, number>>
  BY DEF GiveToNobody
<1>2. Owing' /\ Owes(0)'
  BY <1>1 DEF Owing, Owes
<1>3. \A x \in {"Register", "SetEvent", "Awake", "WaitShared"} : At(x)' = At(x)
  BY <1>1, AtSame
<1>4. Cardinality(Holders') = 0 /\ Cardinality(At("Register")') = 0
  BY <1>3, FS_EmptySet
<1>5. Shared(0)'
  BY <1>1, <1>3, <1>4 DEF Shared, NobodyTold
<1>6. WaitersCounted(0)'
  BY <1>1, <1>3 DEF WaitersCounted
<1> QED
  BY <1>2, <1>5, <1>6 DEF Rest, Phase

LEMMA ReleaseExclusiveKeeps ==
  ASSUME NEW n \in Nat, Sound(n), NEW t \in Thread, NEW o \in Owner, ReleaseExclusive(t, o)
  PROVE  \E k \in Nat : Rest(k)'
<1>0. TypeOK /\ OwnersFit /\ Owing /\ Owes(n) /\ Phase(n) /\ WaitersCounted(n)
  BY DEF Sound, Rest
<1>1. /\ pc[t] = "Idle" /\ held[o] > 0 /\ Hold(o, -1) /\ (o \in Thread => o = t)
      /\ ownedExclusive /\ first.owner = o /\ first.count = 1
      /\ UNCHANGED <<table, semaphore, event, registered>>
      /\ heldExclusive' = heldExclusive \ {o}
  BY DEF ReleaseExclusive, Releases, signalVars
<1>2. /\ activeCount = 1 /\ semaphore = 0 /\ n = 0 /\ At("Register") = {}
      /\ NobodyTold /\ Holders = {o} /\ heldExclusive = {o}
  BY <1>0, <1>1, SoleOwner
<1>3. held[o] = 1 /\ table[o] = 0
  BY <1>0, <1>1, HolderRecorded DEF Recorded, Entry
<1>4. Owes(0) /\ WaitersCounted(0) /\ heldExclusive' = {}
  BY <1>0, <1>1, <1>2
<1>5. CASE sharedWaiters > 0
  <2>1. GiveToShared(t) /\ first' = Entry(Nobody, 0)
    BY <1>5 DEF ReleaseExclusive
  <2>2. OwnersFit' /\ Holders' = {}
    BY <1>0, <1>1, <1>2, <1>3, <2>1, OwnersGone, GrantedUnnamed DEF GiveToShared, Entry
  <2> QED
    BY <1>0, <1>1, <1>2, <1>4, <1>5, <2>1, <2>2, GiveToSharedKeeps
<1>6. CASE ~(sharedWaiters > 0) /\ exclusiveWaiters > 0
  <2>1. GiveToExclusive(t) /\ first' = Entry(Granted, 1)
    BY <1>6 DEF ReleaseExclusive
  <2>2. OwnersFit' /\ Holders' = {}
    BY <1>0, <1>1, <1>2, <1>3, <2>1, OwnersGone, GrantedUnnamed DEF GiveToExclusive, Entry
  <2>3. Rest(0)'
    BY <1>0, <1>1, <1>2, <1>4, <2>1, <2>2, GiveToExclusiveKeeps
  <2> QED
    BY <2>3
<1>7. CASE ~(sharedWaiters > 0) /\ ~(exclusiveWaiters > 0)
  <2>1. GiveToNobody /\ first' = Entry(Nobody, 0)
    BY <1>7 DEF ReleaseExclusive
  <2>2. Goto(t, "Idle")
    BY <1>0, <1>1, <2>1 DEF GiveToNobody, Goto, TypeOK
  <2>3. OwnersFit' /\ Holders' = {}
    BY <1>0, <1>1, <1>2, <1>3, <2>1, <2>2, OwnersGone, GrantedUnnamed DEF Entry
  <2>4. sharedWaiters = 0 /\ exclusiveWaiters = 0
    BY <1>0, <1>7 DEF TypeOK
  <2>5. Rest(0)'
    BY <1>0, <1>1, <1>2, <1>4, <2>1, <2>3, <2>4, GiveToNobodyKeeps
  <2> QED
    BY <2>5
<1> QED
  BY <1>5, <1>6, <1>7

(* A shared owner that is not the last one: the others keep the resource.  *)
LEMMA LeaveOwners ==
  ASSUME NEW n \in Nat, Sound(n), Shared(n), NEW o \in Owner, held[o] = 1, Hold(o, -1),
         \/ table[o] = 1 /\ table' = [table EXCEPT ![o] = 0] /\ first' = first
         \/ /\ table[o] = 0 /\ first = Entry(o, 1)
            /\ table' = table /\ first' = Entry(Nobody, 0),
         o \in Thread => pc[o] = "Idle",
         activeCount > 1, activeCount' = activeCount - 1,
         UNCHANGED <<ownedExclusive, sharedWaiters, exclusiveWaiters,
                     semaphore, event, pc, number, registered, heldExclusive>>
  PROVE  Rest(n)'
<1>0. TypeOK /\ OwnersFit /\ Owing /\ Owes(n) /\ Phase(n) /\ WaitersCounted(n)
  BY DEF Sound, Rest
<1>1. /\ Holders' = Holders \ {o} /\ o \in Holders
      /\ \A u \in Owner : held'[u] = IF u = o THEN held[u] - 1 ELSE held[u]
  BY <1>0, HoldersDrop DEF Holders
<1>2. first'.owner # o /\ table'[o] = 0
  <2>1. CASE table[o] = 1
    BY <1>0, <2>1, HolderRecorded DEF Recorded, TypeOK
  <2>2. CASE table[o] = 0
    BY <2>2, GrantedUnnamed DEF Entry
  <2> QED
    BY <2>1, <2>2
<1>3. OwnersFit'
  <2> SUFFICES ASSUME NEW u \in Owner
               PROVE  Fits(u)'
    BY DEF OwnersFit
  <2>1. CASE u = o
    BY <1>1, <1>2, <2>1 DEF Fits, Unrecorded, WaitsRegistered
  <2>2. CASE u # o
    <3>1. table'[u] = table[u]
      BY <1>0, <2>2 DEF TypeOK
    <3>2. \/ UNCHANGED first
          \/ first'.owner # u /\ first.owner # u
      BY <2>2, GrantedUnnamed DEF Entry
    <3>3. held'[u] = held[u] /\ Fits(u)
      BY <1>0, <1>1, <2>2 DEF OwnersFit
    <3> QED
      BY <1>0, <3>1, <3>2, <3>3, FitsAside
  <2> QED
    BY <2>1, <2>2
<1>4. Owing' /\ Owes(n)'
  BY <1>0 DEF Owing, Owes
<1>5. WaitersCounted(n)'
  BY <1>0, AtSame, SharedCounts DEF WaitersCounted
<1>6. Shared(n)'
  <2>1. Cardinality(Holders') = Cardinality(Holders) - 1
    BY <1>1, HoldersSubset, CountRemove
  <2>2. activeCount = Cardinality(Holders) + semaphore + n + Cardinality(At("Register"))
    BY DEF Shared
  <2>3. At("Register")' = At("Register")
    BY AtSame
  <2>4. activeCount' = Cardinality(Holders') + semaphore' + n + Cardinality(At("Register")')
    BY <1>0, <2>1, <2>2, <2>3, SharedCounts
  <2>5. ~ownedExclusive' /\ NobodyTold' /\ heldExclusive' = {}
    BY AtSame DEF Shared, NobodyTold
  <2> QED
    BY <2>4, <2>5 DEF Shared
<1> QED
  BY <1>3, <1>4, <1>5, <1>6 DEF Rest, Phase

(* An owner that is counted alone is the only one, and nobody is to come.  *)
LEMMA LastOwner ==
  ASSUME NEW n \in Nat, TypeOK, Shared(n), NEW o \in Owner, held[o] > 0, ~(activeCount > 1)
  PROVE  Holders = {o} /\ semaphore = 0 /\ n = 0 /\ At("Register") = {}
<1>1. o \in Holders
  BY DEF Holders
<1>2. Cardinality(Holders \ {o}) = Cardinality(Holders) - 1
  BY <1>1, HoldersSubset, CountRemove
<1>3. /\ Cardinality(Holders \ {o}) \in Nat
      /\ Cardinality(Holders \ {o}) = 0 <=> Holders \ {o} = {}
  BY HoldersSubset, Finite
<1>4. /\ Cardinality(At("Register")) \in Nat
      /\ Cardinality(At("Register")) = 0 <=> At("Register") = {}
  BY AtSubset, Finite
<1>5. activeCount = Cardinality(Holders) + semaphore + n + Cardinality(At("Register"))
  BY DEF Shared
<1>6. Cardinality(Holders \ {o}) = 0 /\ semaphore = 0 /\ n = 0 /\ Cardinality(At("Register")) = 0
  <2>1. \A h, a, b, c, d \in Nat :
          h - 1 \in Nat /\ a = h + b + c + d /\ ~(a > 1) => h - 1 = 0 /\ b = 0 /\ c = 0 /\ d = 0
    OBVIOUS
  <2>2. Cardinality(Holders) \in Nat /\ activeCount \in Nat /\ semaphore \in Nat
    BY SharedCounts
  <2>3. Cardinality(Holders) - 1 \in Nat
    BY <1>2, <1>3
  <2>4. Cardinality(Holders) - 1 = 0 /\ semaphore = 0 /\ n = 0 /\ Cardinality(At("Register")) = 0
    BY <1>4, <1>5, <2>1, <2>2, <2>3
  <2> QED
    BY <1>2, <2>4
<1> QED
  BY <1>1, <1>3, <1>4, <1>6

LEMMA ReleaseSharedKeeps ==
  ASSUME NEW n \in Nat, Sound(n), NEW t \in Thread, NEW o \in Owner, ReleaseShared(t, o)
  PROVE  \E k \in Nat : Rest(k)'
<1>0. TypeOK /\ OwnersFit /\ Owing /\ Owes(n) /\ Phase(n) /\ WaitersCounted(n)
  BY DEF Sound, Rest
<1>1. /\ pc[t] = "Idle" /\ held[o] > 0 /\ Hold(o, -1) /\ (o \in Thread => o = t)
      /\ ~ownedExclusive
      /\ UNCHANGED <<semaphore, event, registered, heldExclusive>>
  BY DEF ReleaseShared, Releases, signalVars
<1>2. PICK new \in {first, Entry(Nobody, 0)} :
        /\ GiveAfterShared(t, new)
        /\ \/ table[o] = 1 /\ table' = [table EXCEPT ![o] = 0] /\ new = first
           \/ table[o] = 0 /\ first = Entry(o, 1) /\ table' = table /\ new = Entry(Nobody, 0)
  BY DEF ReleaseShared
<1>3. Shared(n)
  BY <1>0, <1>1 DEF Phase, Exclusive
<1>4. held[o] = 1
  BY <1>0, <1>1, <1>2, HolderRecorded DEF Recorded, Entry
<1>5. CASE activeCount > 1
  <2>1. /\ activeCount' = activeCount - 1 /\ first' = new
        /\ UNCHANGED <<ownedExclusive, sharedWaiters, exclusiveWaiters, pc, number>>
    BY <1>2, <1>5 DEF GiveAfterShared
  <2>2. \/ table[o] = 1 /\ table' = [table EXCEPT ![o] = 0] /\ first' = first
        \/ /\ table[o] = 0 /\ first = Entry(o, 1)
           /\ table' = table /\ first' = Entry(Nobody, 0)
    BY <1>2, <2>1
  <2>3. Rest(n)'
    BY <1>1, <1>3, <1>4, <1>5, <2>1, <2>2, LeaveOwners
  <2> QED
    BY <2>3
<1>6. CASE ~(activeCount > 1)
  <2>1. Holders = {o} /\ semaphore = 0 /\ n = 0 /\ At("Register") = {}
    BY <1>0, <1>1, <1>3, <1>6, LastOwner
  <2>2. NobodyTold /\ heldExclusive' = {} /\ Owes(0) /\ WaitersCounted(0)
    BY <1>0, <1>1, <1>3, <2>1 DEF Shared
  <2>3. table'[o] = 0 /\ \A u \in Owner \ {o} : table'[u] = table[u]
    BY <1>0, <1>2 DEF TypeOK
  <2>4. CASE exclusiveWaiters > 0
    <3>1. GiveToExclusive(t) /\ first' = Entry(Granted, 1)
      BY <1>2, <1>6, <2>4 DEF GiveAfterShared
    <3>2. OwnersFit' /\ Holders' = {}
      BY <1>0, <1>1, <1>4, <2>1, <2>3, <3>1, OwnersGone, GrantedUnnamed
         DEF GiveToExclusive, Entry
    <3>3. Rest(0)'
      BY <1>0, <1>1, <2>1, <2>2, <3>1, <3>2, GiveToExclusiveKeeps
    <3> QED
      BY <3>3
  <2>5. CASE ~(exclusiveWaiters > 0)
    <3>1. GiveToNobody /\ first' = new
      BY <1>2, <1>6, <2>5 DEF GiveAfterShared
    <3>2. Goto(t, "Idle")
      BY <1>0, <1>1, <3>1 DEF GiveToNobody, Goto, TypeOK
    <3>3. first'.owner \notin Owner
      <4>1. CASE new = Entry(Nobody, 0)
        BY <3>1, <4>1, GrantedUnnamed DEF Entry
      <4>2. CASE table[o] = 1 /\ new = first
        <5>1. first.owner # o
          BY <1>0, <1>1, <4>2, HolderRecorded DEF Recorded
        <5>2. \A u \in Owner \ {o} : first.owner # u
          <6> SUFFICES ASSUME NEW u \in Owner \ {o}, first.owner = u
                       PROVE  FALSE
            OBVIOUS
          <6>1. held[u] = 0
            BY <1>0, <2>1 DEF Holders, TypeOK
          <6>2. u \in At("Awake")
            BY <1>0, <6>1 DEF OwnersFit, Fits, Unrecorded, At
          <6> QED
            BY <2>2, <6>2 DEF NobodyTold
        <5> QED
          BY <3>1, <4>2, <5>1, <5>2
      <4> QED
        BY <1>2, <4>1, <4>2
    <3>4. OwnersFit' /\ Holders' = {}
      BY <1>0, <1>1, <1>4, <2>1, <2>3, <3>2, <3>3, OwnersGone
    <3>5. exclusiveWaiters = 0 /\ sharedWaiters = 0
      BY <1>0, <1>1, <2>5 DEF TypeOK, WaitersCounted
    <3>6. Rest(0)'
      BY <1>0, <1>1, <2>1, <2>2, <3>1, <3>4, <3>5, GiveToNobodyKeeps
    <3> QED
      BY <3>6
  <2> QED
    BY <2>4, <2>5
<1> QED
  BY <1>5, <1>6

LEMMA ReleaseSemaphoreKeeps ==
  ASSUME NEW n \in Nat, Sound(n), NEW t \in Thread, ReleaseSemaphore(t)
  PROVE  Rest(0)'
<1>0. TypeOK /\ OwnersFit /\ Owing /\ Owes(n) /\ Phase(n) /\ WaitersCounted(n)
  BY DEF Sound, Rest
<1>1. /\ UNCHANGED <<activeCount, ownedExclusive, first, table, sharedWaiters, exclusiveWaiters,
                     event, registered, held, heldExclusive>>
      /\ semaphore' = semaphore + number[t] /\ number' = [number EXCEPT ![t] = 0]
      /\ pc[t] = "ReleaseSemaphore" /\ Goto(t, "Idle")
  BY DEF ReleaseSemaphore, lockVars
<1>2. number[t] > 0
  BY <1>0, <1>1 DEF Owing
<1>3. n > 0 /\ number = [u \in Thread |-> IF u = t THEN n ELSE 0]
  <2>1. n > 0 /\ \E v \in Thread : number = [u \in Thread |-> IF u = v THEN n ELSE 0]
    BY <1>0, <1>2 DEF Owes
  <2>2. PICK v \in Thread : number = [u \in Thread |-> IF u = v THEN n ELSE 0]
    BY <2>1
  <2>3. v = t
    BY <1>2, <2>2
  <2> QED
    BY <2>1, <2>2, <2>3
<1>4. semaphore' = semaphore + n /\ \A u \in Thread : number'[u] = 0
  BY <1>1, <1>3
<1>5. \A u \in Thread : pc'[u] = IF u = t THEN "Idle" ELSE pc[u]
  BY <1>0, <1>1 DEF TypeOK, Goto
<1>6. Owes(0)'
  BY <1>4 DEF Owes
<1>7. Owing'
  <2> SUFFICES ASSUME NEW u \in Thread
               PROVE  pc'[u] # "ReleaseSemaphore" /\ number'[u] = 0
    BY DEF Owing
  <2>1. u # t => number[u] = 0
    BY <1>3
  <2> QED
    BY <1>0, <1>4, <1>5, <2>1 DEF Owing
<1>8. /\ \A x \in {"Register", "SetEvent", "Awake", "WaitShared"} : At(x)' = At(x)
      /\ Holders' = Holders
  BY <1>0, <1>1, AtGoto, HoldersSame
<1>9. OwnersFit'
  <2> SUFFICES ASSUME NEW o \in Owner
               PROVE  Fits(o)'
    BY DEF OwnersFit
  <2>1. CASE o = t
    BY <1>0, <1>1, <1>5, <2>1
       DEF OwnersFit, Fits, Recorded, Unrecorded, WaitsRegistered
  <2>2. CASE o # t
    BY <1>0, <1>1, <1>5, <2>2, FitsAside DEF OwnersFit
  <2> QED
    BY <2>1, <2>2
<1>10. Shared(n)
  BY <1>0, <1>3 DEF Phase, Exclusive
<1>11. Shared(0)'
  <2>1. activeCount = Cardinality(Holders) + semaphore + n + Cardinality(At("Register"))
    BY <1>10 DEF Shared
  <2>2. activeCount' = Cardinality(Holders') + semaphore' + 0 + Cardinality(At("Register")')
    BY <1>0, <1>1, <1>4, <1>8, <2>1, SharedCounts
  <2>3. ~ownedExclusive' /\ NobodyTold' /\ heldExclusive' = {}
    BY <1>1, <1>8, <1>10 DEF Shared, NobodyTold
  <2> QED
    BY <2>2, <2>3 DEF Shared
<1>12. WaitersCounted(0)'
  BY <1>0, <1>1, <1>4, <1>8, SharedCounts DEF WaitersCounted
<1> QED
  BY <1>6, <1>7, <1>9, <1>11, <1>12 DEF Rest, Phase

LEMMA SetEventKeeps ==
  ASSUME NEW n \in Nat, Sound(n), NEW t \in Thread, SetEvent(t)
  PROVE  Rest(n)'
<1>0. TypeOK /\ OwnersFit /\ Owing /\ Owes(n) /\ Phase(n) /\ WaitersCounted(n)
  BY DEF Sound, Rest
<1>1. /\ UNCHANGED <<activeCount, ownedExclusive, table, sharedWaiters, exclusiveWaiters,
                     semaphore, number, registered, held, heldExclusive>>
      /\ pc[t] = "SetEvent" /\ t \in At("SetEvent")
      /\ Holders' = Holders
  BY HoldersSame DEF SetEvent, At
<1>2. Exclusive(n) /\ OneTold /\ At("SetEvent") = {t} /\ At("Awake") = {} /\ ~event
  BY <1>0, <1>1 DEF Phase, Exclusive, Shared, OneOwner, OneTold, NobodyTold
<1>3. first.count = 1 /\ Holders = {} /\ heldExclusive = {}
  BY <1>2 DEF OneTold
<1>4. \A o \in Owner : held[o] = 0 /\ Unrecorded(o)
  BY <1>0, <1>3 DEF Holders, OwnersFit, Fits, TypeOK
<1>5. \A o \in Owner : first.owner # o
  <2> SUFFICES ASSUME NEW o \in Owner, first.owner = o
               PROVE  FALSE
    OBVIOUS
  <2>1. o \in At("Awake")
    BY <1>4 DEF Unrecorded, At
  <2> QED
    BY <1>2, <2>1
<1>6. CASE event' = TRUE /\ Goto(t, "Idle") /\ UNCHANGED first
  <2>1. /\ \A x \in {"Register", "Awake", "WaitShared"} : At(x)' = At(x)
        /\ At("SetEvent")' = {}
    BY <1>0, <1>1, <1>2, <1>6, AtGoto
  <2>2. \A u \in Thread : pc'[u] = IF u = t THEN "Idle" ELSE pc[u]
    BY <1>0, <1>6 DEF TypeOK, Goto
  <2>3. OwnersFit'
    <3> SUFFICES ASSUME NEW o \in Owner
                 PROVE  Fits(o)'
      BY DEF OwnersFit
    <3>1. WaitsRegistered(o)' <=> WaitsRegistered(o)
      BY <1>1, <2>2 DEF WaitsRegistered
    <3> QED
      BY <1>1, <1>4, <1>5, <1>6, <3>1 DEF Fits, Unrecorded
  <2>4. Owing' /\ Owes(n)'
    BY <1>0, <1>1, <1>6, OwingSame, OwesSame
  <2>5. WaitersCounted(n)'
    BY <1>0, <1>1, <2>1 DEF WaitersCounted
  <2>6. event'
    BY <1>6
  <2>7. OneTold'
    BY <1>1, <1>2, <1>3, <1>6, <2>1, <2>6 DEF OneTold
  <2>8. Exclusive(n)'
    BY <1>1, <1>2, <2>1, <2>7 DEF Exclusive
  <2> QED
    BY <2>3, <2>4, <2>5, <2>8 DEF Rest, Phase
<1>7. ASSUME NEW u \in Thread, pc[u] = "WaitExclusive",
             first' = [first EXCEPT !.owner = u],
             pc' = [pc EXCEPT ![t] = "Idle", ![u] = "Awake"],
             UNCHANGED event
      PROVE  Rest(n)'
  <2>1. /\ u # t
        /\ \A v \in Thread : pc'[v] = IF v = u THEN "Awake" ELSE IF v = t THEN "Idle" ELSE pc[v]
    BY <1>0, <1>1, <1>7 DEF TypeOK
  <2>0. pc[t] = "SetEvent" /\ pc[u] = "WaitExclusive" /\ UNCHANGED <<registered, number>>
    BY <1>1, <1>7
  <2>2. At("Register")' = At("Register") /\ At("WaitShared")' = At("WaitShared")
    BY <2>0, <2>1 DEF At
  <2>3. At("SetEvent")' = {} /\ At("Awake")' = {u}
    <3>1. At("SetEvent")' = At("SetEvent") \ {t}
      BY <2>0, <2>1 DEF At
    <3>2. At("Awake")' = At("Awake") \union {u}
      BY <2>0, <2>1 DEF At
    <3> QED
      BY <1>2, <3>1, <3>2
  <2>4. OwnersFit'
    <3> SUFFICES ASSUME NEW o \in Owner
                 PROVE  Fits(o)'
      BY DEF OwnersFit
    <3>1. WaitsRegistered(o)' <=> WaitsRegistered(o)
      BY <2>0, <2>1 DEF WaitsRegistered
    <3>2. first'.owner = u /\ u \in Owner
      BY <1>0, <1>7 DEF TypeOK, Owner
    <3>3. held'[o] = 0 /\ table'[o] = IF WaitsRegistered(o)' THEN 1 ELSE 0
      BY <1>1, <1>4, <3>1 DEF Unrecorded
    <3>4. first'.owner = o => o \in Thread /\ pc'[o] = "Awake"
      BY <2>1, <3>2
    <3> QED
      BY <3>3, <3>4 DEF Fits, Unrecorded
  <2>5. Owing' /\ Owes(n)'
    BY <1>0, <2>0, <2>1 DEF Owing, Owes
  <2>6. WaitersCounted(n)'
    BY <1>0, <1>1, <2>2 DEF WaitersCounted
  <2>7. OneTold'
    <3>1. first'.count = 1 /\ ~event'
      BY <1>0, <1>2, <1>3, <1>7 DEF TypeOK
    <3> QED
      BY <1>1, <1>3, <2>3, <3>1 DEF OneTold
  <2>8. Exclusive(n)'
    BY <1>1, <1>2, <2>2, <2>7 DEF Exclusive
  <2> QED
    BY <2>4, <2>5, <2>6, <2>8 DEF Rest, Phase
<1> QED
  BY <1>6, <1>7 DEF SetEvent

LEMMA ConvertKeeps ==
  ASSUME NEW n \in Nat, Sound(n), NEW t \in Thread, Convert(t)
  PROVE  \E k \in Nat : Rest(k)'
<1>0. TypeOK /\ OwnersFit /\ Owing /\ Owes(n) /\ Phase(n) /\ WaitersCounted(n)
  BY DEF Sound, Rest
<1>1. /\ t \in Owner /\ pc[t] = "Idle" /\ held[t] > 0 /\ ownedExclusive /\ first.owner = t
      /\ UNCHANGED <<first, table, exclusiveWaiters, semaphore, event, registered, held>>
      /\ ~ownedExclusive' /\ activeCount' = activeCount + sharedWaiters /\ sharedWaiters' = 0
      /\ heldExclusive' = heldExclusive \ {t}
      /\ Holders' = Holders
  BY HoldersSame DEF Convert, OwnsExclusive, Owner, signalVars
<1>2. /\ activeCount = 1 /\ semaphore = 0 /\ n = 0 /\ At("Register") = {}
      /\ NobodyTold /\ Holders = {t} /\ heldExclusive = {t}
  BY <1>0, <1>1, SoleOwner
<1>3. \E k \in Nat : k = sharedWaiters
  BY <1>0 DEF TypeOK
<1>4. PICK k \in Nat : k = sharedWaiters
  BY <1>3
<1>5. PICK w \in {"Idle", "ReleaseSemaphore"} : Goto(t, w) /\ (w = "ReleaseSemaphore" <=> k > 0)
  <2>1. CASE k > 0
    BY <1>4, <2>1 DEF Convert
  <2>2. CASE ~(k > 0)
    <3>1. pc' = pc
      BY <1>4, <2>2 DEF Convert
    <3>2. Goto(t, "Idle")
      BY <1>0, <1>1, <3>1 DEF TypeOK, Goto
    <3> QED
      BY <2>2, <3>2
  <2> QED
    BY <2>1, <2>2
<1>6. \A u \in Thread : pc'[u] = IF u = t THEN w ELSE pc[u]
  BY <1>0, <1>5 DEF TypeOK, Goto
<1>7. \A x \in {"Register", "SetEvent", "Awake", "WaitShared"} : At(x)' = At(x)
  BY <1>0, <1>1, <1>5, AtGoto
<1>8. Owes(k)' /\ Owing'
  <2>1. CASE k > 0
    <3>1. number' = [number EXCEPT ![t] = k] /\ Goto(t, "ReleaseSemaphore")
      BY <1>4, <2>1 DEF Convert
    <3> QED
      BY <1>0, <1>2, <2>1, <3>1, OwesNew
  <2>2. CASE ~(k > 0)
    <3>1. k = n /\ UNCHANGED <<number, pc>>
      BY <1>2, <1>4, <2>2 DEF Convert
    <3> QED
      BY <1>0, <3>1 DEF Owes, Owing
  <2> QED
    BY <2>1, <2>2
<1>9. OwnersFit'
  <2> SUFFICES ASSUME NEW o \in Owner
               PROVE  Fits(o)'
    BY DEF OwnersFit
  <2>1. CASE o = t
    <3>1. first = Entry(t, held[t]) /\ table[t] = 0
      BY <1>0, <1>1, HolderRecorded DEF Recorded
    <3> QED
      BY <1>1, <1>6, <2>1, <3>1 DEF Fits, Recorded
  <2>2. CASE o # t
    <3>1. held[o] = 0 /\ Unrecorded(o)
      BY <1>0, <1>2, <2>2 DEF Holders, OwnersFit, Fits, TypeOK
    <3> QED
      BY <1>1, <1>6, <2>2, <3>1 DEF Fits, Unrecorded, WaitsRegistered
  <2> QED
    BY <2>1, <2>2
<1>10. Shared(k)'
  <2>1. Cardinality(Holders') = 1 /\ Cardinality(At("Register")') = 0
    BY <1>1, <1>2, <1>7, CountOne, FS_EmptySet
  <2>2. activeCount' = Cardinality(Holders') + semaphore' + k + Cardinality(At("Register")')
    BY <1>1, <1>2, <1>4, <2>1
  <2>3. NobodyTold' /\ heldExclusive' = {}
    BY <1>1, <1>2, <1>7 DEF NobodyTold
  <2> QED
    BY <1>1, <2>2, <2>3 DEF Shared
<1>11. WaitersCounted(k)'
  BY <1>0, <1>1, <1>2, <1>4, <1>7, SharedCounts DEF WaitersCounted
<1> QED
  BY <1>8, <1>9, <1>10, <1>11 DEF Rest, Phase

LEMMA SetOwnerPointerKeeps ==
  ASSUME NEW n \in Nat, Sound(n), NEW t \in Thread, NEW p \in Pointer, SetOwnerPointer(t, p)
  PROVE  Rest(n)'
<1>0. TypeOK /\ OwnersFit /\ Owing /\ Owes(n) /\ Phase(n) /\ WaitersCounted(n)
  BY DEF Sound, Rest
<1>1. p # t /\ p \notin Thread /\ p \in Owner /\ t \in Owner
  BY ResourceAssumption DEF Owner
<1>2. /\ pc[t] = "Idle" /\ held[t] > 0
      /\ UNCHANGED <<ownedExclusive, sharedWaiters, exclusiveWaiters, semaphore, event, pc,
                     number, registered>>
      /\ heldExclusive' = IF t \in heldExclusive THEN {p} ELSE heldExclusive
      /\ held' = [held EXCEPT ![t] = 0, ![p] = @ + held[t]]
  BY DEF SetOwnerPointer, signalVars
<1>3. /\ held[t] \in Nat /\ held[p] \in Nat
      /\ \A o \in Owner : held'[o] = IF o = t THEN 0
                                     ELSE IF o = p THEN held[p] + held[t] ELSE held[o]
  BY <1>0, <1>1, <1>2 DEF TypeOK
<1>4. Holders' = (Holders \ {t}) \union {p} /\ t \in Holders
  BY <1>0, <1>1, <1>2, <1>3 DEF Holders, TypeOK
<1>5. Recorded(t)
  BY <1>0, <1>1, <1>2, HolderRecorded
<1>6. /\ held[p] > 0 => Recorded(p)
      /\ held[p] = 0 => table[p] = 0 /\ first.owner # p
  BY <1>0, <1>1 DEF OwnersFit, Fits, Unrecorded, WaitsRegistered
(* The entries of t and p after the step, and how many there are. *)
<1>7. /\ Recorded(p)' /\ table'[t] = 0 /\ first'.owner # t
      /\ \A o \in Owner \ {t, p} : /\ table'[o] = table[o]
                                   /\ first'.owner = o <=> first.owner = o
                                   /\ first.owner = o => first' = first
      /\ activeCount' = IF held[p] > 0 THEN activeCount - 1 ELSE activeCount
  <2>1. CASE first.owner = t /\ (ownedExclusive \/ table[p] = 0)
    <3>1. first' = [first EXCEPT !.owner = p] /\ UNCHANGED <<table, activeCount>>
      BY <2>1 DEF SetOwnerPointer
    <3>2. first = Entry(t, held[t]) /\ table[t] = 0
      BY <1>5, <2>1 DEF Recorded
    <3>3. first' = Entry(p, held[t])
      BY <3>1, <3>2 DEF Entry
    <3>4. held[p] = 0 /\ table[p] = 0
      BY <1>1, <1>3, <1>6, <2>1, <3>2 DEF Recorded, Entry
    <3>5. Recorded(p)'
      BY <1>1, <1>3, <3>1, <3>3, <3>4 DEF Recorded
    <3> QED
      BY <1>1, <3>1, <3>2, <3>3, <3>4, <3>5 DEF Entry
  <2>2. CASE first.owner = t /\ ~(ownedExclusive \/ table[p] = 0)
    <3>1. /\ table' = [table EXCEPT ![p] = @ + first.count]
          /\ first' = Entry(Nobody, 0) /\ activeCount' = activeCount - 1
      BY <2>2 DEF SetOwnerPointer
    <3>2. first = Entry(t, held[t]) /\ table[t] = 0
      BY <1>5, <2>2 DEF Recorded
    <3>3. held[p] > 0 /\ table[p] = held[p]
      BY <1>1, <1>3, <1>6, <2>2, <3>2 DEF Recorded, Entry
    <3>4. first.count = held[t]
      BY <3>2 DEF Entry
    <3>5. \A o \in Owner : table'[o] = IF o = p THEN held[p] + held[t] ELSE table[o]
      BY <1>0, <1>1, <3>1, <3>3, <3>4 DEF TypeOK
    <3>6. first'.owner \notin Owner
      BY <3>1, GrantedUnnamed DEF Entry
    <3>7. Recorded(p)'
      BY <1>1, <1>2, <1>3, <2>2, <3>5, <3>6 DEF Recorded
    <3> QED
      BY <1>1, <2>2, <3>1, <3>2, <3>3, <3>5, <3>6, <3>7 DEF Entry
  <2>3. CASE first.owner # t /\ first.owner = p
    <3>1. /\ first' = [first EXCEPT !.count = @ + table[t]]
          /\ table' = [table EXCEPT ![t] = 0] /\ activeCount' = activeCount - 1
      BY <2>3 DEF SetOwnerPointer
    <3>2. table[t] = held[t]
      BY <1>5, <2>3 DEF Recorded, Entry
    <3>3. held[p] > 0 /\ first = Entry(p, held[p]) /\ table[p] = 0
      BY <1>3, <1>6, <2>3 DEF Recorded
    <3>4. first' = Entry(p, held[p] + held[t])
      BY <3>1, <3>2, <3>3 DEF Entry
    <3>5. \A o \in Owner : table'[o] = IF o = t THEN 0 ELSE table[o]
      BY <1>0, <1>1, <3>1 DEF TypeOK
    <3>6. Recorded(p)'
      BY <1>1, <1>3, <3>3, <3>4, <3>5 DEF Recorded
    <3> QED
      BY <1>1, <2>3, <3>1, <3>3, <3>4, <3>5, <3>6 DEF Entry
  <2>4. CASE first.owner # t /\ first.owner # p
    <3>1. /\ table' = [table EXCEPT ![t] = 0, ![p] = @ + table[t]]
          /\ activeCount' = IF table[p] > 0 THEN activeCount - 1 ELSE activeCount
          /\ UNCHANGED first
      BY <2>4 DEF SetOwnerPointer
    <3>2. table[t] = held[t] /\ ~ownedExclusive
      BY <1>5, <2>4 DEF Recorded, Entry
    <3>3. table[p] = held[p]
      BY <1>3, <1>6, <2>4 DEF Recorded, Entry
    <3>4. \A o \in Owner : table'[o] = IF o = t THEN 0
                                       ELSE IF o = p THEN held[p] + held[t] ELSE table[o]
      BY <1>0, <1>1, <3>1, <3>2, <3>3 DEF TypeOK
    <3>5. Recorded(p)'
      BY <1>1, <1>2, <1>3, <2>4, <3>1, <3>2, <3>4 DEF Recorded
    <3> QED
      BY <1>1, <2>4, <3>1, <3>3, <3>4, <3>5
  <2> QED
    BY <2>1, <2>2, <2>3, <2>4
<1>8. OwnersFit'
  <2> SUFFICES ASSUME NEW o \in Owner
               PROVE  Fits(o)'
    BY DEF OwnersFit
  <2>1. CASE o = t
    <3>1. held'[t] = 0 /\ pc'[t] = "Idle"
      BY <1>1, <1>2, <1>3
    <3>2. ~WaitsRegistered(t)'
      BY <3>1 DEF WaitsRegistered
    <3>3. Unrecorded(t)'
      BY <1>7, <3>2 DEF Unrecorded
    <3> QED
      BY <2>1, <3>1, <3>3 DEF Fits
  <2>2. CASE o = p
    <3>1. held'[p] > 0
      <4>1. held'[p] = held[p] + held[t]
        BY <1>1, <1>3
      <4> QED
        BY <1>2, <1>3, <4>1
    <3>2. ~(held'[p] = 0)
      BY <3>1
    <3>3. Recorded(p)'
      BY <1>7
    <3> QED
      BY <1>1, <2>2, <3>1, <3>2, <3>3 DEF Fits
  <2>3. CASE o # t /\ o # p
    <3>1. /\ held'[o] = held[o] /\ table'[o] = table[o] /\ Fits(o)
          /\ first'.owner = o <=> first.owner = o
          /\ first.owner = o => first' = first
      BY <1>0, <1>3, <1>7, <2>3 DEF OwnersFit
    <3> QED
      BY <1>0, <1>2, <3>1, FitsAside
  <2> QED
    BY <2>1, <2>2, <2>3
<1>9. Owing' /\ Owes(n)'
  BY <1>0, <1>2 DEF Owing, Owes
<1>10. held[p] > 0 => Cardinality(Holders') = Cardinality(Holders) - 1
  <2> SUFFICES ASSUME held[p] > 0
               PROVE  Cardinality(Holders') = Cardinality(Holders) - 1
    OBVIOUS
  <2>1. Holders' = Holders \ {t}
    BY <1>1, <1>4 DEF Holders
  <2> QED
    BY <1>4, <2>1, HoldersSubset, CountRemove
<1>11. held[p] = 0 => Cardinality(Holders') = Cardinality(Holders)
  <2> SUFFICES ASSUME held[p] = 0
               PROVE  Cardinality(Holders') = Cardinality(Holders)
    OBVIOUS
  <2>1. p \notin Holders \ {t} /\ Holders \ {t} \subseteq Owner
    BY <1>3 DEF Holders
  <2>2. Cardinality(Holders') = Cardinality(Holders \ {t}) + 1
    BY <1>1, <1>4, <2>1, CountAdd
  <2>3. Cardinality(Holders \ {t}) = Cardinality(Holders) - 1
    BY <1>4, HoldersSubset, CountRemove
  <2> QED
    BY <1>0, <2>2, <2>3, SharedCounts
<1>12. CASE ownedExclusive
  <2>1. /\ activeCount = 1 /\ semaphore = 0 /\ n = 0 /\ At("Register") = {}
        /\ NobodyTold /\ Holders = {t} /\ heldExclusive = {t}
    BY <1>0, <1>1, <1>2, <1>12, SoleOwner
  <2>2. held[p] = 0
    BY <1>1, <1>3, <2>1 DEF Holders
  <2>3. Holders' = {p} /\ heldExclusive' = {p} /\ activeCount' = 1
    BY <1>2, <1>4, <1>7, <2>1, <2>2
  <2>4. OneOwner'
    BY <1>1, <1>2, <2>1, <2>3, AtSame DEF OneOwner, NobodyTold
  <2>5. Exclusive(n)'
    BY <1>2, <1>12, <2>1, <2>3, <2>4, AtSame DEF Exclusive
  <2>6. WaitersCounted(n)'
    BY <1>0, <1>2, <2>3, AtSame DEF WaitersCounted
  <2> QED
    BY <1>8, <1>9, <2>5, <2>6 DEF Rest, Phase
<1>13. CASE ~ownedExclusive
  <2>1. Shared(n)
    BY <1>0, <1>13 DEF Phase, Exclusive
  <2>2. activeCount = Cardinality(Holders) + semaphore + n + Cardinality(At("Register"))
    BY <2>1 DEF Shared
  <2>3. At("Register")' = At("Register") /\ At("WaitShared")' = At("WaitShared")
    BY <1>2, AtSame
  <2>4. activeCount' = Cardinality(Holders') + semaphore' + n + Cardinality(At("Register")')
    <3>1. held[p] > 0 \/ held[p] = 0
      BY <1>3
    <3> QED
      BY <1>0, <1>2, <1>7, <1>10, <1>11, <2>2, <2>3, <3>1, SharedCounts
  <2>5. ~ownedExclusive' /\ NobodyTold' /\ heldExclusive' = {}
    BY <1>2, <1>13, <2>1, AtSame DEF Shared, NobodyTold
  <2>6. Shared(n)'
    BY <2>4, <2>5 DEF Shared
  <2>7. activeCount' # 0
    <3>1. p \in Holders' /\ Holders' \subseteq Owner
      BY <1>1, <1>4 DEF Holders
    <3>2. Cardinality(Holders') \in Nat /\ Cardinality(Holders') # 0
      BY <3>1, Finite
    <3> QED
      BY <1>0, <1>2, <2>3, <2>4, <3>2, SharedCounts
  <2>8. WaitersCounted(n)'
    BY <1>0, <1>2, <2>3, <2>7 DEF WaitersCounted
  <2> QED
    BY <1>8, <1>9, <2>6, <2>8 DEF Rest, Phase
<1> QED
  BY <1>12, <1>13
-----------------------------------------------------------------------------
LEMMA InitInv == Init => Inv
<1> SUFFICES ASSUME Init
             PROVE  Sound(0)
  BY DEF Inv
<1>1. TypeOK
  <2>1. ownedExclusive \in BOOLEAN /\ event \in BOOLEAN
    BY Zenon DEF Init
  <2> QED
    BY <2>1 DEF Init, TypeOK, Entry
<1>2. Holders = {} /\ \A w : w # "Idle" => At(w) = {}
  BY DEF Init, Holders, At
<1>3. OwnersFit
  BY GrantedUnnamed DEF Init, OwnersFit, Fits, Unrecorded, WaitsRegistered, Entry
<1>4. Owing /\ Owes(0)
  BY DEF Init, Owing, Owes
<1>5. /\ Cardinality(Holders) = 0 /\ Cardinality(At("Register")) = 0
      /\ Cardinality(At("WaitShared")) = 0
  BY <1>2, FS_EmptySet
<1>6. Shared(0)
  <2>1. ~ownedExclusive /\ ~event
    BY Zenon DEF Init
  <2> QED
    BY <1>2, <1>5, <2>1 DEF Init, Shared, NobodyTold
<1>7. WaitersCounted(0)
  BY <1>5 DEF Init, WaitersCounted
<1> QED
  BY <1>1, <1>3, <1>4, <1>6, <1>7 DEF Sound, Rest, Phase

LEMMA NextInv == Inv /\ [Next]_vars => Inv'
<1> SUFFICES ASSUME Inv, [Next]_vars
             PROVE  Inv'
  OBVIOUS
<1>1. PICK n \in Nat : Sound(n)
  BY DEF Inv
<1>2. TypeOK'
  BY <1>1, TypeStep
<1> SUFFICES \E k \in Nat : Rest(k)'
  BY <1>2 DEF Inv, Sound
<1>3. ASSUME NEW t \in Thread, Acquire(t)
      PROVE  Rest(n)'
  BY <1>1, <1>3, AgainExclusiveKeeps, TakeExclusiveKeeps, QueueExclusiveKeeps, TakeFreeKeeps,
     RefuseKeeps, AgainSharedKeeps, JoinOwnersKeeps, QueueSharedKeeps DEF Acquire
<1>4. ASSUME NEW t \in Thread, Waiting(t)
      PROVE  Rest(n)'
  BY <1>1, <1>4, TakeEventKeeps, NameOwnerKeeps, TakeSemaphoreKeeps, RegisterKeeps DEF Waiting
<1>5. ASSUME NEW t \in Thread, Signal(t)
      PROVE  \E k \in Nat : Rest(k)'
  BY <1>1, <1>5, ReleaseSemaphoreKeeps, SetEventKeeps DEF Signal
<1>6. ASSUME NEW t \in Thread, NEW o \in Owner, Release(t, o)
      PROVE  \E k \in Nat : Rest(k)'
  BY <1>1, <1>6, ReleaseAgainKeeps, ReleaseExclusiveKeeps, ReleaseSharedKeeps DEF Release
<1>7. ASSUME NEW t \in Thread, Convert(t)
      PROVE  \E k \in Nat : Rest(k)'
  BY <1>1, <1>7, ConvertKeeps
<1>8. ASSUME NEW t \in Thread, NEW p \in Pointer, SetOwnerPointer(t, p)
      PROVE  Rest(n)'
  BY <1>1, <1>8, SetOwnerPointerKeeps
<1>9. CASE UNCHANGED vars
  BY <1>1, <1>9, RestSame DEF vars, lockVars, signalVars, Sound
<1> QED
  BY <1>3, <1>4, <1>5, <1>6, <1>7, <1>8, <1>9 DEF Next

LEMMA InvHolds == Spec => []Inv
BY InitInv, NextInv, PTL DEF Spec
-----------------------------------------------------------------------------
(* ActiveCount counts the owners, each of whom has one entry with its      *)
(* count, and an exclusive owner is alone: through recursion, conversion,  *)
(* owner pointers and releases that give the resource to waiters who learn *)
(* of it later, or to threads that come in before them.                    *)
THEOREM OwnersAgree == Spec => []OwnersConsistent
<1>1. Inv => OwnersConsistent
  <2> SUFFICES ASSUME NEW n \in Nat, Sound(n)
               PROVE  OwnersConsistent
    BY DEF Inv
  <2>0. TypeOK /\ OwnersFit /\ Owes(n) /\ Phase(n)
    BY DEF Sound, Rest
  <2>1. MutualExclusion
    BY <2>0 DEF MutualExclusion, Phase, Exclusive, Shared, OneOwner, OneTold
  <2>2. OwnersRecorded
    BY <2>0, HolderRecorded DEF OwnersRecorded, Recorded, Holders
  <2>3. ActiveCountIsOwners
    <3>1. CASE Shared(n)
      <4>1. /\ activeCount = Cardinality(Holders) + semaphore + n + Cardinality(At("Register"))
            /\ ~event /\ Cardinality(At("SetEvent")) = 0 /\ Cardinality(At("Awake")) = 0
            /\ ~ownedExclusive
        BY <3>1, FS_EmptySet DEF Shared, NobodyTold
      <4>2. n \in 0..activeCount
        BY <2>0, <4>1, SharedCounts
      <4> QED
        BY <2>0, <4>1, <4>2, SharedCounts DEF ActiveCountIsOwners
    <3>2. CASE Exclusive(n) /\ OneOwner
      <4>1. /\ Cardinality(Holders) = 1 /\ Cardinality(At("Register")) = 0
            /\ ~event /\ Cardinality(At("SetEvent")) = 0 /\ Cardinality(At("Awake")) = 0
        BY <3>2, FS_EmptySet, CountOne DEF Exclusive, OneOwner, NobodyTold
      <4>2. activeCount = 1 /\ semaphore = 0 /\ n = 0 /\ 0 \in 0..activeCount
        BY <3>2 DEF Exclusive
      <4> QED
        BY <2>0, <4>1, <4>2 DEF ActiveCountIsOwners
    <3>3. CASE Exclusive(n) /\ OneTold
      <4>1. Cardinality(Holders) = 0 /\ Cardinality(At("Register")) = 0
        BY <3>3, FS_EmptySet DEF Exclusive, OneTold
      <4>2. activeCount = 1 /\ semaphore = 0 /\ n = 0 /\ 0 \in 0..activeCount
        BY <3>3 DEF Exclusive
      <4>3. (IF event THEN 1 ELSE 0) + Cardinality(At("SetEvent")) + Cardinality(At("Awake")) = 1
        <5>1. CASE event /\ At("SetEvent") = {} /\ At("Awake") = {}
          <6>1. Cardinality(At("SetEvent")) = 0 /\ Cardinality(At("Awake")) = 0
            BY <5>1, FS_EmptySet
          <6> QED
            BY <5>1, <6>1
        <5>2. ASSUME NEW t \in Thread, ~event, At("SetEvent") = {t}, At("Awake") = {}
              PROVE  (IF event THEN 1 ELSE 0) + Cardinality(At("SetEvent")) + Cardinality(At("Awake")) = 1
          <6>1. Cardinality(At("SetEvent")) = 1 /\ Cardinality(At("Awake")) = 0
            BY <5>2, FS_EmptySet, CountOne
          <6> QED
            BY <5>2, <6>1
        <5>3. ASSUME NEW t \in Thread, ~event, At("SetEvent") = {}, At("Awake") = {t}
              PROVE  (IF event THEN 1 ELSE 0) + Cardinality(At("SetEvent")) + Cardinality(At("Awake")) = 1
          <6>1. Cardinality(At("SetEvent")) = 0 /\ Cardinality(At("Awake")) = 1
            BY <5>3, FS_EmptySet, CountOne
          <6> QED
            BY <5>3, <6>1
        <5> QED
          BY <3>3, <5>1, <5>2, <5>3 DEF OneTold
      <4>4. Cardinality(At("SetEvent")) \in Nat /\ Cardinality(At("Awake")) \in Nat
        BY AtSubset, Finite
      <4> QED
        BY <2>0, <4>1, <4>2, <4>3, <4>4 DEF ActiveCountIsOwners
    <3> QED
      BY <2>0, <3>1, <3>2, <3>3 DEF Phase, Exclusive
  <2> QED
    BY <2>0, <2>1, <2>2, <2>3 DEF OwnersConsistent
<1> QED
  BY <1>1, InvHolds, PTL

(* While nobody owns the resource nobody waits for it or has an entry, and *)
(* shared waiters wait behind an exclusive owner or exclusive waiters.     *)
THEOREM WaitersBehindOwners == Spec => []WaitersHaveACause
<1>1. Inv => WaitersHaveACause
  <2> SUFFICES ASSUME NEW n \in Nat, Sound(n)
               PROVE  WaitersHaveACause
    BY DEF Inv
  <2>0. TypeOK /\ OwnersFit /\ Phase(n) /\ WaitersCounted(n)
    BY DEF Sound, Rest
  <2>1. ASSUME activeCount = 0
        PROVE  exclusiveWaiters = 0 /\ \A o \in Owner : table[o] = 0
    <3>1. /\ ~ownedExclusive
          /\ Holders = {} /\ semaphore = 0 /\ n = 0
      BY <2>0, <2>1, NoOwners
    <3>2. exclusiveWaiters = 0 /\ sharedWaiters = 0
      BY <2>0, <2>1, <3>1 DEF WaitersCounted, TypeOK
    <3>3. At("WaitShared") = {}
      BY <2>0, <3>1, <3>2, AtSubset, Finite DEF WaitersCounted
    <3>4. \A o \in Owner : held[o] = 0 /\ ~WaitsRegistered(o)
      BY <2>0, <3>1, <3>3 DEF Holders, WaitsRegistered, At, TypeOK
    <3> QED
      BY <2>0, <3>2, <3>4 DEF OwnersFit, Fits, Unrecorded
  <2> QED
    BY <2>0, <2>1 DEF WaitersHaveACause, WaitersCounted
<1> QED
  BY <1>1, InvHolds, PTL

-----------------------------------------------------------------------------
(***************************************************************************)
(*                                 HIVE                                    *)
(***************************************************************************)
-----------------------------------------------------------------------------
(***************************************************************************)
(* The cells and their contents.                                           *)
(***************************************************************************)
LEMMA CellsDiffer ==
  /\ Header # Stamp /\ Header # LogHeader /\ Header # LogVector
  /\ LogHeader # LogVector /\ LogHeader # Stamp /\ LogVector # Stamp
  /\ \A s : /\ Data(s) \notin {Header, Stamp, LogHeader, LogVector}
            /\ LogData(s) \notin {Header, Stamp, LogHeader, LogVector}
            /\ \A r : Data(s) # LogData(r)
  /\ \A s, r : /\ Data(s) = Data(r) => s = r
               /\ LogData(s) = LogData(r) => s = r
BY DEF Header, Stamp, Data, LogHeader, LogVector, LogData

LEMMA Files ==
  /\ Primary \union Log = Cells /\ Primary \subseteq Cells /\ Log \subseteq Cells
  /\ Header \in Primary /\ Stamp \in Primary /\ LogHeader \in Log /\ LogVector \in Log
  /\ \A s \in Sector : Data(s) \in Primary /\ LogData(s) \in Log
  /\ \A c \in Log : c \notin Primary
<1>1. \A c \in Log : c \notin Primary
  BY CellsDiffer DEF Log, Primary
<1> QED
  BY <1>1 DEF Cells, Primary, Log

LEMMA ContentsOf ==
  /\ \A c \in Headers : Contents(c) = {Unreadable} \union [equal : BOOLEAN, stamp : 0..MaxChanges]
  /\ Contents(LogVector) = {Unreadable} \union SUBSET Sector
  /\ Contents(Stamp) = {Unreadable} \union (-Sectors..MaxChanges)
  /\ \A s : /\ Contents(Data(s)) = {Unreadable} \union (-Sectors..MaxChanges)
            /\ Contents(LogData(s)) = {Unreadable} \union (-Sectors..MaxChanges)
  /\ \A c : Unreadable \in Contents(c)
BY CellsDiffer DEF Contents, Headers

(***************************************************************************)
(* The places of sectors in the log.                                       *)
(***************************************************************************)
UpTo(v, s) == {r \in v : r <= s}

LEMMA UpToFinite ==
  ASSUME NEW v \in SUBSET Sector, NEW s
  PROVE  /\ IsFiniteSet(UpTo(v, s)) /\ UpTo(v, s) \subseteq Sector
         /\ Cardinality(UpTo(v, s)) \in Nat /\ Cardinality(UpTo(v, s)) <= Sectors
         /\ Place(v, s) = Cardinality(UpTo(v, s))
<1>1. IsFiniteSet(Sector) /\ Cardinality(Sector) = Sectors
  <2>1. Sectors \in Nat
    BY HiveAssumption
  <2>2. IsFiniteSet(1..Sectors)
    BY <2>1, FS_Interval
  <2>3. Cardinality(1..Sectors) = Sectors
    <3>1. Cardinality(1..Sectors) = IF 1 > Sectors THEN 0 ELSE Sectors - 1 + 1
      BY <2>1, FS_Interval
    <3> QED
      BY <2>1, <3>1
  <2> QED
    BY <2>2, <2>3 DEF Sector
<1>2. UpTo(v, s) \subseteq Sector
  BY DEF UpTo
<1>3. IsFiniteSet(UpTo(v, s)) /\ Cardinality(UpTo(v, s)) <= Sectors
  BY <1>1, <1>2, FS_Subset
<1>4. Cardinality(UpTo(v, s)) \in Nat
  BY <1>3, FS_CardinalityType
<1> QED
  BY <1>2, <1>3, <1>4 DEF Place, UpTo

LEMMA PlaceType ==
  ASSUME NEW v \in SUBSET Sector, NEW s \in v
  PROVE  Place(v, s) \in Sector
<1>1. s \in UpTo(v, s)
  BY DEF UpTo, Sector
<1>2. Cardinality(UpTo(v, s)) # 0
  BY <1>1, UpToFinite, FS_EmptySet
<1> QED
  BY <1>2, UpToFinite DEF Sector

LEMMA PlaceGrows ==
  ASSUME NEW v \in SUBSET Sector, NEW r \in v, NEW s \in v, r < s
  PROVE  Place(v, r) < Place(v, s)
<1>1. r \in Int /\ s \in Int /\ \A x \in v : x \in Int
  BY DEF Sector
<1>2. UpTo(v, r) \subseteq UpTo(v, s)
  <2>1. \A x \in v : x <= r => x <= s
    BY <1>1
  <2> QED
    BY <2>1 DEF UpTo
<1>5. s \in UpTo(v, s) /\ s \notin UpTo(v, r)
  <2>1. s <= s /\ ~(s <= r)
    BY <1>1
  <2> QED
    BY <2>1 DEF UpTo
<1>3. Cardinality(UpTo(v, r)) <= Cardinality(UpTo(v, s))
  BY <1>2, UpToFinite, FS_Subset
<1>4. Cardinality(UpTo(v, r)) # Cardinality(UpTo(v, s))
  BY <1>2, <1>5, UpToFinite, FS_Subset
<1> QED
  BY <1>3, <1>4, UpToFinite

LEMMA PlaceInjective ==
  ASSUME NEW v \in SUBSET Sector, NEW r \in v, NEW s \in v, Place(v, r) = Place(v, s)
  PROVE  r = s
<1>1. r \in Int /\ s \in Int
  BY DEF Sector
<1>2. Place(v, r) \in Int /\ Place(v, s) \in Int
  BY PlaceType DEF Sector
<1>3. ~(r < s) /\ ~(s < r)
  BY <1>2, PlaceGrows
<1> QED
  BY <1>1, <1>3

(* The places of a vector have no gap. *)
LEMMA PlaceOnto ==
  ASSUME NEW v \in SUBSET Sector, NEW s \in v, NEW k \in 1..Place(v, s)
  PROVE  \E r \in v : Place(v, r) = k
<1> DEFINE B == {n \in Nat : k <= Cardinality(UpTo(v, n))}
<1>1. s \in Nat /\ k \in Nat /\ k >= 1 /\ s \in B
  BY UpToFinite, PlaceType DEF Sector
<1>0. \A x \in v : x \in Nat /\ x >= 1
  BY DEF Sector
<1>2. PICK n \in B : \A m \in B : n <= m
  <2>1. PICK n \in B : \A m \in B : ~(<<m, n>> \in OpToRel(<, Nat))
    BY <1>1, WFMin, NatLessThanWellFounded, B \subseteq Nat, Zenon
  <2>2. \A m \in B : <<m, n>> \in OpToRel(<, Nat) <=> m < n
    BY DEF OpToRel
  <2>3. \A m \in B : m \in Nat /\ ~(m < n)
    BY <2>1, <2>2
  <2> QED
    BY <2>3
<1>3. n # 0
  <2>1. UpTo(v, 0) = {}
    BY <1>0 DEF UpTo
  <2>2. Cardinality(UpTo(v, 0)) = 0
    BY <2>1, FS_EmptySet
  <2> QED
    BY <1>1, <1>2, <2>2
<1>4. n - 1 \in Nat /\ n - 1 \notin B
  BY <1>2, <1>3
<1>5. Cardinality(UpTo(v, n - 1)) < k
  BY <1>1, <1>4, UpToFinite
<1>6. n \in v
  <2> SUFFICES ASSUME n \notin v PROVE FALSE
    OBVIOUS
  <2>1. UpTo(v, n) = UpTo(v, n - 1)
    BY <1>0, <1>4 DEF UpTo
  <2> QED
    BY <1>1, <1>2, <1>5, <2>1, UpToFinite
<1>7. UpTo(v, n) = UpTo(v, n - 1) \union {n} /\ n \notin UpTo(v, n - 1)
  <2>1. /\ \A x \in v : x <= n <=> x <= n - 1 \/ x = n
        /\ ~(n <= n - 1)
    BY <1>0, <1>4
  <2> QED
    BY <1>6, <2>1 DEF UpTo
<1>8. Cardinality(UpTo(v, n)) = Cardinality(UpTo(v, n - 1)) + 1
  <2>1. IsFiniteSet(UpTo(v, n - 1))
    BY UpToFinite
  <2>2. Cardinality(UpTo(v, n - 1) \union {n}) = Cardinality(UpTo(v, n - 1)) + 1
    BY <1>7, <2>1, FS_AddElement
  <2> QED
    BY <1>7, <2>2
<1>9. k <= Cardinality(UpTo(v, n))
  BY <1>2
<1>10. Cardinality(UpTo(v, n)) = k
  <2>1. Cardinality(UpTo(v, n - 1)) \in Nat
    BY UpToFinite
  <2> QED
    BY <1>1, <1>5, <1>8, <1>9, <2>1
<1> QED
  BY <1>6, <1>10, UpToFinite

-----------------------------------------------------------------------------
(***************************************************************************)
(* What a write, a flush and a crash do to the cells.                      *)
(***************************************************************************)
DiskOK == \A c \in Cells : now[c] \in maybe[c] /\ maybe[c] \subseteq Contents(c)

IsWrite(f) == DOMAIN f \subseteq Cells /\ \A c \in DOMAIN f : f[c] \in Contents(c)

LEMMA LeftType ==
  ASSUME NEW c, NEW x \in Contents(c)
  PROVE  /\ x \in Left(c, x) /\ Left(c, x) \subseteq Contents(c)
         /\ Left(c, x) \subseteq {x, Unreadable}
         /\ c \notin Headers => Left(c, x) = {x}
         /\ c \in Headers => Unreadable \in Left(c, x)
BY ContentsOf DEF Left

(* FileWrite: only cells of f change, each may now hold what was written,  *)
(* and a write that did not fail shows it.                                 *)
LEMMA WriteEffect ==
  ASSUME NEW f, IsWrite(f), NEW next, DiskOK, FileWrite(f, next)
  PROVE  /\ DiskOK'
         /\ \A c \in Cells \ DOMAIN f : now'[c] = now[c] /\ maybe'[c] = maybe[c]
         /\ \A c \in DOMAIN f : maybe'[c] = maybe[c] \union Left(c, f[c])
         /\ \/ /\ stage' = next /\ failures' = failures
               /\ \A c \in DOMAIN f : now'[c] = f[c]
            \/ Fails
<1>1. \A c \in Cells : maybe'[c] = maybe[c] \union IF c \in DOMAIN f THEN Left(c, f[c]) ELSE {}
  BY DEF FileWrite
<1>2. \A c \in DOMAIN f : /\ c \in Cells /\ f[c] \in Left(c, f[c])
                          /\ Left(c, f[c]) \subseteq Contents(c)
  BY LeftType DEF IsWrite
<1>3. CASE now' = Over(f, now) /\ stage' = next /\ UNCHANGED failures
  <2>1. \A c \in Cells : now'[c] = IF c \in DOMAIN f THEN f[c] ELSE now[c]
    BY <1>3 DEF Over
  <2>2. DiskOK'
    BY <1>1, <1>2, <2>1 DEF DiskOK
  <2> QED
    BY <1>1, <1>2, <1>3, <2>1, <2>2
<1>4. ASSUME Fails, NEW S \in SUBSET DOMAIN f, NEW torn \in BOOLEAN,
             now' = Over([c \in S |-> IF torn /\ c \in Headers THEN Unreadable ELSE f[c]], now)
      PROVE  /\ DiskOK' /\ Fails
             /\ \A c \in Cells \ DOMAIN f : now'[c] = now[c]
  <2>1. \A c \in Cells :
          now'[c] = IF c \in S THEN IF torn /\ c \in Headers THEN Unreadable ELSE f[c]
                    ELSE now[c]
    BY <1>4 DEF Over
  <2>2. \A c \in DOMAIN f : c \in Headers => Unreadable \in Left(c, f[c])
    BY LeftType DEF IsWrite
  <2>3. \A c \in Cells : now'[c] \in maybe'[c]
    <3> SUFFICES ASSUME NEW c \in Cells
                 PROVE  now'[c] \in maybe'[c]
      OBVIOUS
    <3>1. CASE c \in S
      BY <1>1, <1>2, <2>1, <2>2, <3>1
    <3>2. CASE c \notin S
      BY <1>1, <2>1, <3>2 DEF DiskOK
    <3> QED
      BY <3>1, <3>2
  <2>4. \A c \in Cells : maybe'[c] \subseteq Contents(c)
    BY <1>1, <1>2 DEF DiskOK
  <2>5. DiskOK'
    BY <2>3, <2>4 DEF DiskOK
  <2> QED
    BY <1>4, <2>1, <2>5
<1>5. \/ now' = Over(f, now) /\ stage' = next /\ UNCHANGED failures
      \/ /\ Fails
         /\ \E S \in SUBSET DOMAIN f, torn \in BOOLEAN :
              now' = Over([c \in S |-> IF torn /\ c \in Headers THEN Unreadable ELSE f[c]], now)
  BY DEF FileWrite
<1> QED
  BY <1>1, <1>2, <1>3, <1>4, <1>5

(* FileFlush: what a read returns is all that a crash may leave.           *)
LEMMA FlushEffect ==
  ASSUME NEW file, file \subseteq Cells, NEW next, DiskOK, FileFlush(file, next)
  PROVE  /\ DiskOK' /\ now' = now
         /\ \/ /\ stage' = next /\ failures' = failures
               /\ \A c \in file : maybe'[c] = {now[c]}
               /\ \A c \in Cells \ file : maybe'[c] = maybe[c]
            \/ Fails /\ maybe' = maybe
<1>1. CASE /\ maybe' = [c \in Cells |-> IF c \in file THEN {now[c]} ELSE maybe[c]]
           /\ stage' = next /\ UNCHANGED failures
  <2>1. \A c \in Cells : maybe'[c] = IF c \in file THEN {now[c]} ELSE maybe[c]
    BY <1>1
  <2>2. DiskOK'
    BY <2>1 DEF DiskOK, FileFlush
  <2> QED
    BY <1>1, <2>1, <2>2 DEF FileFlush
<1>2. CASE Fails /\ UNCHANGED maybe
  BY <1>2 DEF DiskOK, FileFlush
<1> QED
  BY <1>1, <1>2 DEF FileFlush

LEMMA SettledIn ==
  ASSUME NEW C, NEW d \in Settled(C), NEW e,
         \A c \in Cells : e[c] \in maybe[c]
  PROVE  \A c \in Cells : Over(d, e)[c] \in maybe[c]
<1>1. \A c \in Cells : Over(d, e)[c] = IF c \in DOMAIN d THEN d[c] ELSE e[c]
  BY DEF Over
<1>2. \A c \in DOMAIN d : d[c] \in maybe[c]
  BY DEF Settled
<1> QED
  BY <1>1, <1>2

LEMMA AfterCrashIn ==
  ASSUME DiskOK, NEW disk \in AfterCrash
  PROVE  \A c \in Cells : disk[c] \in maybe[c]
<1>1. PICK h \in Settled(Headers), v \in Settled({LogVector}),
           d \in Settled(Cells \ (Headers \union {LogVector})) :
        disk = Over(h, Over(v, Over(d, now)))
  BY DEF AfterCrash
<1>2. \A c \in Cells : now[c] \in maybe[c]
  BY DEF DiskOK
<1>3. \A c \in Cells : Over(d, now)[c] \in maybe[c]
  BY <1>2, SettledIn
<1>4. \A c \in Cells : Over(v, Over(d, now))[c] \in maybe[c]
  BY <1>3, SettledIn
<1>5. \A c \in Cells : Over(h, Over(v, Over(d, now)))[c] \in maybe[c]
  BY <1>4, SettledIn
<1> QED
  BY <1>1, <1>5

(* Crash: each cell settles on something that it may have held.            *)
LEMMA CrashEffect ==
  ASSUME DiskOK, Crash
  PROVE  /\ DiskOK'
         /\ \A c \in Cells : now'[c] \in maybe[c] /\ maybe'[c] = {now'[c]}
<1>1. PICK disk \in AfterCrash : now' = disk /\ maybe' = [c \in Cells |-> {disk[c]}]
  BY DEF Crash
<1>2. \A c \in Cells : disk[c] \in maybe[c] /\ maybe'[c] = {disk[c]}
  BY <1>1, AfterCrashIn
<1>3. DiskOK'
  BY <1>1, <1>2 DEF DiskOK
<1> QED
  BY <1>1, <1>2, <1>3

-----------------------------------------------------------------------------
(***************************************************************************)
(* What is written.                                                        *)
(***************************************************************************)
Base == [equal : BOOLEAN, stamp : 0..MaxChanges]

LEMMA TypeParts ==
  ASSUME TypeOKHive
  PROVE  /\ DiskOK /\ image \in Image /\ dirty \in SUBSET Sector /\ base \in Base
         /\ changes \in 0..MaxChanges /\ failures \in 0..MaxFailures
BY DEF TypeOKHive, DiskOK, Base

(* The three kinds of writes: a header, the body of the log, the data.     *)
LEMMA HeaderWrite ==
  ASSUME NEW c \in Headers, NEW b \in Base
  PROVE  IsWrite([x \in {c} |-> b])
BY ContentsOf, Files DEF IsWrite, Headers, Base

LEMMA BodyWrite ==
  ASSUME TypeOKHive
  PROVE  /\ IsWrite(LogBody) /\ DOMAIN LogBody \subseteq Log /\ LogHeader \notin DOMAIN LogBody
         /\ LogVector \in DOMAIN LogBody /\ LogBody[LogVector] = dirty
         /\ \A s \in dirty : /\ LogData(Place(dirty, s)) \in DOMAIN LogBody
                             /\ LogBody[LogData(Place(dirty, s))] = image[s]
<1>1. dirty \in SUBSET Sector /\ image \in Image
  BY TypeParts
<1>2. DOMAIN LogBody = {LogVector} \union {LogData(Place(dirty, s)) : s \in dirty}
  BY DEF LogBody
<1>3. \A s \in dirty : Place(dirty, s) \in Sector
  BY <1>1, PlaceType
<1>4. DOMAIN LogBody \subseteq Log /\ LogHeader \notin DOMAIN LogBody
  BY <1>2, <1>3, Files, CellsDiffer
<1>5. LogBody[LogVector] = dirty
  BY <1>2 DEF LogBody
<1>6. ASSUME NEW s \in dirty
      PROVE  LogBody[LogData(Place(dirty, s))] = image[s]
  <2>1. \A r \in dirty : LogData(Place(dirty, s)) = LogData(Place(dirty, r)) => r = s
    BY <1>1, PlaceInjective, CellsDiffer
  <2>2. (CHOOSE r \in dirty : LogData(Place(dirty, s)) = LogData(Place(dirty, r))) = s
    BY <2>1
  <2>3. LogData(Place(dirty, s)) # LogVector
    BY CellsDiffer
  <2>4. LogData(Place(dirty, s)) \in {LogVector} \union {LogData(Place(dirty, r)) : r \in dirty}
    OBVIOUS
  <2>5. LogBody[LogData(Place(dirty, s))] =
          image[CHOOSE r \in dirty : LogData(Place(dirty, s)) = LogData(Place(dirty, r))]
    BY <2>3, <2>4 DEF LogBody
  <2> QED
    BY <2>2, <2>5
<1>7. \A s \in dirty : image[s] \in Contents(LogData(Place(dirty, s)))
  BY <1>1, ContentsOf DEF Image
<1>8. dirty \in Contents(LogVector)
  BY <1>1, ContentsOf
<1>9. IsWrite(LogBody)
  <2>1. ASSUME NEW c \in DOMAIN LogBody
        PROVE  LogBody[c] \in Contents(c)
    BY <1>2, <1>5, <1>6, <1>7, <1>8
  <2> QED
    BY <1>4, <2>1, Files DEF IsWrite
<1> QED
  BY <1>2, <1>4, <1>5, <1>6, <1>9

DataWritten ==
  [c \in {Stamp} \union {Data(s) : s \in dirty} |->
     IF c = Stamp THEN base.stamp ELSE image[c[3]]]

LEMMA DataWrite ==
  ASSUME TypeOKHive
  PROVE  /\ IsWrite(DataWritten)
         /\ DOMAIN DataWritten = {Stamp} \union {Data(s) : s \in dirty}
         /\ DOMAIN DataWritten \subseteq Primary
         /\ \A s \in dirty : Data(s) \in DOMAIN DataWritten /\ DataWritten[Data(s)] = image[s]
<1>1. dirty \in SUBSET Sector /\ image \in Image /\ base \in Base
  BY TypeParts
<1>2. DOMAIN DataWritten = {Stamp} \union {Data(s) : s \in dirty}
  BY DEF DataWritten
<1>3. DOMAIN DataWritten \subseteq Primary
  BY <1>1, <1>2, Files
<1>4. DataWritten[Stamp] = base.stamp
  BY DEF DataWritten
<1>5. ASSUME NEW s \in dirty
      PROVE  DataWritten[Data(s)] = image[s]
  <2>1. Data(s) # Stamp /\ Data(s)[3] = s
    BY CellsDiffer DEF Data
  <2>2. Data(s) \in {Stamp} \union {Data(r) : r \in dirty}
    OBVIOUS
  <2>3. DataWritten[Data(s)] = image[Data(s)[3]]
    BY <2>1, <2>2 DEF DataWritten
  <2> QED
    BY <2>1, <2>3
<1>6. \A s \in dirty : image[s] \in Contents(Data(s))
  BY <1>1, ContentsOf DEF Image
<1>7. base.stamp \in Contents(Stamp)
  <2>1. base.stamp \in 0..MaxChanges
    BY <1>1 DEF Base
  <2>2. base.stamp \in -Sectors..MaxChanges
    BY <2>1, HiveAssumption
  <2> QED
    BY <2>2, ContentsOf
<1>8. IsWrite(DataWritten)
  <2>1. ASSUME NEW c \in DOMAIN DataWritten
        PROVE  DataWritten[c] \in Contents(c)
    BY <1>2, <1>4, <1>5, <1>6, <1>7
  <2> QED
    BY <1>3, <2>1, Files DEF IsWrite
<1> QED
  BY <1>2, <1>3, <1>5, <1>8

-----------------------------------------------------------------------------
(***************************************************************************)
(* What a load finds, and what it leaves of the log.                       *)
(***************************************************************************)
LEMMA RecoveredType ==
  ASSUME DiskOK
  PROVE  /\ Recovered(now) \in SUBSET Sector
         /\ Recovered(now) # {} => /\ now[LogVector] \in SUBSET Sector
                                   /\ Recovered(now) \subseteq now[LogVector]
<1>1. now[LogVector] \in {Unreadable} \union SUBSET Sector
  BY ContentsOf, Files DEF DiskOK
<1> QED
  BY <1>1 DEF Recovered

LEMMA LoadTypes ==
  ASSUME DiskOK
  PROVE  ImageOf(now) \in Image /\ BaseOf(now) \in Base
<1>1. \A s \in Sector : /\ now[Data(s)] \in {Unreadable} \union (-Sectors..MaxChanges)
                        /\ now[LogData(s)] \in {Unreadable} \union (-Sectors..MaxChanges)
  BY ContentsOf, Files DEF DiskOK
<1>2. InPrimary(now) \in Image
  BY <1>1 DEF InPrimary, Image
<1>3. HvpRecoverData(now) \in Image
  <2>1. ASSUME NEW s \in Recovered(now)
        PROVE  Place(now[LogVector], s) \in Sector
    BY <2>1, RecoveredType, PlaceType
  <2> QED
    BY <1>1, <2>1 DEF HvpRecoverData, Image
<1>4. Damaged \in Image
  BY DEF Damaged, Image
<1>5. ImageOf(now) \in Image
  BY <1>2, <1>3, <1>4 DEF ImageOf
<1>6. /\ now[Header] \in {Unreadable} \union Base
      /\ now[LogHeader] \in {Unreadable} \union Base
  BY ContentsOf, Files DEF DiskOK, Headers, Base
<1>7. 0 \in 0..MaxChanges
  BY HiveAssumption
<1>8. BaseOf(now) \in Base
  BY <1>6, <1>7 DEF BaseOf, Base
<1> QED
  BY <1>5, <1>8

LEMMA CutOffEffect ==
  ASSUME DiskOK, now' = CutOff(now), maybe' = MayBeCutOff(maybe)
  PROVE  /\ DiskOK'
         /\ \A c \in Primary : now'[c] = now[c] /\ maybe'[c] = maybe[c]
<1>1. \A c \in Cells : /\ now'[c] = IF c \in Log THEN Unreadable ELSE now[c]
                       /\ maybe'[c] = IF c \in Log THEN maybe[c] \union {Unreadable} ELSE maybe[c]
  BY DEF CutOff, MayBeCutOff
<1>2. ASSUME NEW c \in Cells
      PROVE  now'[c] \in maybe'[c] /\ maybe'[c] \subseteq Contents(c)
  <2>1. now[c] \in maybe[c] /\ maybe[c] \subseteq Contents(c) /\ Unreadable \in Contents(c)
    BY ContentsOf DEF DiskOK
  <2>2. CASE c \in Log
    BY <1>1, <2>1, <2>2
  <2>3. CASE c \notin Log
    BY <1>1, <2>1, <2>3
  <2> QED
    BY <2>2, <2>3
<1>3. DiskOK'
  BY <1>2 DEF DiskOK
<1> QED
  BY <1>1, <1>3, Files

(* The last flush, when it succeeds. *)
Flushed == [c \in Cells |-> IF c \in Primary THEN {now[c]} ELSE maybe[c]]

LEMMA LastFlush ==
  ASSUME DiskOK,
         now' = IF loading THEN CutOff(now) ELSE now,
         maybe' = IF loading THEN MayBeCutOff(Flushed) ELSE Flushed
  PROVE  /\ DiskOK'
         /\ \A c \in Primary : now'[c] = now[c] /\ maybe'[c] = {now[c]}
<1>1. \A c \in Cells :
        /\ now'[c] = IF loading /\ c \in Log THEN Unreadable ELSE now[c]
        /\ maybe'[c] = IF c \in Primary THEN {now[c]}
                       ELSE IF loading THEN maybe[c] \union {Unreadable} ELSE maybe[c]
  BY Files DEF CutOff, MayBeCutOff, Flushed
<1>2. DiskOK'
  <2> SUFFICES ASSUME NEW c \in Cells
               PROVE  now'[c] \in maybe'[c] /\ maybe'[c] \subseteq Contents(c)
    BY DEF DiskOK
  <2>1. now[c] \in maybe[c] /\ maybe[c] \subseteq Contents(c) /\ Unreadable \in Contents(c)
    BY ContentsOf DEF DiskOK
  <2>2. CASE c \in Primary
    <3>1. now'[c] = now[c] /\ maybe'[c] = {now[c]}
      BY <1>1, <2>2, Files
    <3> QED
      BY <2>1, <3>1
  <2>3. CASE c \notin Primary
    <3>1. /\ now'[c] = IF loading THEN Unreadable ELSE now[c]
          /\ maybe'[c] = IF loading THEN maybe[c] \union {Unreadable} ELSE maybe[c]
      BY <1>1, <2>3, Files
    <3> QED
      BY <2>1, <3>1
  <2> QED
    BY <2>2, <2>3
<1> QED
  BY <1>1, <1>2, Files
-----------------------------------------------------------------------------
(***************************************************************************)
(* Type correctness.                                                       *)
(***************************************************************************)
StageSet == {"Down", "Idle"} \union DOMAIN Follows \union {"FlushDone"}

LEMMA StageNames ==
  /\ DOMAIN Follows = {"LogHeader", "FlushLogHeader", "LogBody", "FlushLogBody", "LogDone",
                       "FlushLogDone", "FlushFirst", "Header", "FlushHeader", "Data", "FlushData",
                       "Done"}
  /\ Follows["LogHeader"] = "FlushLogHeader"
  /\ Follows["FlushLogHeader"] = "LogBody" /\ Follows["LogBody"] = "FlushLogBody"
  /\ Follows["FlushLogBody"] = "LogDone" /\ Follows["LogDone"] = "FlushLogDone"
  /\ Follows["FlushLogDone"] = "FlushFirst" /\ Follows["FlushFirst"] = "Header"
  /\ Follows["Header"] = "FlushHeader" /\ Follows["FlushHeader"] = "Data"
  /\ Follows["Data"] = "FlushData" /\ Follows["FlushData"] = "Done"
  /\ Follows["Done"] = "FlushDone"
BY DEF Follows

LEMMA StagesFollow ==
  \A x \in DOMAIN Follows : Follows[x] \in StageSet
BY StageNames DEF StageSet

LEMMA FailsTypes ==
  ASSUME TypeOKHive, Fails
  PROVE  stage' \in StageSet /\ failures' \in 0..MaxFailures
<1>1. failures \in 0..MaxFailures /\ failures < MaxFailures /\ failures' = failures + 1
  BY TypeParts DEF Fails
<1>2. failures' \in 0..MaxFailures
  BY <1>1, HiveAssumption
<1>3. stage' \in {"Down", "Idle"}
  BY DEF Fails
<1> QED
  BY <1>2, <1>3 DEF StageSet

LEMMA WriteTypes ==
  ASSUME TypeOKHive, NEW f, IsWrite(f), NEW next \in StageSet, FileWrite(f, next)
  PROVE  DiskOK' /\ stage' \in StageSet /\ failures' \in 0..MaxFailures
BY TypeParts, WriteEffect, FailsTypes

LEMMA FlushTypes ==
  ASSUME TypeOKHive, NEW file, file \subseteq Cells, NEW next \in StageSet, FileFlush(file, next)
  PROVE  DiskOK' /\ stage' \in StageSet /\ failures' \in 0..MaxFailures
BY TypeParts, FlushEffect, FailsTypes

LEMMA BaseTypes ==
  /\ \A b \in Base : Started(b) \in Base /\ Completed(b) \in Base
  /\ Loaded \in Base
<1>1. ASSUME NEW b \in Base
      PROVE  Started(b) \in Base /\ Completed(b) \in Base
  BY DEF Base, Started, Completed
<1>2. 0 \in 0..MaxChanges
  BY HiveAssumption
<1> QED
  BY <1>1, <1>2 DEF Base, Loaded

LEMMA TypeInit == InitHive => TypeOKHive
<1> SUFFICES ASSUME InitHive
             PROVE  TypeOKHive
  OBVIOUS
<1>1. ASSUME NEW c \in Cells
      PROVE  now[c] \in maybe[c] /\ maybe[c] \subseteq Contents(c)
  <2>1. maybe[c] = {now[c]} /\ now[c] = IF c = Header THEN Loaded
                                        ELSE IF c \in Log THEN Unreadable ELSE -c[3]
    BY DEF InitHive
  <2>2. CASE c = Header
    BY <2>1, <2>2, BaseTypes, ContentsOf DEF Headers, Base
  <2>3. CASE c \in Log
    BY <2>1, <2>3, ContentsOf, Files, CellsDiffer
  <2>4. CASE c = Stamp
    <3>0. c[3] = 0
      BY <2>4 DEF Stamp
    <3>1. -c[3] = -0
      BY <3>0
    <3>2. -0 \in -Sectors..MaxChanges
      BY HiveAssumption
    <3> QED
      BY <2>1, <2>4, <3>1, <3>2, ContentsOf, Files, CellsDiffer
  <2>5. ASSUME NEW s \in Sector, c = Data(s)
        PROVE  maybe[c] \subseteq Contents(c)
    <3>1. -c[3] = -s /\ -s \in -Sectors..MaxChanges
      BY <2>5, HiveAssumption DEF Data, Sector
    <3>2. c # Header /\ c \notin Log
      BY <2>5, Files, CellsDiffer
    <3> QED
      BY <2>1, <2>5, <3>1, <3>2, ContentsOf
  <2> QED
    BY <2>1, <2>2, <2>3, <2>4, <2>5 DEF Cells, Primary
<1>2. DiskOK
  BY <1>1 DEF DiskOK
<1>3. InPrimary(now) \in Image
  <2>1. \A s \in Sector : now[Data(s)] \in {Unreadable} \union (-Sectors..MaxChanges)
    BY <1>2, ContentsOf, Files DEF DiskOK
  <2> QED
    BY <2>1 DEF InPrimary, Image
<1>4. Damaged \in Image
  BY DEF Damaged, Image
<1>5. 0 \in 0..MaxChanges /\ 0 \in 0..MaxFailures /\ 0 \in 0..MaxCrashes
  BY HiveAssumption
<1> QED
  BY <1>1, <1>3, <1>4, <1>5, BaseTypes DEF InitHive, TypeOKHive, Base

(* The memory, when only the disk is written. *)
LEMMA TypeDiskOnly ==
  ASSUME TypeOKHive, DiskOK', base' \in Base, stage' \in StageSet, failures' \in 0..MaxFailures,
         UNCHANGED <<image, dirty, loading, counters, history>>
  PROVE  TypeOKHive'
BY DEF TypeOKHive, DiskOK, Base, StageSet, counters, history

LEMMA TypeNext ==
  ASSUME TypeOKHive, NextHive
  PROVE  TypeOKHive'
<1>0. /\ DiskOK /\ image \in Image /\ dirty \in SUBSET Sector /\ base \in Base
      /\ changes \in 0..MaxChanges /\ failures \in 0..MaxFailures
  BY TypeParts
<1>1. ASSUME NEW s \in Sector, HvMarkDirty(s)
      PROVE  TypeOKHive'
  <2>1. changes + 1 \in 0..MaxChanges /\ changes + 1 \in -Sectors..MaxChanges
    BY <1>0, <1>1, HiveAssumption DEF HvMarkDirty
  <2>2. image' \in Image
    BY <1>0, <1>1, <2>1 DEF HvMarkDirty, Image
  <2>3. UNCHANGED <<now, maybe, base, stage, loading, failures, crashes, promised, exposed>>
    BY <1>1 DEF HvMarkDirty, diskVars, history
  <2>4. dirty' \subseteq Sector /\ changes' \in 0..MaxChanges
    BY <1>0, <1>1, <2>1 DEF HvMarkDirty
  <2> QED
    BY <2>2, <2>3, <2>4 DEF TypeOKHive
<1>2. CASE HvSyncHive
  <2>1. base' \in Base
    BY <1>0, <1>2 DEF HvSyncHive, Base
  <2>2. FileWrite([c \in {LogHeader} |-> base'], "FlushLogHeader") /\ "FlushLogHeader" \in StageSet
    BY <1>2, StageNames DEF HvSyncHive, StageSet
  <2>3. DiskOK' /\ stage' \in StageSet /\ failures' \in 0..MaxFailures
    BY <2>1, <2>2, HeaderWrite, WriteTypes DEF Headers
  <2>4. promised' \subseteq Image /\ exposed' \in BOOLEAN
    <3>1. promised \subseteq Image /\ promised' = promised \union {image}
      BY <1>2 DEF TypeOKHive, HvSyncHive
    <3>2. exposed' \in BOOLEAN
      BY <1>2, Zenon DEF HvSyncHive
    <3> QED
      BY <1>0, <3>1, <3>2
  <2>5. UNCHANGED <<image, dirty, loading, changes, crashes>>
    BY <1>2 DEF HvSyncHive, counters
  <2> QED
    BY <2>1, <2>3, <2>4, <2>5 DEF TypeOKHive, DiskOK, Base, StageSet
<1>3. CASE WriteLogBody
  <2>1. FileWrite(LogBody, Follows["LogBody"]) /\ Follows["LogBody"] \in StageSet
    BY <1>3, StageNames DEF WriteLogBody, StageSet
  <2>2. DiskOK' /\ stage' \in StageSet /\ failures' \in 0..MaxFailures
    BY <2>1, BodyWrite, WriteTypes
  <2> QED
    BY <1>0, <1>3, <2>2, TypeDiskOnly DEF WriteLogBody, hiveVars
<1>4. CASE WriteLogDone
  <2>1. /\ base' \in Base
        /\ FileWrite([c \in {LogHeader} |-> base'], Follows["LogDone"])
        /\ Follows["LogDone"] \in StageSet
    BY <1>0, <1>4, BaseTypes, StageNames DEF WriteLogDone, StageSet
  <2>2. DiskOK' /\ stage' \in StageSet /\ failures' \in 0..MaxFailures
    BY <2>1, HeaderWrite, WriteTypes DEF Headers
  <2> QED
    BY <1>4, <2>1, <2>2, TypeDiskOnly DEF WriteLogDone
<1>5. CASE FlushLog
  <2>1. FileFlush(Log, Follows[stage]) /\ Follows[stage] \in StageSet
    BY <1>5, StageNames, StagesFollow DEF FlushLog
  <2>2. DiskOK' /\ stage' \in StageSet /\ failures' \in 0..MaxFailures
    BY <2>1, Files, FlushTypes
  <2> QED
    BY <1>0, <1>5, <2>2, TypeDiskOnly DEF FlushLog, hiveVars
<1>6. CASE WriteHeader \/ WriteDone
  <2>1. /\ base' \in Base /\ stage \in DOMAIN Follows
        /\ FileWrite([c \in {Header} |-> base'], Follows[stage])
    BY <1>0, <1>6, BaseTypes, StageNames DEF WriteHeader, WriteDone
  <2>2. DiskOK' /\ stage' \in StageSet /\ failures' \in 0..MaxFailures
    BY <2>1, HeaderWrite, WriteTypes, StagesFollow DEF Headers
  <2> QED
    BY <1>6, <2>1, <2>2, TypeDiskOnly DEF WriteHeader, WriteDone
<1>7. CASE WriteData
  <2>1. FileWrite(DataWritten, Follows["Data"]) /\ Follows["Data"] \in StageSet
    BY <1>7, StageNames DEF WriteData, DataWritten, StageSet
  <2>2. DiskOK' /\ stage' \in StageSet /\ failures' \in 0..MaxFailures
    BY <2>1, DataWrite, WriteTypes
  <2> QED
    BY <1>0, <1>7, <2>2, TypeDiskOnly DEF WriteData, hiveVars
<1>8. CASE FlushPrimary
  <2>1. FileFlush(Primary, Follows[stage]) /\ Follows[stage] \in StageSet
    BY <1>8, StageNames, StagesFollow DEF FlushPrimary
  <2>2. DiskOK' /\ stage' \in StageSet /\ failures' \in 0..MaxFailures
    BY <2>1, Files, FlushTypes
  <2> QED
    BY <1>0, <1>8, <2>2, TypeDiskOnly DEF FlushPrimary, hiveVars
<1>9. CASE FlushDone
  <2>1. UNCHANGED <<image, base, changes, crashes, exposed>>
    BY <1>9 DEF FlushDone, counters
  <2>2. CASE Fails /\ UNCHANGED <<diskVars, dirty, loading, promised>>
    <3>1. stage' \in StageSet /\ failures' \in 0..MaxFailures
      BY <2>2, FailsTypes
    <3> QED
      BY <2>1, <2>2, <3>1 DEF TypeOKHive, StageSet, diskVars
  <2>3. CASE /\ now' = IF loading THEN CutOff(now) ELSE now
             /\ maybe' = IF loading THEN MayBeCutOff(Flushed) ELSE Flushed
             /\ dirty' = {} /\ loading' = FALSE /\ stage' = "Idle" /\ promised' = {image}
             /\ UNCHANGED failures
    <3>1. DiskOK'
      BY <1>0, <2>3, LastFlush
    <3> QED
      BY <1>0, <2>1, <2>3, <3>1 DEF TypeOKHive, DiskOK
  <2> QED
    BY <1>9, <2>2, <2>3 DEF FlushDone, Flushed
<1>10. CASE HvLoadHive
  <2>1. /\ image' \in Image /\ base' \in Base /\ dirty' \in SUBSET Sector /\ promised' = {image'}
        /\ UNCHANGED <<failures, changes, crashes, exposed>>
    BY <1>0, <1>10, LoadTypes, RecoveredType DEF HvLoadHive, counters
  <2>2. loading' \in BOOLEAN /\ stage' \in {"FlushFirst", "Idle"}
    <3>1. loading' \in BOOLEAN
      BY <1>10, Zenon DEF HvLoadHive
    <3>2. stage' \in {"FlushFirst", "Idle"}
      BY <1>10 DEF HvLoadHive
    <3> QED
      BY <3>1, <3>2
  <2>3. DiskOK'
    <3>1. CASE now' = CutOff(now) /\ maybe' = MayBeCutOff(maybe)
      BY <1>0, <3>1, CutOffEffect
    <3>2. CASE UNCHANGED diskVars
      BY <1>0, <3>2 DEF DiskOK, diskVars
    <3> QED
      BY <1>10, <3>1, <3>2 DEF HvLoadHive
  <2> QED
    BY <2>1, <2>2, <2>3, StageNames DEF TypeOKHive, DiskOK, Base
<1>11. CASE Crash
  <2>1. DiskOK'
    BY <1>0, <1>11, CrashEffect
  <2>2. crashes' \in 0..MaxCrashes
    <3>1. crashes \in 0..MaxCrashes /\ crashes < MaxCrashes /\ crashes' = crashes + 1
      BY <1>11 DEF Crash, TypeOKHive
    <3> QED
      BY <3>1, HiveAssumption
  <2>3. Damaged \in Image
    BY DEF Damaged, Image
  <2>4. /\ image' = Damaged /\ dirty' = {} /\ base' = Loaded /\ stage' = "Down" /\ loading' = FALSE
        /\ UNCHANGED <<changes, failures, promised, exposed>>
    BY <1>11 DEF Crash, history
  <2> QED
    BY <2>1, <2>2, <2>3, <2>4, BaseTypes DEF TypeOKHive, DiskOK, Base
<1> QED
  BY <1>1, <1>2, <1>3, <1>4, <1>5, <1>6, <1>7, <1>8, <1>9, <1>10, <1>11
  DEF NextHive, DoWriteHive, WriteLog

-----------------------------------------------------------------------------
(***************************************************************************)
(* The disk, of which D, L and v stand for what the primary file holds,    *)
(* what the log holds, and its vector.                                     *)
(***************************************************************************)
AllComplete == \A h \in maybe[Header] : IsComplete(h)
NoneComplete == \A h \in maybe[Header] : ~IsComplete(h)
PrimaryHolds(D) == \A s \in Sector : maybe[Data(s)] = {D[s]}

BodySettled(L, v) ==
  /\ maybe[LogVector] = {v}
  /\ \A s \in v : maybe[LogData(Place(v, s))] = {L[s]}

(* The log makes up for what the primary may lack. *)
Logged(L, v) ==
  /\ v # {} /\ BodySettled(L, v)
  /\ Unreadable \notin maybe[LogHeader]
  /\ \A s \in Sector \ v : maybe[Data(s)] = {L[s]}

(* The hive in memory differs from D in dirty sectors only. *)
Same(D) == \A s \in Sector \ dirty : image[s] = D[s]

(***************************************************************************)
(* What holds at each stage.                                               *)
(***************************************************************************)
NotLoaded(L, v) ==
  \/ AllComplete /\ PrimaryHolds(L)
  \/ Logged(L, v) /\ (NoneComplete \/ PrimaryHolds(L))

(* After a failure that left the sequence numbers different, no sync       *)
(* touches the disk until it is loaded again.                              *)
Resting(D, L, v) ==
  \/ (AllComplete \/ Logged(D, v)) /\ PrimaryHolds(D) /\ Same(D)
  \/ ~base.equal /\ Logged(L, v) /\ (NoneComplete \/ PrimaryHolds(D))

LogStages == {"FlushLogHeader", "LogBody", "FlushLogBody", "LogDone", "FlushLogDone"}

LogWritten(L, v) ==
  /\ now[LogVector] = v
  /\ \A s \in v : now[LogData(Place(v, s))] = L[s]

Logging(D, L, v) ==
  /\ ~loading /\ AllComplete /\ PrimaryHolds(D) /\ Same(D)
  /\ image = L /\ dirty = v /\ v # {}
  /\ stage = "FlushLogBody" => LogWritten(L, v)
  /\ stage \in {"LogDone", "FlushLogDone"} => BodySettled(L, v)
  /\ stage = "FlushLogDone" => now[LogHeader] # Unreadable

WriteStages == {"FlushFirst", "Header", "FlushHeader", "Data", "FlushData", "Done", "FlushDone"}

Writing(D, L, v) ==
  /\ image = L /\ dirty = v /\ Logged(L, v)
  /\ stage = "FlushFirst" => IF loading THEN NoneComplete \/ PrimaryHolds(L)
                                        ELSE AllComplete /\ PrimaryHolds(D)
  /\ stage \in {"Header", "FlushHeader"} => NoneComplete \/ PrimaryHolds(D)
  /\ stage = "FlushHeader" => ~IsComplete(now[Header])
  /\ stage \in {"FlushHeader", "Data", "FlushData"} => ~base.equal
  /\ stage \in {"Data", "FlushData", "Done"} => NoneComplete
  /\ stage = "FlushData" => \A s \in v : now[Data(s)] = L[s]
  /\ stage \in {"Done", "FlushDone"} => PrimaryHolds(L)
  /\ stage = "FlushDone" => IsComplete(now[Header])

StageFits(D, L, v) ==
  /\ D \in promised /\ L \in promised /\ v \in SUBSET Sector
  /\ \/ stage = "Down" /\ NotLoaded(L, v)
     \/ stage = "Idle" /\ ~loading /\ Resting(D, L, v)
     \/ stage \in LogStages /\ Logging(D, L, v)
     \/ stage \in WriteStages /\ Writing(D, L, v)

(* No image that counts was made of contents that cannot be read. *)
Readable ==
  /\ \A D \in promised, s \in Sector : D[s] # Unreadable
  /\ stage # "Down" => \A s \in Sector : image[s] # Unreadable
  /\ loading /\ stage # "Down" => promised = {image}

Safe == Readable /\ \E D, L, v : StageFits(D, L, v)
HiveInv == TypeOKHive /\ (exposed \/ Safe)

-----------------------------------------------------------------------------
(***************************************************************************)
(* What is kept when a disk comes to hold less, or the same.               *)
(***************************************************************************)
Settles(c) == maybe'[c] \subseteq maybe[c] /\ maybe'[c] # {}

LEMMA SameSettles ==
  ASSUME DiskOK, NEW c \in Cells, maybe'[c] = maybe[c]
  PROVE  Settles(c)
BY DEF DiskOK, Settles

LEMMA FlushSettles ==
  ASSUME DiskOK, NEW c \in Cells, maybe'[c] = {now[c]}
  PROVE  Settles(c)
BY DEF DiskOK, Settles

LEMMA HeaderKept ==
  ASSUME Settles(Header)
  PROVE  /\ AllComplete => AllComplete'
         /\ NoneComplete => NoneComplete'
BY DEF Settles, AllComplete, NoneComplete

LEMMA PrimaryKept ==
  ASSUME \A s \in Sector : Settles(Data(s)), NEW D, PrimaryHolds(D)
  PROVE  PrimaryHolds(D)'
BY DEF Settles, PrimaryHolds

LEMMA BodyKept ==
  ASSUME \A c \in Log \ {LogHeader} : Settles(c), NEW L, NEW v \in SUBSET Sector, BodySettled(L, v)
  PROVE  BodySettled(L, v)'
<1>1. \A s \in v : LogData(Place(v, s)) \in Log \ {LogHeader}
  BY PlaceType, Files, CellsDiffer
<1>2. LogVector \in Log \ {LogHeader}
  BY Files, CellsDiffer
<1> QED
  BY <1>1, <1>2 DEF BodySettled, Settles

LEMMA LoggedKept ==
  ASSUME \A c \in Log : Settles(c), NEW L, NEW v \in SUBSET Sector,
         \A s \in Sector \ v : Settles(Data(s)), Logged(L, v)
  PROVE  Logged(L, v)'
<1>1. BodySettled(L, v)'
  BY BodyKept DEF Logged
<1>2. Unreadable \notin maybe'[LogHeader]
  BY Files DEF Logged, Settles
<1>3. \A s \in Sector \ v : maybe'[Data(s)] = {L[s]}
  BY DEF Logged, Settles
<1> QED
  BY <1>1, <1>2, <1>3 DEF Logged

LEMMA ReadableKept ==
  ASSUME Readable, stage # "Down", UNCHANGED <<promised, image, loading>>
  PROVE  Readable'
BY DEF Readable

LEMMA WhereFails ==
  ASSUME Fails
  PROVE  stage' = IF loading THEN "Down" ELSE "Idle"
BY DEF Fails
-----------------------------------------------------------------------------
(***************************************************************************)
(* What a load makes of a disk that the crash may leave.                   *)
(***************************************************************************)
(* A primary file that holds D for certain reads as D.                     *)
LEMMA PrimaryRead ==
  ASSUME NEW e, \A c \in Cells : e[c] \in maybe[c], NEW D \in Image, PrimaryHolds(D)
  PROVE  InPrimary(e) = D
<1>1. \A s \in Sector : e[Data(s)] = D[s]
  BY Files DEF PrimaryHolds
<1> QED
  BY <1>1 DEF InPrimary, Image

(* A log with the sectors v of L reads as L, whatever the primary has in   *)
(* their places: no sector of the log is unreadable and no place is free.  *)
LEMMA LogRead ==
  ASSUME NEW e, \A c \in Cells : e[c] \in maybe[c], NEW L \in Image, NEW v \in SUBSET Sector,
         Logged(L, v), \A s \in Sector : L[s] # Unreadable
  PROVE  /\ Recovered(e) = v /\ HvpRecoverData(e) = L /\ e[LogHeader] # Unreadable
<1>1. \A s \in v : Place(v, s) \in Sector
  BY PlaceType
<1>2. e[LogVector] = v /\ v # Unreadable
  BY Files, HiveAssumption DEF Logged, BodySettled
<1>3. \A s \in v : e[LogData(Place(v, s))] = L[s]
  BY <1>1, Files DEF Logged, BodySettled
<1>4. \A s \in v : \A k \in 1..Place(v, s) : e[LogData(k)] # Unreadable
  <2> SUFFICES ASSUME NEW s \in v, NEW k \in 1..Place(v, s)
               PROVE  e[LogData(k)] # Unreadable
    OBVIOUS
  <2>1. PICK r \in v : Place(v, r) = k
    BY PlaceOnto
  <2> QED
    BY <1>3, <2>1
<1>5. Recovered(e) = v
  BY <1>2, <1>4 DEF Recovered
<1>6. \A s \in Sector \ v : e[Data(s)] = L[s]
  BY Files DEF Logged
<1>7. HvpRecoverData(e) = [s \in Sector |-> L[s]]
  BY <1>2, <1>3, <1>5, <1>6 DEF HvpRecoverData
<1>8. e[LogHeader] # Unreadable
  BY Files DEF Logged
<1> QED
  BY <1>5, <1>7, <1>8 DEF Image

(* What every stage guarantees of the disk. *)
DiskSafe(D, L, v) ==
  /\ D \in promised /\ L \in promised /\ v \in SUBSET Sector
  /\ \/ AllComplete /\ PrimaryHolds(D)
     \/ Logged(L, v) /\ (NoneComplete \/ PrimaryHolds(D))

LEMMA StageSafe ==
  ASSUME Safe
  PROVE  \E D, L, v : DiskSafe(D, L, v)
<1>1. PICK D, L, v : StageFits(D, L, v)
  BY DEF Safe
<1>2. CASE stage = "Down"
  <2>1. DiskSafe(L, L, v)
    BY <1>1, <1>2 DEF StageFits, LogStages, WriteStages, NotLoaded, DiskSafe
  <2> QED
    BY <2>1
<1>3. CASE stage = "Idle"
  <2>1. Resting(D, L, v)
    BY <1>1, <1>3 DEF StageFits, LogStages, WriteStages
  <2>2. DiskSafe(D, D, v) \/ DiskSafe(D, L, v)
    BY <1>1, <2>1 DEF Resting, DiskSafe, StageFits
  <2> QED
    BY <2>2
<1>4. CASE stage \in LogStages
  <2>1. Logging(D, L, v)
    BY <1>1, <1>4 DEF StageFits, LogStages, WriteStages
  <2>2. DiskSafe(D, L, v)
    BY <1>1, <2>1 DEF Logging, DiskSafe, StageFits
  <2> QED
    BY <2>2
<1>5. CASE stage \in WriteStages
  <2>1. Writing(D, L, v) /\ D \in promised /\ L \in promised /\ v \in SUBSET Sector
    BY <1>1, <1>5 DEF StageFits, LogStages, WriteStages
  <2>2. Logged(L, v)
    BY <2>1 DEF Writing
  <2>3. \/ AllComplete /\ PrimaryHolds(D)
        \/ NoneComplete \/ PrimaryHolds(D) \/ PrimaryHolds(L)
    BY <1>5, <2>1 DEF Writing, WriteStages
  <2>4. DiskSafe(D, L, v) \/ DiskSafe(L, L, v)
    BY <2>1, <2>2, <2>3 DEF DiskSafe
  <2> QED
    BY <2>4
<1> QED
  BY <1>1, <1>2, <1>3, <1>4, <1>5 DEF StageFits

-----------------------------------------------------------------------------
(***************************************************************************)
(* The steps.                                                              *)
(***************************************************************************)
LEMMA SafeInit ==
  ASSUME InitHive
  PROVE  Safe
<1>1. PICK D : D = InPrimary(now)
  OBVIOUS
<1>2. /\ now[Header] = Loaded
      /\ \A s \in Sector : now[Data(s)] = -s
      /\ \A c \in Cells : maybe[c] = {now[c]}
  <2>1. now[Header] = Loaded
    BY Files DEF InitHive
  <2>2. \A s \in Sector : /\ Data(s) \in Cells /\ Data(s) # Header /\ Data(s) \notin Log
                         /\ Data(s)[3] = s
    BY Files, CellsDiffer DEF Data
  <2>3. \A s \in Sector : now[Data(s)] = -s
    BY <2>2 DEF InitHive
  <2> QED
    BY <2>1, <2>3 DEF InitHive
<1>3. \A s \in Sector : D[s] = now[Data(s)] /\ D[s] \in Int
  BY <1>1, <1>2 DEF InPrimary, Sector
<1>4. AllComplete /\ PrimaryHolds(D)
  <2>1. IsComplete(Loaded)
    BY BaseTypes, HiveAssumption DEF IsComplete, Loaded, Base
  <2> QED
    BY <1>2, <1>3, <2>1, Files DEF AllComplete, PrimaryHolds
<1>5. StageFits(D, D, {})
  BY <1>1, <1>4 DEF StageFits, NotLoaded, InitHive
<1>6. Readable
  BY <1>1, <1>3, HiveAssumption DEF Readable, InitHive
<1> QED
  BY <1>5, <1>6 DEF Safe

LEMMA MarkDirtyKeeps ==
  ASSUME TypeOKHive, Safe, NEW s \in Sector, HvMarkDirty(s)
  PROVE  Safe'
<1>0. DiskOK /\ image \in Image /\ changes \in Nat
  BY TypeParts
<1>1. /\ stage = "Idle" /\ image' = [image EXCEPT ![s] = changes + 1] /\ dirty' = dirty \union {s}
      /\ UNCHANGED <<now, maybe, base, stage, loading, promised>>
  BY DEF HvMarkDirty, diskVars, history
<1>2. PICK D, L, v : StageFits(D, L, v)
  BY DEF Safe
<1>3. ~loading /\ Resting(D, L, v)
  BY <1>1, <1>2 DEF StageFits, LogStages, WriteStages
<1>4. \A r \in Sector : image'[r] = IF r = s THEN changes + 1 ELSE image[r]
  BY <1>0, <1>1 DEF Image
<1>5. Same(D) => Same(D)'
  BY <1>1, <1>4 DEF Same
<1>6. Resting(D, L, v)'
  BY <1>1, <1>3, <1>5 DEF Resting, AllComplete, NoneComplete, PrimaryHolds, Logged, BodySettled
<1>7. StageFits(D, L, v)'
  BY <1>1, <1>2, <1>3, <1>6 DEF StageFits
<1>8. changes + 1 # Unreadable
  BY <1>0, HiveAssumption
<1>9. Readable'
  BY <1>1, <1>3, <1>4, <1>8 DEF Readable, Safe
<1> QED
  BY <1>7, <1>9 DEF Safe

LEMMA SyncKeeps ==
  ASSUME TypeOKHive, Safe, HvSyncHive, ~exposed'
  PROVE  Safe'
<1>0. DiskOK /\ image \in Image /\ dirty \in SUBSET Sector
  BY TypeParts
<1>1. /\ stage = "Idle" /\ dirty # {} /\ base.equal
      /\ base' = [equal |-> FALSE, stamp |-> changes]
      /\ promised' = promised \union {image}
      /\ UNCHANGED <<image, dirty, loading>>
  BY DEF HvSyncHive, MaySync
<1>2. PICK D, L, v : StageFits(D, L, v)
  BY DEF Safe
<1>3. ~loading /\ Resting(D, L, v)
  BY <1>1, <1>2 DEF StageFits, LogStages, WriteStages
<1>4. AllComplete
  BY <1>1 DEF HvSyncHive, AllComplete
<1>5. PrimaryHolds(D) /\ Same(D)
  BY <1>1, <1>3 DEF Resting
<1>6. IsWrite([c \in {LogHeader} |-> base'])
  <2>1. base' \in Base
    <3>1. changes \in 0..MaxChanges
      BY TypeParts
    <3> QED
      BY <1>1, <3>1 DEF Base
  <2> QED
    BY <2>1, HeaderWrite DEF Headers
<1>7. /\ \A c \in Cells \ {LogHeader} : maybe'[c] = maybe[c]
      /\ stage' = "FlushLogHeader" \/ Fails
  <2>1. FileWrite([c \in {LogHeader} |-> base'], "FlushLogHeader")
    BY DEF HvSyncHive
  <2> QED
    BY <1>0, <1>6, <2>1, WriteEffect
<1>8. AllComplete' /\ PrimaryHolds(D)' /\ Same(D)'
  <2>1. Header \in Cells \ {LogHeader} /\ \A s \in Sector : Data(s) \in Cells \ {LogHeader}
    BY Files, CellsDiffer
  <2>2. AllComplete'
    BY <1>0, <1>4, <1>7, <2>1, SameSettles, HeaderKept
  <2>3. PrimaryHolds(D)'
    BY <1>0, <1>5, <1>7, <2>1, SameSettles, PrimaryKept
  <2> QED
    BY <1>1, <1>5, <2>2, <2>3 DEF Same
<1>9. CASE stage' = "FlushLogHeader"
  <2>1. PICK M : M = image
    OBVIOUS
  <2>2. PICK w : w = dirty
    OBVIOUS
  <2>3. Logging(D, M, w)'
    BY <1>1, <1>3, <1>8, <1>9, <2>1, <2>2 DEF Logging
  <2>4. StageFits(D, M, w)'
    BY <1>0, <1>1, <1>2, <1>9, <2>1, <2>2, <2>3 DEF StageFits, LogStages
  <2> QED
    BY <1>1, <1>3, <1>9, <2>4 DEF Safe, Readable
<1>10. CASE Fails
  <2>1. stage' = "Idle"
    BY <1>3, <1>10, WhereFails
  <2>2. Resting(D, L, v)'
    BY <1>8 DEF Resting
  <2>3. StageFits(D, L, v)'
    BY <1>1, <1>2, <1>3, <2>1, <2>2 DEF StageFits
  <2> QED
    BY <1>1, <1>3, <2>1, <2>3 DEF Safe, Readable
<1> QED
  BY <1>7, <1>9, <1>10

(***************************************************************************)
(* The log: the primary file and the hive in memory stay as they are.      *)
(***************************************************************************)
LogStep ==
  /\ \A c \in Primary : maybe'[c] = maybe[c]
  /\ UNCHANGED <<image, dirty, loading, promised>>

LEMMA LogStepKeeps ==
  ASSUME DiskOK, LogStep, NEW D, NEW L, NEW v, StageFits(D, L, v), stage \in LogStages
  PROVE  /\ Logging(D, L, v)
         /\ AllComplete' /\ PrimaryHolds(D)' /\ Same(D)' /\ ~loading'
         /\ image' = L /\ dirty' = v
         /\ Fails => StageFits(D, L, v)'
         /\ stage' \in LogStages /\ Logging(D, L, v)' => StageFits(D, L, v)'
<1>1. Logging(D, L, v)
  BY DEF StageFits, LogStages, WriteStages
<1>2. Header \in Cells /\ \A s \in Sector : Data(s) \in Cells /\ Data(s) \in Primary
  BY Files
<1>3. AllComplete'
  BY <1>1, <1>2, SameSettles, HeaderKept, Files DEF LogStep, Logging
<1>4. PrimaryHolds(D)'
  BY <1>1, <1>2, SameSettles, PrimaryKept DEF LogStep, Logging
<1>5. Same(D)' /\ ~loading' /\ image' = L /\ dirty' = v
  BY <1>1 DEF LogStep, Logging, Same
<1>6. Fails => StageFits(D, L, v)'
  <2> SUFFICES ASSUME Fails
               PROVE  StageFits(D, L, v)'
    OBVIOUS
  <2>1. stage' = "Idle"
    BY <1>1, WhereFails DEF Logging
  <2>2. Resting(D, L, v)'
    BY <1>3, <1>4, <1>5 DEF Resting
  <2> QED
    BY <1>5, <2>1, <2>2 DEF StageFits, LogStep
<1>7. stage' \in LogStages /\ Logging(D, L, v)' => StageFits(D, L, v)'
  BY DEF StageFits, LogStep
<1> QED
  BY <1>1, <1>3, <1>4, <1>5, <1>6, <1>7

LEMMA WriteLogKeeps ==
  ASSUME TypeOKHive, Safe, WriteLog
  PROVE  Safe'
<1>0. DiskOK /\ image \in Image /\ dirty \in SUBSET Sector /\ base \in Base
  BY TypeParts
<1>1. PICK D, L, v : StageFits(D, L, v)
  BY DEF Safe
<1>2. stage \in LogStages /\ v \in SUBSET Sector
  BY <1>1 DEF WriteLog, WriteLogBody, WriteLogDone, FlushLog, LogStages, StageFits
<1>3. UNCHANGED <<image, dirty, loading, promised>>
  BY DEF WriteLog, WriteLogBody, WriteLogDone, FlushLog, hiveVars, history
<1>4. Readable'
  BY <1>2, <1>3, ReadableKept DEF Safe, LogStages
<1>5. \A s \in v : /\ LogData(Place(v, s)) \in Log \ {LogHeader}
                   /\ LogData(Place(v, s)) \in Cells
  BY <1>2, PlaceType, Files, CellsDiffer
<1>6. CASE WriteLogBody
  <2>1. stage = "LogBody" /\ FileWrite(LogBody, "FlushLogBody")
    BY <1>6, StageNames DEF WriteLogBody
  <2>2. /\ \A c \in Cells \ DOMAIN LogBody : maybe'[c] = maybe[c]
        /\ \/ stage' = "FlushLogBody" /\ \A c \in DOMAIN LogBody : now'[c] = LogBody[c]
           \/ Fails
    BY <1>0, <2>1, BodyWrite, WriteEffect
  <2>3. LogStep
    BY <1>3, <2>2, BodyWrite, Files DEF LogStep
  <2>4. CASE stage' = "FlushLogBody" /\ \A c \in DOMAIN LogBody : now'[c] = LogBody[c]
    <3>1. Logging(D, L, v) /\ AllComplete' /\ PrimaryHolds(D)' /\ Same(D)' /\ ~loading'
      BY <1>0, <1>1, <1>2, <2>3, LogStepKeeps
    <3>2. image = L /\ dirty = v /\ v # {} /\ image' = L /\ dirty' = v
      BY <1>3, <3>1 DEF Logging
    <3>3. LogWritten(L, v)'
      <4>1. now'[LogVector] = v
        BY <2>4, <3>2, BodyWrite
      <4>2. \A s \in v : now'[LogData(Place(v, s))] = L[s]
        BY <2>4, <3>2, BodyWrite
      <4> QED
        BY <4>1, <4>2 DEF LogWritten
    <3>4. Logging(D, L, v)'
      BY <2>4, <3>1, <3>2, <3>3 DEF Logging
    <3>5. StageFits(D, L, v)'
      BY <1>0, <1>1, <1>2, <2>3, <2>4, <3>4, LogStepKeeps DEF LogStages
    <3> QED
      BY <1>4, <3>5 DEF Safe
  <2>5. CASE Fails
    BY <1>0, <1>1, <1>2, <1>4, <2>3, <2>5, LogStepKeeps DEF Safe
  <2> QED
    BY <2>2, <2>4, <2>5
<1>7. CASE WriteLogDone
  <2>1. /\ stage = "LogDone" /\ base' \in Base
        /\ FileWrite([c \in {LogHeader} |-> base'], "FlushLogDone")
    BY <1>0, <1>7, StageNames, BaseTypes DEF WriteLogDone
  <2>2. /\ \A c \in Cells \ {LogHeader} : maybe'[c] = maybe[c]
        /\ \/ stage' = "FlushLogDone" /\ now'[LogHeader] = base'
           \/ Fails
    <3>1. IsWrite([c \in {LogHeader} |-> base'])
      BY <2>1, HeaderWrite DEF Headers
    <3>2. /\ \A c \in Cells \ DOMAIN [c \in {LogHeader} |-> base'] : maybe'[c] = maybe[c]
          /\ \/ /\ stage' = "FlushLogDone"
                /\ \A c \in DOMAIN [c \in {LogHeader} |-> base'] :
                     now'[c] = [x \in {LogHeader} |-> base'][c]
             \/ Fails
      BY <1>0, <2>1, <3>1, WriteEffect
    <3> QED
      BY <3>2
  <2>3. LogStep
    BY <1>3, <2>2, Files DEF LogStep
  <2>4. CASE stage' = "FlushLogDone" /\ now'[LogHeader] = base'
    <3>1. Logging(D, L, v) /\ AllComplete' /\ PrimaryHolds(D)' /\ Same(D)' /\ ~loading'
      BY <1>0, <1>1, <1>2, <2>3, LogStepKeeps
    <3>2. BodySettled(L, v) /\ v # {} /\ image' = L /\ dirty' = v
      BY <1>3, <2>1, <3>1 DEF Logging
    <3>3. BodySettled(L, v)'
      BY <1>0, <1>2, <2>2, <3>2, SameSettles, BodyKept, Files
    <3>4. now'[LogHeader] # Unreadable
      BY <2>1, <2>4, HiveAssumption DEF Base
    <3>5. Logging(D, L, v)'
      BY <2>4, <3>1, <3>2, <3>3, <3>4 DEF Logging
    <3>6. StageFits(D, L, v)'
      BY <1>0, <1>1, <1>2, <2>3, <2>4, <3>5, LogStepKeeps DEF LogStages
    <3> QED
      BY <1>4, <3>6 DEF Safe
  <2>5. CASE Fails
    BY <1>0, <1>1, <1>2, <1>4, <2>3, <2>5, LogStepKeeps DEF Safe
  <2> QED
    BY <2>2, <2>4, <2>5
<1>8. CASE FlushLog
  <2>1. /\ stage \in {"FlushLogHeader", "FlushLogBody", "FlushLogDone"}
        /\ FileFlush(Log, Follows[stage])
    BY <1>8 DEF FlushLog
  <2>2. \/ /\ stage' = Follows[stage]
           /\ \A c \in Log : maybe'[c] = {now[c]}
           /\ \A c \in Cells \ Log : maybe'[c] = maybe[c]
        \/ Fails /\ maybe' = maybe
    BY <1>0, <2>1, FlushEffect, Files
  <2>3. LogStep
    BY <1>3, <2>2, Files DEF LogStep
  <2>4. Logging(D, L, v) /\ AllComplete' /\ PrimaryHolds(D)' /\ Same(D)' /\ ~loading'
    BY <1>0, <1>1, <1>2, <2>3, LogStepKeeps
  <2>5. image = L /\ dirty = v /\ v # {} /\ image' = L /\ dirty' = v
    BY <1>3, <2>4 DEF Logging
  <2>6. CASE Fails
    BY <1>0, <1>1, <1>2, <1>4, <2>3, <2>6, LogStepKeeps DEF Safe
  <2>7. ASSUME stage' = Follows[stage], \A c \in Log : maybe'[c] = {now[c]}
        PROVE  Safe'
    <3>1. CASE stage = "FlushLogHeader"
      <4>1. stage' = "LogBody"
        BY <2>7, <3>1, StageNames
      <4>2. Logging(D, L, v)'
        BY <2>4, <2>5, <4>1 DEF Logging
      <4> QED
        BY <1>0, <1>1, <1>2, <1>4, <2>3, <4>1, <4>2, LogStepKeeps DEF LogStages, Safe
    <3>2. CASE stage = "FlushLogBody"
      <4>1. stage' = "LogDone"
        BY <2>7, <3>2, StageNames
      <4>2. LogWritten(L, v)
        BY <2>4, <3>2 DEF Logging
      <4>3. BodySettled(L, v)'
        BY <1>5, <2>7, <4>2, Files DEF LogWritten, BodySettled
      <4>4. Logging(D, L, v)'
        BY <2>4, <2>5, <4>1, <4>3 DEF Logging
      <4> QED
        BY <1>0, <1>1, <1>2, <1>4, <2>3, <4>1, <4>4, LogStepKeeps DEF LogStages, Safe
    <3>3. CASE stage = "FlushLogDone"
      <4>1. stage' = "FlushFirst"
        BY <2>7, <3>3, StageNames
      <4>2. BodySettled(L, v) /\ now[LogHeader] # Unreadable /\ Same(D)
        BY <2>4, <3>3 DEF Logging
      <4>3. BodySettled(L, v)'
        BY <1>0, <1>2, <2>7, <4>2, FlushSettles, BodyKept, Files
      <4>4. Unreadable \notin maybe'[LogHeader]
        BY <2>7, <4>2, Files
      <4>5. \A s \in Sector \ v : maybe'[Data(s)] = {L[s]}
        BY <2>4, <2>5, <4>2 DEF PrimaryHolds, Same
      <4>6. Logged(L, v)'
        BY <2>5, <4>3, <4>4, <4>5 DEF Logged
      <4>7. Writing(D, L, v)'
        BY <2>4, <2>5, <4>1, <4>6 DEF Writing
      <4>8. StageFits(D, L, v)'
        BY <1>1, <1>3, <4>1, <4>7 DEF StageFits, WriteStages
      <4> QED
        BY <1>4, <4>8 DEF Safe
    <3> QED
      BY <2>1, <3>1, <3>2, <3>3
  <2> QED
    BY <2>2, <2>6, <2>7
<1> QED
  BY <1>6, <1>7, <1>8 DEF WriteLog

(***************************************************************************)
(* The primary: the hive in memory stays as it is, and the log certainly   *)
(* holds what it held.                                                     *)
(***************************************************************************)
WriteStep == UNCHANGED <<image, dirty, loading, promised>>

(* A write of the primary that fails: the load fails, or the hive rests.   *)
LEMMA WritingFails ==
  ASSUME Readable, NEW D, NEW L, NEW v, StageFits(D, L, v), stage \in WriteStages,
         WriteStep, Fails, Logged(L, v)',
         \/ ~base'.equal /\ (NoneComplete' \/ PrimaryHolds(D)')
         \/ AllComplete' /\ PrimaryHolds(D)'
         \/ PrimaryHolds(L)'
  PROVE  \E E, M, w : StageFits(E, M, w)'
<1>1. Writing(D, L, v) /\ D \in promised /\ L \in promised /\ v \in SUBSET Sector
  BY DEF StageFits, WriteStages, LogStages
<1>2. image' = L /\ dirty' = v /\ promised' = promised /\ loading' = loading
  BY <1>1 DEF Writing, WriteStep
<1>3. CASE loading
  <2>1. stage' = "Down"
    BY <1>3, WhereFails
  <2>2. D = L
    BY <1>1, <1>3 DEF Readable, WriteStages
  <2>3. NotLoaded(L, v)'
    BY <2>2 DEF NotLoaded
  <2>4. StageFits(L, L, v)'
    BY <1>1, <1>2, <2>1, <2>3 DEF StageFits
  <2> QED
    BY <2>4
<1>4. CASE ~loading
  <2>1. stage' = "Idle" /\ ~loading'
    BY <1>2, <1>4, WhereFails
  <2>2. CASE ~base'.equal /\ (NoneComplete' \/ PrimaryHolds(D)')
    <3>1. Resting(D, L, v)'
      BY <2>2 DEF Resting
    <3>2. StageFits(D, L, v)'
      BY <1>1, <1>2, <2>1, <3>1 DEF StageFits
    <3> QED
      BY <3>2
  <2>3. CASE AllComplete' /\ PrimaryHolds(D)'
    <3>1. Same(D)'
      BY <1>2, <2>3 DEF PrimaryHolds, Logged, Same
    <3>2. Resting(D, L, v)'
      BY <2>3, <3>1 DEF Resting
    <3>3. StageFits(D, L, v)'
      BY <1>1, <1>2, <2>1, <3>2 DEF StageFits
    <3> QED
      BY <3>3
  <2>4. CASE PrimaryHolds(L)'
    <3>1. Same(L)'
      BY <1>2 DEF Same
    <3>2. Resting(L, L, v)'
      BY <2>4, <3>1 DEF Resting
    <3>3. StageFits(L, L, v)'
      BY <1>1, <1>2, <2>1, <3>2 DEF StageFits
    <3> QED
      BY <3>3
  <2> QED
    BY <2>2, <2>3, <2>4
<1> QED
  BY <1>3, <1>4

(* A write of the primary that goes on. *)
LEMMA WritingGoesOn ==
  ASSUME NEW D, NEW L, NEW v, StageFits(D, L, v), WriteStep,
         stage' \in WriteStages, Writing(D, L, v)', stage \in WriteStages
  PROVE  StageFits(D, L, v)'
BY DEF StageFits, WriteStep

(* What is known of the log while the primary is written. *)
LEMMA LogStays ==
  ASSUME DiskOK, NEW L, NEW v \in SUBSET Sector, Logged(L, v),
         \A c \in Log : maybe'[c] = maybe[c],
         \A s \in Sector \ v : Settles(Data(s))
  PROVE  Logged(L, v)'
<1>1. \A c \in Log : Settles(c)
  BY SameSettles, Files
<1> QED
  BY <1>1, LoggedKept

LEMMA FlushPrimaryKeeps ==
  ASSUME TypeOKHive, Safe, FlushPrimary
  PROVE  Safe'
<1>0. DiskOK
  BY TypeParts
<1>1. PICK D, L, v : StageFits(D, L, v)
  BY DEF Safe
<1>2. stage \in {"FlushFirst", "FlushHeader", "FlushData"} /\ stage \in WriteStages
  BY DEF FlushPrimary, WriteStages
<1>3. Writing(D, L, v) /\ v \in SUBSET Sector /\ Logged(L, v) /\ image = L /\ dirty = v
  BY <1>1, <1>2 DEF StageFits, WriteStages, LogStages, Writing
<1>4. UNCHANGED <<image, dirty, base, loading, promised>> /\ WriteStep
  BY DEF FlushPrimary, hiveVars, history, WriteStep
<1>5. Readable'
  BY <1>2, <1>4, ReadableKept DEF Safe, WriteStages
<1>6. /\ now' = now
      /\ \/ /\ stage' = Follows[stage]
            /\ \A c \in Primary : maybe'[c] = {now[c]}
            /\ \A c \in Cells \ Primary : maybe'[c] = maybe[c]
         \/ Fails /\ maybe' = maybe
  <2>1. FileFlush(Primary, Follows[stage])
    BY DEF FlushPrimary
  <2> QED
    BY <1>0, <2>1, FlushEffect, Files
<1>7. CASE Fails /\ maybe' = maybe
  <2>1. Logged(L, v)'
    BY <1>3, <1>7 DEF Logged, BodySettled
  <2>2. CASE loading /\ stage = "FlushFirst"
    <3>1. stage' = "Down"
      BY <1>7, <2>2, WhereFails
    <3>2. NotLoaded(L, v)'
      BY <1>3, <1>7, <2>1, <2>2 DEF Writing, NotLoaded, NoneComplete, PrimaryHolds
    <3>3. StageFits(L, L, v)'
      BY <1>1, <1>4, <3>1, <3>2 DEF StageFits
    <3> QED
      BY <1>5, <3>3 DEF Safe
  <2>3. CASE ~(loading /\ stage = "FlushFirst")
    <3>1. \/ ~base'.equal /\ (NoneComplete' \/ PrimaryHolds(D)')
          \/ AllComplete' /\ PrimaryHolds(D)'
          \/ PrimaryHolds(L)'
      BY <1>2, <1>3, <1>4, <1>7, <2>3 DEF Writing, NoneComplete, AllComplete, PrimaryHolds
    <3>2. \E E, M, w : StageFits(E, M, w)'
      BY <1>1, <1>2, <1>4, <1>7, <2>1, <3>1, WritingFails DEF Safe
    <3> QED
      BY <1>5, <3>2 DEF Safe
  <2> QED
    BY <2>2, <2>3
<1>8. ASSUME stage' = Follows[stage], \A c \in Primary : maybe'[c] = {now[c]},
             \A c \in Cells \ Primary : maybe'[c] = maybe[c]
      PROVE  Safe'
  <2>1. Settles(Header) /\ \A s \in Sector : Settles(Data(s))
    BY <1>0, <1>8, FlushSettles, Files
  <2>2. Logged(L, v)'
    BY <1>0, <1>3, <1>8, <2>1, LogStays, Files
  <2>3. image' = L /\ dirty' = v
    BY <1>3, <1>4
  <2>4. Writing(D, L, v)' /\ stage' \in WriteStages
    <3>1. CASE stage = "FlushFirst"
      <4>1. stage' = "Header"
        BY <1>8, <3>1, StageNames
      <4>2. NoneComplete \/ PrimaryHolds(D)
        <5>1. loading => D = L
          BY <1>1, <3>1 DEF Safe, Readable, StageFits, Writing
        <5> QED
          BY <1>3, <3>1, <5>1 DEF Writing
      <4>3. NoneComplete' \/ PrimaryHolds(D)'
        BY <2>1, <4>2, HeaderKept, PrimaryKept
      <4> QED
        BY <2>2, <2>3, <4>1, <4>3 DEF Writing, WriteStages
    <3>2. CASE stage = "FlushHeader"
      <4>1. stage' = "Data"
        BY <1>8, <3>2, StageNames
      <4>2. ~IsComplete(now[Header]) /\ ~base'.equal
        BY <1>3, <1>4, <3>2 DEF Writing
      <4>3. NoneComplete'
        BY <1>8, <4>2, Files DEF NoneComplete
      <4> QED
        BY <2>2, <2>3, <4>1, <4>2, <4>3 DEF Writing, WriteStages
    <3>3. CASE stage = "FlushData"
      <4>1. stage' = "Done"
        BY <1>8, <3>3, StageNames
      <4>2. NoneComplete'
        BY <1>3, <2>1, <3>3, HeaderKept DEF Writing
      <4>3. \A s \in Sector : now[Data(s)] = L[s]
        <5>1. \A s \in v : now[Data(s)] = L[s]
          BY <1>3, <3>3 DEF Writing
        <5>2. \A s \in Sector \ v : now[Data(s)] = L[s]
          BY <1>0, <1>3, Files DEF DiskOK, Logged
        <5> QED
          BY <5>1, <5>2
      <4>4. PrimaryHolds(L)'
        BY <1>8, <4>3, Files DEF PrimaryHolds
      <4> QED
        BY <2>2, <2>3, <4>1, <4>2, <4>4 DEF Writing, WriteStages
    <3> QED
      BY <1>2, <3>1, <3>2, <3>3
  <2>5. StageFits(D, L, v)'
    BY <1>1, <1>2, <1>4, <2>4, WritingGoesOn
  <2> QED
    BY <1>5, <2>5 DEF Safe
<1> QED
  BY <1>6, <1>7, <1>8

LEMMA WriteHeaderKeeps ==
  ASSUME TypeOKHive, Safe, WriteHeader
  PROVE  Safe'
<1>0. DiskOK /\ base \in Base
  BY TypeParts
<1>1. PICK D, L, v : StageFits(D, L, v)
  BY DEF Safe
<1>2. stage = "Header" /\ stage \in WriteStages
  BY DEF WriteHeader, WriteStages
<1>3. Writing(D, L, v) /\ v \in SUBSET Sector /\ Logged(L, v) /\ image = L /\ dirty = v
  BY <1>1, <1>2 DEF StageFits, WriteStages, LogStages, Writing
<1>4. UNCHANGED <<image, dirty, loading, promised>> /\ WriteStep /\ base' = Started(base)
  BY DEF WriteHeader, history, WriteStep
<1>5. Readable'
  BY <1>2, <1>4, ReadableKept DEF Safe, WriteStages
<1>6. base' \in Base /\ ~base'.equal /\ ~IsComplete(base')
  BY <1>0, <1>4 DEF Started, Base, IsComplete
<1>7. /\ \A c \in Cells \ {Header} : maybe'[c] = maybe[c]
      /\ maybe'[Header] = maybe[Header] \union Left(Header, base')
      /\ \/ stage' = "FlushHeader" /\ now'[Header] = base'
         \/ Fails
  <2>1. IsWrite([c \in {Header} |-> base'])
    BY <1>6, HeaderWrite DEF Headers
  <2>2. FileWrite([c \in {Header} |-> base'], "FlushHeader")
    BY <1>2, StageNames DEF WriteHeader
  <2>3. /\ \A c \in Cells \ DOMAIN [c \in {Header} |-> base'] : maybe'[c] = maybe[c]
        /\ \A c \in DOMAIN [c \in {Header} |-> base'] :
             maybe'[c] = maybe[c] \union Left(c, [x \in {Header} |-> base'][c])
        /\ \/ /\ stage' = "FlushHeader"
              /\ \A c \in DOMAIN [c \in {Header} |-> base'] :
                   now'[c] = [x \in {Header} |-> base'][c]
           \/ Fails
    BY <1>0, <2>1, <2>2, WriteEffect
  <2> QED
    BY <2>3
<1>8. Logged(L, v)' /\ (NoneComplete' \/ PrimaryHolds(D)')
  <2>1. \A c \in Log : c \in Cells \ {Header}
    BY Files
  <2>2. \A s \in Sector : Data(s) \in Cells \ {Header}
    BY Files, CellsDiffer
  <2>3. Logged(L, v)'
    BY <1>0, <1>3, <1>7, <2>1, <2>2, SameSettles, LogStays
  <2>4. NoneComplete => NoneComplete'
    <3>1. \A h \in Left(Header, base') : ~IsComplete(h)
      BY <1>6 DEF Left, IsComplete
    <3> QED
      BY <1>7, <3>1 DEF NoneComplete
  <2>5. PrimaryHolds(D) => PrimaryHolds(D)'
    BY <1>7, <2>2 DEF PrimaryHolds
  <2>6. NoneComplete \/ PrimaryHolds(D)
    BY <1>2, <1>3 DEF Writing
  <2> QED
    BY <2>3, <2>4, <2>5, <2>6
<1>9. CASE stage' = "FlushHeader" /\ now'[Header] = base'
  <2>1. ~IsComplete(now'[Header]) /\ image' = L /\ dirty' = v
    BY <1>3, <1>4, <1>6, <1>9
  <2>2. Writing(D, L, v)' /\ stage' \in WriteStages
    BY <1>6, <1>8, <1>9, <2>1 DEF Writing, WriteStages
  <2>3. StageFits(D, L, v)'
    BY <1>1, <1>2, <1>4, <2>2, WritingGoesOn
  <2> QED
    BY <1>5, <2>3 DEF Safe
<1>10. CASE Fails
  <2>1. \E E, M, w : StageFits(E, M, w)'
    BY <1>1, <1>2, <1>4, <1>6, <1>8, <1>10, WritingFails DEF Safe
  <2> QED
    BY <1>5, <2>1 DEF Safe
<1> QED
  BY <1>7, <1>9, <1>10

LEMMA WriteDataKeeps ==
  ASSUME TypeOKHive, Safe, WriteData
  PROVE  Safe'
<1>0. DiskOK
  BY TypeParts
<1>1. PICK D, L, v : StageFits(D, L, v)
  BY DEF Safe
<1>2. stage = "Data" /\ stage \in WriteStages
  BY DEF WriteData, WriteStages
<1>3. Writing(D, L, v) /\ v \in SUBSET Sector /\ Logged(L, v) /\ image = L /\ dirty = v
  BY <1>1, <1>2 DEF StageFits, WriteStages, LogStages, Writing
<1>4. UNCHANGED <<image, dirty, base, loading, promised>> /\ WriteStep
  BY DEF WriteData, hiveVars, history, WriteStep
<1>5. Readable'
  BY <1>2, <1>4, ReadableKept DEF Safe, WriteStages
<1>6. /\ \A c \in Cells \ DOMAIN DataWritten : maybe'[c] = maybe[c]
      /\ \/ stage' = "FlushData" /\ \A c \in DOMAIN DataWritten : now'[c] = DataWritten[c]
         \/ Fails
  <2>1. FileWrite(DataWritten, "FlushData")
    BY <1>2, StageNames DEF WriteData, DataWritten
  <2> QED
    BY <1>0, <2>1, DataWrite, WriteEffect
<1>7. NoneComplete' /\ ~base'.equal
  <2>1. NoneComplete /\ ~base.equal
    BY <1>2, <1>3 DEF Writing
  <2>2. Header \in Cells \ DOMAIN DataWritten
    BY DataWrite, Files, CellsDiffer
  <2> QED
    BY <1>0, <1>4, <1>6, <2>1, <2>2, SameSettles, HeaderKept
<1>8. Logged(L, v)'
  <2>1. \A c \in Log : c \in Cells \ DOMAIN DataWritten
    BY DataWrite, Files
  <2>2. \A s \in Sector \ v : Data(s) \in Cells \ DOMAIN DataWritten
    <3>1. DOMAIN DataWritten = {Stamp} \union {Data(s) : s \in v}
      BY <1>3, DataWrite
    <3> QED
      BY <3>1, Files, CellsDiffer
  <2> QED
    BY <1>0, <1>3, <1>6, <2>1, <2>2, SameSettles, LogStays
<1>9. CASE stage' = "FlushData" /\ \A c \in DOMAIN DataWritten : now'[c] = DataWritten[c]
  <2>1. \A s \in v : now'[Data(s)] = L[s]
    BY <1>3, <1>9, DataWrite
  <2>2. image' = L /\ dirty' = v
    BY <1>3, <1>4
  <2>3. Writing(D, L, v)' /\ stage' \in WriteStages
    BY <1>7, <1>8, <1>9, <2>1, <2>2 DEF Writing, WriteStages
  <2>4. StageFits(D, L, v)'
    BY <1>1, <1>2, <1>4, <2>3, WritingGoesOn
  <2> QED
    BY <1>5, <2>4 DEF Safe
<1>10. CASE Fails
  <2>1. \E E, M, w : StageFits(E, M, w)'
    BY <1>1, <1>2, <1>4, <1>7, <1>8, <1>10, WritingFails DEF Safe
  <2> QED
    BY <1>5, <2>1 DEF Safe
<1> QED
  BY <1>6, <1>9, <1>10

LEMMA WriteDoneKeeps ==
  ASSUME TypeOKHive, Safe, WriteDone
  PROVE  Safe'
<1>0. DiskOK /\ base \in Base
  BY TypeParts
<1>1. PICK D, L, v : StageFits(D, L, v)
  BY DEF Safe
<1>2. stage = "Done" /\ stage \in WriteStages
  BY DEF WriteDone, WriteStages
<1>3. Writing(D, L, v) /\ v \in SUBSET Sector /\ Logged(L, v) /\ image = L /\ dirty = v
  BY <1>1, <1>2 DEF StageFits, WriteStages, LogStages, Writing
<1>4. UNCHANGED <<image, dirty, loading, promised>> /\ WriteStep /\ base' = Completed(base)
  BY DEF WriteDone, history, WriteStep
<1>5. Readable'
  BY <1>2, <1>4, ReadableKept DEF Safe, WriteStages
<1>6. base' \in Base /\ IsComplete(base')
  <2>1. base' \in Base /\ base'.equal
    BY <1>0, <1>4 DEF Completed, Base
  <2>2. base' # Unreadable
    BY <2>1, HiveAssumption DEF Base
  <2> QED
    BY <2>1, <2>2 DEF IsComplete
<1>7. /\ \A c \in Cells \ {Header} : maybe'[c] = maybe[c]
      /\ \/ stage' = "FlushDone" /\ now'[Header] = base'
         \/ Fails
  <2>1. IsWrite([c \in {Header} |-> base'])
    BY <1>6, HeaderWrite DEF Headers
  <2>2. FileWrite([c \in {Header} |-> base'], "FlushDone")
    BY <1>2, StageNames DEF WriteDone
  <2>3. /\ \A c \in Cells \ DOMAIN [c \in {Header} |-> base'] : maybe'[c] = maybe[c]
        /\ \/ /\ stage' = "FlushDone"
              /\ \A c \in DOMAIN [c \in {Header} |-> base'] :
                   now'[c] = [x \in {Header} |-> base'][c]
           \/ Fails
    BY <1>0, <2>1, <2>2, WriteEffect
  <2> QED
    BY <2>3
<1>8. Logged(L, v)' /\ PrimaryHolds(L)'
  <2>1. \A c \in Log : c \in Cells \ {Header}
    BY Files
  <2>2. \A s \in Sector : Data(s) \in Cells \ {Header}
    BY Files, CellsDiffer
  <2>3. Logged(L, v)'
    BY <1>0, <1>3, <1>7, <2>1, <2>2, SameSettles, LogStays
  <2>4. PrimaryHolds(L)
    BY <1>2, <1>3 DEF Writing
  <2> QED
    BY <1>7, <2>2, <2>3, <2>4 DEF PrimaryHolds
<1>9. CASE stage' = "FlushDone" /\ now'[Header] = base'
  <2>1. IsComplete(now'[Header]) /\ image' = L /\ dirty' = v
    BY <1>3, <1>4, <1>6, <1>9
  <2>2. Writing(D, L, v)' /\ stage' \in WriteStages
    BY <1>8, <1>9, <2>1 DEF Writing, WriteStages
  <2>3. StageFits(D, L, v)'
    BY <1>1, <1>2, <1>4, <2>2, WritingGoesOn
  <2> QED
    BY <1>5, <2>3 DEF Safe
<1>10. CASE Fails
  <2>1. \E E, M, w : StageFits(E, M, w)'
    BY <1>1, <1>2, <1>4, <1>8, <1>10, WritingFails DEF Safe
  <2> QED
    BY <1>5, <2>1 DEF Safe
<1> QED
  BY <1>7, <1>9, <1>10

LEMMA FlushDoneKeeps ==
  ASSUME TypeOKHive, Safe, FlushDone
  PROVE  Safe'
<1>0. DiskOK
  BY TypeParts
<1>1. PICK D, L, v : StageFits(D, L, v)
  BY DEF Safe
<1>2. stage = "FlushDone" /\ stage \in WriteStages
  BY DEF FlushDone, WriteStages
<1>3. /\ Writing(D, L, v) /\ v \in SUBSET Sector /\ L \in promised
      /\ Logged(L, v) /\ image = L /\ dirty = v
      /\ PrimaryHolds(L) /\ IsComplete(now[Header])
  BY <1>1, <1>2 DEF StageFits, WriteStages, LogStages, Writing
<1>4. CASE Fails /\ UNCHANGED <<diskVars, dirty, loading, promised>>
  <2>1. WriteStep /\ maybe' = maybe /\ UNCHANGED <<image, dirty, loading, promised>>
    BY <1>4 DEF FlushDone, WriteStep, diskVars
  <2>2. Logged(L, v)' /\ PrimaryHolds(L)'
    BY <1>3, <2>1 DEF Logged, BodySettled, PrimaryHolds
  <2>3. \E E, M, w : StageFits(E, M, w)'
    BY <1>1, <1>2, <1>4, <2>1, <2>2, WritingFails DEF Safe
  <2>4. Readable'
    BY <1>2, <2>1, ReadableKept DEF Safe, WriteStages
  <2> QED
    BY <2>3, <2>4 DEF Safe
<1>5. CASE /\ now' = IF loading THEN CutOff(now) ELSE now
           /\ maybe' = IF loading THEN MayBeCutOff(Flushed) ELSE Flushed
           /\ dirty' = {} /\ loading' = FALSE /\ stage' = "Idle" /\ promised' = {image}
  <2>1. image' = L /\ promised' = {L}
    BY <1>3, <1>5 DEF FlushDone
  <2>2. \A c \in Primary : maybe'[c] = {now[c]}
    BY <1>0, <1>5, LastFlush
  <2>3. AllComplete'
    BY <1>3, <2>2, Files DEF AllComplete
  <2>4. PrimaryHolds(L)'
    <3>1. \A s \in Sector : now[Data(s)] = L[s]
      BY <1>0, <1>3, Files DEF DiskOK, PrimaryHolds
    <3> QED
      BY <2>2, <3>1, Files DEF PrimaryHolds
  <2>5. Same(L)'
    BY <2>1 DEF Same
  <2>6. Resting(L, L, v)'
    BY <2>3, <2>4, <2>5 DEF Resting
  <2>7. StageFits(L, L, v)'
    BY <1>3, <1>5, <2>1, <2>6 DEF StageFits
  <2>8. Readable'
    BY <1>3, <1>5, <2>1 DEF Safe, Readable
  <2> QED
    BY <2>7, <2>8 DEF Safe
<1> QED
  BY <1>4, <1>5 DEF FlushDone, Flushed

LEMMA LoadHiveKeeps ==
  ASSUME TypeOKHive, Safe, HvLoadHive
  PROVE  Safe'
<1>0. DiskOK /\ promised \subseteq Image /\ \A c \in Cells : now[c] \in maybe[c]
  BY TypeParts DEF TypeOKHive
<1>1. PICK D, L, v : StageFits(D, L, v)
  BY DEF Safe
<1>2. stage = "Down" /\ promised' = {image'}
  BY DEF HvLoadHive
<1>3. NotLoaded(L, v) /\ L \in promised /\ v \in SUBSET Sector
  BY <1>1, <1>2 DEF StageFits, LogStages, WriteStages
<1>4. L \in Image /\ \A s \in Sector : L[s] # Unreadable
  BY <1>0, <1>3 DEF Safe, Readable
<1>5. now[Header] \in maybe[Header]
  BY <1>0, Files
<1>6. CASE ~NeedsRecovery(now)
  <2>1. IsComplete(now[Header])
    BY <1>6 DEF NeedsRecovery
  <2>2. PrimaryHolds(L) /\ (AllComplete \/ Logged(L, v))
    BY <1>3, <1>5, <2>1 DEF NotLoaded, NoneComplete
  <2>3. ImageOf(now) = L
    BY <1>0, <1>4, <1>6, <2>2, PrimaryRead DEF ImageOf
  <2>4. /\ image' = L /\ dirty' = {} /\ ~loading' /\ stage' = "Idle"
        /\ UNCHANGED <<now, maybe>>
    BY <1>6, <2>3 DEF HvLoadHive, diskVars
  <2>5. Same(L)'
    BY <2>4 DEF Same
  <2>6. Resting(L, L, v)'
    BY <2>2, <2>4, <2>5 DEF Resting, AllComplete, PrimaryHolds, Logged, BodySettled
  <2>7. StageFits(L, L, v)'
    BY <1>2, <1>3, <2>4, <2>6 DEF StageFits
  <2>8. Readable'
    BY <1>2, <1>4, <2>4 DEF Readable
  <2> QED
    BY <2>7, <2>8 DEF Safe
<1>7. CASE NeedsRecovery(now)
  <2>1. ~IsComplete(now[Header])
    BY <1>7 DEF NeedsRecovery
  <2>2. Logged(L, v) /\ (NoneComplete \/ PrimaryHolds(L))
    BY <1>3, <1>5, <2>1 DEF NotLoaded, AllComplete
  <2>3. Recovered(now) = v /\ HvpRecoverData(now) = L /\ now[LogHeader] # Unreadable
    BY <1>0, <1>3, <1>4, <2>2, LogRead
  <2>4. ImageOf(now) = L /\ v # {}
    BY <1>7, <2>2, <2>3 DEF ImageOf, Logged
  <2>5. image' = L /\ dirty' = v
    BY <1>7, <2>3, <2>4 DEF HvLoadHive
  <2>6. loading'
    BY <2>4, <2>5 DEF HvLoadHive
  <2>7. stage' = "FlushFirst" /\ UNCHANGED <<now, maybe>>
    BY <2>6 DEF HvLoadHive, diskVars
  <2>8. Writing(L, L, v)'
    BY <2>2, <2>5, <2>6, <2>7
    DEF Writing, NoneComplete, PrimaryHolds, Logged, BodySettled
  <2>9. StageFits(L, L, v)'
    BY <1>2, <1>3, <2>5, <2>7, <2>8 DEF StageFits, WriteStages
  <2>10. Readable'
    BY <1>2, <1>4, <2>5 DEF Readable
  <2> QED
    BY <2>9, <2>10 DEF Safe
<1> QED
  BY <1>6, <1>7

LEMMA CrashKeeps ==
  ASSUME TypeOKHive, Safe, Crash
  PROVE  Safe'
<1>0. DiskOK
  BY TypeParts
<1>1. PICK D, L, v : DiskSafe(D, L, v)
  BY StageSafe
<1>2. stage' = "Down" /\ promised' = promised
  BY DEF Crash, history
<1>3. \A c \in Cells : now'[c] \in maybe[c] /\ maybe'[c] = {now'[c]}
  BY <1>0, CrashEffect
<1>4. \A c \in Cells : Settles(c)
  BY <1>3 DEF Settles
<1>5. Readable'
  BY <1>2 DEF Safe, Readable
<1>6. PrimaryHolds(D) => PrimaryHolds(D)'
  BY <1>4, PrimaryKept, Files
<1>7. Logged(L, v) => Logged(L, v)'
  <2>1. v \in SUBSET Sector
    BY <1>1 DEF DiskSafe
  <2> QED
    BY <1>4, <2>1, LoggedKept, Files
<1>8. (AllComplete => AllComplete') /\ (NoneComplete => NoneComplete')
  BY <1>4, HeaderKept, Files
<1>9. AllComplete' \/ NoneComplete'
  BY <1>3, Files DEF AllComplete, NoneComplete
<1>10. (AllComplete' /\ PrimaryHolds(D)') \/ (NoneComplete' /\ Logged(L, v)')
       \/ (AllComplete' /\ NoneComplete')
  BY <1>1, <1>6, <1>7, <1>8, <1>9 DEF DiskSafe
<1>11. ~(AllComplete' /\ NoneComplete')
  BY <1>3, Files DEF AllComplete, NoneComplete
<1>12. CASE AllComplete' /\ PrimaryHolds(D)'
  <2>1. StageFits(D, D, v)'
    BY <1>1, <1>2, <1>12 DEF DiskSafe, StageFits, NotLoaded
  <2> QED
    BY <1>5, <2>1 DEF Safe
<1>13. CASE NoneComplete' /\ Logged(L, v)'
  <2>1. StageFits(L, L, v)'
    BY <1>1, <1>2, <1>13 DEF DiskSafe, StageFits, NotLoaded
  <2> QED
    BY <1>5, <2>1 DEF Safe
<1> QED
  BY <1>10, <1>11, <1>12, <1>13

-----------------------------------------------------------------------------
(***************************************************************************)
(* The invariant.                                                          *)
(***************************************************************************)
LEMMA ExposedKept ==
  ASSUME exposed, NextHive
  PROVE  exposed'
BY DEF NextHive, HvMarkDirty, HvSyncHive, WriteLog, WriteLogBody, WriteLogDone, FlushLog,
       DoWriteHive, WriteHeader, WriteData, WriteDone, FlushPrimary, FlushDone, HvLoadHive,
       Crash, history

LEMMA SafeNext ==
  ASSUME TypeOKHive, Safe, NextHive, ~exposed'
  PROVE  Safe'
<1>1. ASSUME NEW s \in Sector, HvMarkDirty(s)
      PROVE  Safe'
  BY <1>1, MarkDirtyKeeps
<1>2. CASE HvSyncHive
  BY <1>2, SyncKeeps
<1>3. CASE WriteLog
  BY <1>3, WriteLogKeeps
<1>4. CASE DoWriteHive
  BY <1>4, WriteHeaderKeeps, WriteDataKeeps, WriteDoneKeeps, FlushPrimaryKeeps, FlushDoneKeeps
  DEF DoWriteHive
<1>5. CASE HvLoadHive
  BY <1>5, LoadHiveKeeps
<1>6. CASE Crash
  BY <1>6, CrashKeeps
<1> QED
  BY <1>1, <1>2, <1>3, <1>4, <1>5, <1>6 DEF NextHive

LEMMA HiveStutter ==
  ASSUME HiveInv, UNCHANGED varsHive
  PROVE  HiveInv'
<1>1. UNCHANGED <<now, maybe, image, dirty, base, stage, loading, changes, failures, crashes,
                  promised, exposed>>
  BY DEF varsHive, diskVars, hiveVars, history
<1>2. TypeOKHive'
  BY <1>1 DEF HiveInv, TypeOKHive
<1>3. Readable => Readable'
  BY <1>1 DEF Readable
<1>4. \A D, L, v : StageFits(D, L, v) => StageFits(D, L, v)'
  BY <1>1 DEF StageFits, NotLoaded, Resting, Logging, LogWritten, Writing, AllComplete,
              NoneComplete, PrimaryHolds, Logged, BodySettled, Same
<1> QED
  BY <1>1, <1>2, <1>3, <1>4 DEF HiveInv, Safe

LEMMA HiveInductive == HiveInv /\ [NextHive]_varsHive => HiveInv'
<1> SUFFICES ASSUME HiveInv, [NextHive]_varsHive
             PROVE  HiveInv'
  OBVIOUS
<1>1. CASE NextHive
  <2>1. TypeOKHive'
    BY <1>1, TypeNext DEF HiveInv
  <2>2. exposed => exposed'
    BY <1>1, ExposedKept
  <2>3. ~exposed' => Safe'
    BY <1>1, <2>2, SafeNext DEF HiveInv
  <2> QED
    BY <2>1, <2>3 DEF HiveInv
<1>2. CASE UNCHANGED varsHive
  BY <1>2, HiveStutter
<1> QED
  BY <1>1, <1>2

LEMMA SafeRecovers ==
  ASSUME TypeOKHive, Safe, NEW disk \in AfterCrash
  PROVE  Loads(disk) /\ ImageOf(disk) \in promised
<1>1. PICK D, L, v : DiskSafe(D, L, v)
  BY StageSafe
<1>2. \A c \in Cells : disk[c] \in maybe[c]
  BY TypeParts, AfterCrashIn
<1>3. /\ D \in promised /\ D \in Image /\ L \in promised /\ L \in Image /\ v \in SUBSET Sector
      /\ \A s \in Sector : L[s] # Unreadable
  BY <1>1 DEF DiskSafe, TypeOKHive, Safe, Readable
<1>4. disk[Header] \in maybe[Header]
  BY <1>2, Files
<1>5. CASE NeedsRecovery(disk)
  <2>1. Logged(L, v)
    BY <1>1, <1>4, <1>5 DEF DiskSafe, AllComplete, NeedsRecovery
  <2>2. HvpRecoverData(disk) = L /\ disk[LogHeader] # Unreadable
    BY <1>2, <1>3, <2>1, LogRead
  <2>3. ImageOf(disk) = L
    BY <1>5, <2>2 DEF ImageOf
  <2> QED
    BY <1>3, <2>3 DEF Loads, CmDoSelfHeal
<1>6. CASE ~NeedsRecovery(disk)
  <2>1. PrimaryHolds(D)
    BY <1>1, <1>4, <1>6 DEF DiskSafe, NoneComplete, NeedsRecovery
  <2>2. ImageOf(disk) = D
    BY <1>2, <1>3, <1>6, <2>1, PrimaryRead DEF ImageOf
  <2> QED
    BY <1>3, <1>6, <2>2 DEF Loads
<1> QED
  BY <1>5, <1>6

(* Of every cell, a read returns contents of its kind, and what a crash    *)
(* may leave there is of that kind and includes what a read returns; so    *)
(* whatever a load made of a disk is an image.                             *)
THEOREM HiveTypeCorrect == SpecHive => []TypeOKHive
<1>1. TypeOKHive /\ [NextHive]_varsHive => TypeOKHive'
  <2>1. TypeOKHive /\ UNCHANGED varsHive => TypeOKHive'
    BY DEF TypeOKHive, varsHive, diskVars, hiveVars, history
  <2> QED
    BY <2>1, TypeNext
<1> QED
  BY <1>1, TypeInit, PTL DEF SpecHive

(* Whenever the system crashes, and whatever writes of both files are on   *)
(* disk then, the next load succeeds and makes the image of the last sync, *)
(* or of one that began since (or the gap of HvSyncHive was hit before).   *)
THEOREM RecoverableAlways == SpecHive => []Recoverable
<1>1. InitHive => HiveInv
  BY TypeInit, SafeInit DEF HiveInv
<1>2. HiveInv => Recoverable
  BY SafeRecovers DEF HiveInv, Recoverable
<1> QED
  BY <1>1, <1>2, HiveInductive, PTL DEF SpecHive
=============================================================================
