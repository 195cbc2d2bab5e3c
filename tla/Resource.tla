------------------------------ MODULE Resource ------------------------------
(***************************************************************************)
(* One executive resource (base/ntos/ex/resource.c): a lock that is shared *)
(* or exclusive, recursive, and whose owners are recorded in a table.      *)
(* OwnerThreads[0] is the exclusive owner, and stays the entry of that     *)
(* owner when it converts to shared; all other entries are shared owners.  *)
(* A waiter counts itself under the spin lock of the resource and then     *)
(* waits for an event (exclusive) or a semaphore (shared); a release gives *)
(* the resource away on behalf of the waiters it counts, drops the spin    *)
(* lock, and signals.  Whoever gets the signal is the owner, even if it    *)
(* came later than the waiter that was counted.                            *)
(*                                                                         *)
(* The growth of the owner table is abstracted: a function that has to     *)
(* expand it drops the spin lock and starts over.  So is the allocation of *)
(* the event and the semaphore.                                            *)
(*                                                                         *)
(* Operators whose name ends in _<Fault> are faulty variants of the one    *)
(* that follows them; no specification uses them.                          *)
(***************************************************************************)
EXTENDS Integers, FiniteSets

CONSTANTS
  Thread,
  Pointer,       (* owner addresses for ExSetResourceOwnerPointer          *)
  Nobody,        (* an OwnerThread of zero                                 *)
  Granted,       (* the OwnerThread 1, given to a waiter not yet known     *)
  MaxCalls,      (* bound: acquires of each thread                         *)
  MaxHeld        (* bound: depth of recursion                              *)

ASSUME ResourceAssumption ==
  /\ IsFiniteSet(Thread) /\ IsFiniteSet(Pointer) /\ Thread \intersect Pointer = {}
  /\ {Nobody, Granted} \intersect (Thread \union Pointer) = {} /\ Nobody # Granted
  /\ MaxCalls \in [Thread -> Nat] /\ MaxHeld \in Nat

Owner == Thread \union Pointer

VARIABLES
  activeCount,   (* ActiveCount                                            *)
  ownedExclusive,   (* ResourceOwnedExclusive of Flag                      *)
  first,         (* OwnerThreads[0]: owner and OwnerCount                  *)
  table,         (* OwnerCount in the other entries, 0 without an entry    *)
  sharedWaiters, exclusiveWaiters,   (* NumberOf...Waiters                 *)
  semaphore,     (* count of the semaphore                                 *)
  event,         (* signal state of the event                              *)
  pc,            (* where each thread is                                   *)
  number,        (* Number, of a thread about to release the semaphore     *)
  registered,    (* the waiting thread has put its entry in the table      *)
  held,          (* how often each owner holds the resource                *)
  heldExclusive, (* the owners that acquired it exclusive                  *)
  calls          (* acquires of each thread so far                         *)

lockVars   == <<activeCount, ownedExclusive, first, table, sharedWaiters, exclusiveWaiters>>
signalVars == <<semaphore, event>>
vars == <<lockVars, signalVars, pc, number, registered, held, heldExclusive, calls>>

Entry(o, n) == [owner |-> o, count |-> n]
Goto(t, where) == pc' = [pc EXCEPT ![t] = where]
Hold(o, n) == held' = [held EXCEPT ![o] = @ + n]
Call(t) ==
  /\ pc[t] = "Idle" /\ calls[t] < MaxCalls[t] /\ held[t] < MaxHeld
  /\ calls' = [calls EXCEPT ![t] = @ + 1]

Init ==
  /\ activeCount = 0 /\ ownedExclusive = FALSE
  /\ first = Entry(Nobody, 0)
  /\ table = [o \in Owner |-> 0]
  /\ sharedWaiters = 0 /\ exclusiveWaiters = 0
  /\ semaphore = 0 /\ event = FALSE
  /\ pc = [t \in Thread |-> "Idle"]
  /\ number = [t \in Thread |-> 0]
  /\ registered = [t \in Thread |-> FALSE]
  /\ held = [o \in Owner |-> 0] /\ heldExclusive = {}
  /\ calls = [t \in Thread |-> 0]
-----------------------------------------------------------------------------
(***************************************************************************)
(* ExAcquireResourceExclusiveLite and ExTryToAcquireResourceExclusiveLite. *)
(***************************************************************************)
OwnsExclusive(t) == ownedExclusive /\ first.owner = t

(* Recursion, also of the functions that acquire shared. *)
AgainExclusive(t) ==
  /\ Call(t) /\ activeCount # 0 /\ OwnsExclusive(t)
  /\ first' = [first EXCEPT !.count = @ + 1]
  /\ Hold(t, 1)
  /\ UNCHANGED <<activeCount, ownedExclusive, table, sharedWaiters, exclusiveWaiters,
                 signalVars, pc, number, registered, heldExclusive>>

TakeExclusive(t) ==
  /\ Call(t) /\ activeCount = 0
  /\ ownedExclusive' = TRUE /\ activeCount' = 1
  /\ first' = Entry(t, 1)
  /\ Hold(t, 1) /\ heldExclusive' = heldExclusive \union {t}
  /\ UNCHANGED <<table, sharedWaiters, exclusiveWaiters, signalVars, pc, number, registered>>

(* A thread that already shares the resource would wait for itself.        *)
QueueExclusive(t) ==
  /\ Call(t) /\ activeCount # 0 /\ ~OwnsExclusive(t)
  /\ held[t] = 0
  /\ exclusiveWaiters' = exclusiveWaiters + 1
  /\ Goto(t, "WaitExclusive")
  /\ UNCHANGED <<activeCount, ownedExclusive, first, table, sharedWaiters, signalVars,
                 number, registered, held, heldExclusive>>

(* The event was set while the thread did not wait, or between two of its  *)
(* waits, which time out.                                                  *)
TakeEvent(t) ==
  /\ pc[t] = "WaitExclusive" /\ event
  /\ event' = FALSE
  /\ Goto(t, "Awake")
  /\ UNCHANGED <<lockVars, semaphore, number, registered, held, calls, heldExclusive>>

(* The new owner puts its name in the entry, without the spin lock.        *)
NameOwner(t) ==
  /\ pc[t] = "Awake"
  /\ first' = [first EXCEPT !.owner = t]
  /\ Hold(t, 1) /\ heldExclusive' = heldExclusive \union {t}
  /\ Goto(t, "Idle")
  /\ UNCHANGED <<activeCount, ownedExclusive, table, sharedWaiters, exclusiveWaiters,
                 signalVars, number, registered, calls>>
-----------------------------------------------------------------------------
(***************************************************************************)
(* ExAcquireResourceSharedLite ("Shared"), ExAcquireSharedStarveExclusive  *)
(* ("Starve") and ExAcquireSharedWaitForExclusive ("WaitFor").             *)
(***************************************************************************)
Kind == {"Shared", "Starve", "WaitFor"}
HasEntry(t) == table[t] > 0 \/ first.owner = t

TakeFree(t) ==
  /\ Call(t) /\ activeCount = 0
  /\ table' = [table EXCEPT ![t] = 1]
  /\ activeCount' = 1
  /\ Hold(t, 1)
  /\ UNCHANGED <<ownedExclusive, first, sharedWaiters, exclusiveWaiters, signalVars,
                 pc, number, registered, heldExclusive>>

AgainShared(t, kind) ==
  /\ Call(t) /\ activeCount # 0 /\ ~ownedExclusive
  /\ kind = "WaitFor" => exclusiveWaiters = 0
  /\ HasEntry(t)
  /\ IF first.owner = t
     THEN first' = [first EXCEPT !.count = @ + 1] /\ UNCHANGED table
     ELSE table' = [table EXCEPT ![t] = @ + 1] /\ UNCHANGED first
  /\ Hold(t, 1)
  /\ UNCHANGED <<activeCount, ownedExclusive, sharedWaiters, exclusiveWaiters,
                 signalVars, pc, number, registered, heldExclusive>>

JoinOwners(t, kind) ==
  /\ Call(t) /\ activeCount # 0 /\ ~ownedExclusive /\ ~HasEntry(t)
  /\ kind # "Starve" => exclusiveWaiters = 0
  /\ table' = [table EXCEPT ![t] = 1]
  /\ activeCount' = activeCount + 1
  /\ Hold(t, 1)
  /\ UNCHANGED <<ownedExclusive, first, sharedWaiters, exclusiveWaiters, signalVars,
                 pc, number, registered, heldExclusive>>

(* The entry goes into the table before the wait, but not when the         *)
(* resource is shared and exclusive waiters have to be waited for.         *)
MustWait(t, kind) ==
  \/ ownedExclusive /\ first.owner # t
  \/ /\ ~ownedExclusive /\ exclusiveWaiters > 0
     /\ (kind = "WaitFor" \/ (kind = "Shared" /\ ~HasEntry(t)))

QueueShared(t, kind) ==
  /\ Call(t) /\ activeCount # 0
  /\ MustWait(t, kind)
  /\ held[t] = 0
  /\ LET atOnce == ownedExclusive \/ kind = "Shared"
     IN  /\ table' = [table EXCEPT ![t] = IF atOnce THEN 1 ELSE @]
         /\ registered' = [registered EXCEPT ![t] = atOnce]
  /\ sharedWaiters' = sharedWaiters + 1
  /\ Goto(t, "WaitShared")
  /\ UNCHANGED <<activeCount, ownedExclusive, first, exclusiveWaiters, signalVars,
                 number, held, heldExclusive>>

(* With Wait = FALSE, and the functions that only try. *)
Refuse(t) ==
  /\ Call(t) /\ activeCount # 0 /\ ~OwnsExclusive(t)
  /\ UNCHANGED <<lockVars, signalVars, pc, number, registered, held, heldExclusive>>

TakeSemaphore(t) ==
  /\ pc[t] = "WaitShared" /\ semaphore > 0
  /\ semaphore' = semaphore - 1
  /\ IF registered[t]
     THEN Goto(t, "Idle") /\ Hold(t, 1)
     ELSE Goto(t, "Register") /\ UNCHANGED held
  /\ UNCHANGED <<lockVars, event, number, registered, calls, heldExclusive>>

Register(t) ==
  /\ pc[t] = "Register"
  /\ table' = [table EXCEPT ![t] = 1]
  /\ Goto(t, "Idle") /\ Hold(t, 1)
  /\ UNCHANGED <<activeCount, ownedExclusive, first, sharedWaiters, exclusiveWaiters,
                 signalVars, number, registered, calls, heldExclusive>>
-----------------------------------------------------------------------------
(***************************************************************************)
(* ExReleaseResourceForThreadLite(o), called by t; ExReleaseResourceLite   *)
(* is the same for o = t.                                                  *)
(***************************************************************************)
GiveToShared_WakesOne(t) ==
  /\ ownedExclusive' = FALSE
  /\ activeCount' = sharedWaiters
  /\ sharedWaiters' = 0
  /\ number' = [number EXCEPT ![t] = 1]
  /\ Goto(t, "ReleaseSemaphore")
  /\ UNCHANGED exclusiveWaiters
GiveToShared(t) ==
  /\ ownedExclusive' = FALSE
  /\ activeCount' = sharedWaiters
  /\ sharedWaiters' = 0
  /\ number' = [number EXCEPT ![t] = sharedWaiters]
  /\ Goto(t, "ReleaseSemaphore")
  /\ UNCHANGED exclusiveWaiters

GiveToExclusive(t) ==
  /\ ownedExclusive' = TRUE
  /\ activeCount' = 1
  /\ exclusiveWaiters' = exclusiveWaiters - 1
  /\ Goto(t, "SetEvent")
  /\ UNCHANGED <<sharedWaiters, number>>

GiveToNobody ==
  /\ ownedExclusive' = FALSE
  /\ activeCount' = 0
  /\ UNCHANGED <<sharedWaiters, exclusiveWaiters, pc, number>>

Releases(t, o) ==
  /\ pc[t] = "Idle" /\ held[o] > 0
  /\ o \in Thread => o = t
  /\ Hold(o, -1)

ReleaseAgain(t, o) ==
  /\ Releases(t, o)
  /\ IF first.owner = o
     THEN /\ first.count > 1
          /\ first' = [first EXCEPT !.count = @ - 1] /\ UNCHANGED table
     ELSE /\ table[o] > 1
          /\ table' = [table EXCEPT ![o] = @ - 1] /\ UNCHANGED first
  /\ UNCHANGED <<activeCount, ownedExclusive, sharedWaiters, exclusiveWaiters,
                 signalVars, pc, number, registered, calls, heldExclusive>>

ReleaseExclusive(t, o) ==
  /\ Releases(t, o)
  /\ ownedExclusive /\ first.owner = o /\ first.count = 1
  /\ IF sharedWaiters > 0
     THEN GiveToShared(t) /\ first' = Entry(Nobody, 0)
     ELSE IF exclusiveWaiters > 0
     THEN GiveToExclusive(t) /\ first' = Entry(Granted, 1)
     ELSE GiveToNobody /\ first' = Entry(Nobody, 0)
  /\ heldExclusive' = heldExclusive \ {o}
  /\ UNCHANGED <<table, signalVars, registered, calls>>

GiveAfterShared_WakesNobody(t, newFirst) ==
  IF activeCount > 1
  THEN /\ activeCount' = activeCount - 1 /\ first' = newFirst
       /\ UNCHANGED <<ownedExclusive, sharedWaiters, exclusiveWaiters, pc, number>>
  ELSE GiveToNobody /\ first' = newFirst
(* Shared waiters only wait behind exclusive ones here. *)
GiveAfterShared(t, newFirst) ==
  IF activeCount > 1
  THEN /\ activeCount' = activeCount - 1 /\ first' = newFirst
       /\ UNCHANGED <<ownedExclusive, sharedWaiters, exclusiveWaiters, pc, number>>
  ELSE IF exclusiveWaiters > 0
  THEN GiveToExclusive(t) /\ first' = Entry(Granted, 1)
  ELSE GiveToNobody /\ first' = newFirst

ReleaseShared(t, o) ==
  /\ Releases(t, o) /\ ~ownedExclusive
  /\ \/ /\ table[o] = 1
        /\ table' = [table EXCEPT ![o] = 0]
        /\ GiveAfterShared(t, first)
     \/ /\ table[o] = 0 /\ first = Entry(o, 1)
        /\ GiveAfterShared(t, Entry(Nobody, 0))
        /\ UNCHANGED table
  /\ UNCHANGED <<signalVars, registered, calls, heldExclusive>>

ReleaseSemaphore(t) ==
  /\ pc[t] = "ReleaseSemaphore"
  /\ semaphore' = semaphore + number[t]
  /\ number' = [number EXCEPT ![t] = 0]
  /\ Goto(t, "Idle")
  /\ UNCHANGED <<lockVars, event, registered, held, calls, heldExclusive>>

(* KeSetEventBoostPriority names the new owner if a thread is waiting.     *)
SetEvent(t) ==
  /\ pc[t] = "SetEvent"
  /\ \/ event' = TRUE /\ Goto(t, "Idle") /\ UNCHANGED first
     \/ \E u \in Thread :
          /\ pc[u] = "WaitExclusive"
          /\ first' = [first EXCEPT !.owner = u]
          /\ pc' = [pc EXCEPT ![t] = "Idle", ![u] = "Awake"]
          /\ UNCHANGED event
  /\ UNCHANGED <<activeCount, ownedExclusive, table, sharedWaiters, exclusiveWaiters,
                 semaphore, number, registered, held, heldExclusive, calls>>
-----------------------------------------------------------------------------
Convert_CountsOne(t) ==
  /\ pc[t] = "Idle" /\ held[t] > 0 /\ OwnsExclusive(t)
  /\ ownedExclusive' = FALSE
  /\ sharedWaiters' = 0
  /\ heldExclusive' = heldExclusive \ {t}
  /\ IF sharedWaiters > 0
     THEN number' = [number EXCEPT ![t] = sharedWaiters] /\ Goto(t, "ReleaseSemaphore")
     ELSE UNCHANGED <<number, pc>>
  /\ UNCHANGED <<activeCount, first, table, exclusiveWaiters, signalVars, registered, held, calls>>
(* ExConvertExclusiveToSharedLite: first stays the entry of the owner.     *)
Convert(t) ==
  /\ pc[t] = "Idle" /\ held[t] > 0 /\ OwnsExclusive(t)
  /\ ownedExclusive' = FALSE
  /\ activeCount' = activeCount + sharedWaiters
  /\ sharedWaiters' = 0
  /\ heldExclusive' = heldExclusive \ {t}
  /\ IF sharedWaiters > 0
     THEN number' = [number EXCEPT ![t] = sharedWaiters] /\ Goto(t, "ReleaseSemaphore")
     ELSE UNCHANGED <<number, pc>>
  /\ UNCHANGED <<first, table, exclusiveWaiters, signalVars, registered, held, calls>>

(* ExSetResourceOwnerPointer: the entry of the thread becomes one of p, or *)
(* is added to the one that p has.  The thread must not use the resource   *)
(* after that except for p.                                                *)
SetOwnerPointer(t, p) ==
  /\ pc[t] = "Idle" /\ held[t] > 0
  /\ held' = [held EXCEPT ![t] = 0, ![p] = @ + held[t]]
  /\ heldExclusive' = IF t \in heldExclusive THEN {p} ELSE heldExclusive
  /\ IF first.owner = t /\ (ownedExclusive \/ table[p] = 0)
     THEN first' = [first EXCEPT !.owner = p] /\ UNCHANGED <<table, activeCount>>
     ELSE IF first.owner = t
     THEN /\ table' = [table EXCEPT ![p] = @ + first.count]
          /\ first' = Entry(Nobody, 0) /\ activeCount' = activeCount - 1
     ELSE IF first.owner = p
     THEN /\ first' = [first EXCEPT !.count = @ + table[t]]
          /\ table' = [table EXCEPT ![t] = 0] /\ activeCount' = activeCount - 1
     ELSE /\ table' = [table EXCEPT ![t] = 0, ![p] = @ + table[t]]
          /\ activeCount' = IF table[p] > 0 THEN activeCount - 1 ELSE activeCount
          /\ UNCHANGED first
  /\ UNCHANGED <<ownedExclusive, sharedWaiters, exclusiveWaiters, signalVars, pc,
                 number, registered, calls>>
-----------------------------------------------------------------------------
Acquire(t) ==
  \/ AgainExclusive(t) \/ TakeExclusive(t) \/ QueueExclusive(t)
  \/ TakeFree(t) \/ Refuse(t)
  \/ \E kind \in Kind : AgainShared(t, kind) \/ JoinOwners(t, kind) \/ QueueShared(t, kind)
Waiting(t) == TakeEvent(t) \/ NameOwner(t) \/ TakeSemaphore(t) \/ Register(t)
Signal(t) == ReleaseSemaphore(t) \/ SetEvent(t)
Release(t, o) == ReleaseAgain(t, o) \/ ReleaseExclusive(t, o) \/ ReleaseShared(t, o)

Next ==
  \/ \E t \in Thread :
       \/ Acquire(t) \/ Waiting(t) \/ Signal(t) \/ Convert(t)
       \/ \E o \in Owner : Release(t, o)
       \/ \E p \in Pointer : SetOwnerPointer(t, p)

Spec == Init /\ [][Next]_vars

(* Threads run, and whoever holds the resource releases it in the end.     *)
FairSpec ==
  /\ Spec
  /\ \A t \in Thread : WF_vars(Waiting(t)) /\ WF_vars(Signal(t))
  /\ \A o \in Owner : WF_vars(\E t \in Thread : Release(t, o))
-----------------------------------------------------------------------------
TypeOK ==
  /\ activeCount \in Nat /\ ownedExclusive \in BOOLEAN
  /\ first \in [owner : Owner \union {Nobody, Granted}, count : Nat]
  /\ table \in [Owner -> Nat]
  /\ sharedWaiters \in Nat /\ exclusiveWaiters \in Nat
  /\ semaphore \in Nat /\ event \in BOOLEAN
  /\ pc \in [Thread -> {"Idle", "WaitExclusive", "Awake", "WaitShared", "Register",
                        "ReleaseSemaphore", "SetEvent"}]
  /\ number \in [Thread -> Nat]
  /\ registered \in [Thread -> BOOLEAN]
  /\ held \in [Owner -> Nat] /\ heldExclusive \in SUBSET Owner
  /\ calls \in [Thread -> Nat]

Holders == {o \in Owner : held[o] > 0}
At(where) == {t \in Thread : pc[t] = where}

(* Whoever acquired the resource exclusive is its only owner until it      *)
(* releases or converts.                                                   *)
MutualExclusion ==
  \A o \in heldExclusive : Holders = {o} /\ ownedExclusive

(* One thread at most is about to add n to the semaphore. *)
Owes(n) ==
  \/ n = 0 /\ \A t \in Thread : number[t] = 0
  \/ n > 0 /\ \E t \in Thread : number = [u \in Thread |-> IF u = t THEN n ELSE 0]

(* ActiveCount is the number of owners, those included to whom a release   *)
(* gave the resource and who do not know it yet; an exclusive owner is the *)
(* only one.                                                               *)
ActiveCountIsOwners ==
  /\ \E n \in 0..activeCount :
       /\ Owes(n)
       /\ activeCount = Cardinality(Holders) + semaphore + n + Cardinality(At("Register"))
            + (IF event THEN 1 ELSE 0) + Cardinality(At("SetEvent")) + Cardinality(At("Awake"))
  /\ ownedExclusive => activeCount = 1

(* Each owner has one entry with its count: a release finds it.            *)
OwnersRecorded ==
  \A o \in Holders :
    \/ first = Entry(o, held[o]) /\ table[o] = 0
    \/ table[o] = held[o] /\ first.owner # o /\ ~ownedExclusive

(* Count, owner entries and threads agree on who owns the resource, and an *)
(* exclusive owner is alone.                                               *)
OwnersConsistent == TypeOK /\ MutualExclusion /\ ActiveCountIsOwners /\ OwnersRecorded

(* While nobody owns the resource nobody waits for it; shared waiters wait *)
(* behind an exclusive owner or exclusive waiters.                         *)
WaitersHaveACause ==
  /\ activeCount = 0 => exclusiveWaiters = 0 /\ \A o \in Owner : table[o] = 0
  /\ sharedWaiters > 0 => ownedExclusive \/ exclusiveWaiters > 0

(* Every wait for the resource ends, whoever takes the signal first.       *)
WaitsEnd ==
  \A t \in Thread : pc[t] \in {"WaitExclusive", "WaitShared"} ~> held[t] > 0
=============================================================================
