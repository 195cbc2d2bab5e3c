--------------------------- MODULE HandleFreeList ---------------------------
(***************************************************************************)
(* Allocating and freeing the entries of one handle table                  *)
(* (base/ntos/ex/handle.c).  Free entries are chained by index; threads    *)
(* pop them from FirstFree with a compare-exchange and no lock around the  *)
(* list.  What keeps a popping thread from installing a stale successor    *)
(* (the A-B-A problem) is that it holds the hash lock of the entry shared, *)
(* while a thread that frees an entry whose hash lock is held puts it on   *)
(* the alternate list LastFree.  The thread that finds FirstFree empty     *)
(* holds HandleTableLock[0] exclusive, moves the alternate list over once  *)
(* the holders of the other locks are gone, or else adds a page of entries. *)
(*                                                                         *)
(* Push locks are abstracted to who holds them (see PushLock).  One action *)
(* is one interlocked operation, one read of shared memory or one lock     *)
(* operation; a loop that pushes is the action of the compare-exchange     *)
(* that succeeds, because what it installs depends on the list head only.  *)
(*                                                                         *)
(* Operators whose name ends in _<Fault> are faulty variants of the one    *)
(* that follows them; no specification uses them.                          *)
(***************************************************************************)
EXTENDS HandleTable, FiniteSets

CONSTANTS
  NoThread,      (* no holder                                              *)
  Locks,         (* HANDLE_TABLE_LOCKS                                     *)
  PageEntries,   (* LOWLEVEL_COUNT: entries in a page of the table         *)
  MaxPages,      (* the table can grow to this many pages (MAX_HANDLES)    *)
  EnoughFree     (* free entries that make growing unnecessary when        *)
                 (* strictFIFO (100 in the code)                           *)

ASSUME HandleTableAssumption ==
  /\ NoThread \notin Thread
  /\ Locks \in Nat \ {0}
  /\ PageEntries \in Nat /\ PageEntries > 1
  /\ MaxPages \in Nat \ {0}
  /\ EnoughFree \in Nat

VARIABLES
  firstFree,     (* head of the free list, 0 when empty                    *)
  lastFree,      (* head of the alternate free list, 0 when empty          *)
  nextFree,      (* NextFreeTableEntry of each entry                       *)
  pages,         (* NextHandleNeedingPool, in pages                        *)
  strictFIFO,    (* the table's StrictFIFO flag                            *)
  sharers,       (* threads that hold HandleTableLock[i] shared            *)
  expander,      (* the thread that holds HandleTableLock[0] exclusive     *)
  inUse,         (* entries that hold an object                            *)
  old, new,      (* OldValue and NewValue of each thread                   *)
  moving,        (* OldValue of ExpMoveFreeHandles, 0 outside              *)
  drained        (* locks it has seen free                                 *)

listVars   == <<firstFree, lastFree, nextFree, pages, strictFIFO>>
lockVars   == <<sharers, expander>>
moveVars   == <<moving, drained>>
vars       == <<listVars, lockVars, inUse, pc, old, new, moveVars>>

LockIndex == 0..(Locks - 1)

(* The first entry of each page is reserved. *)
Entry == {h \in 1..(MaxPages * PageEntries - 1) : h % PageEntries # 0}
Page(p) == {h \in Entry : h \div PageEntries = p}
Idx(h) == h % Locks

(* NextFreeTableEntry shares its storage with the access mask of an entry  *)
(* in use.                                                                 *)
GrantedAccess == -1

(* The locals of the call are gone with it. *)
Return(t) ==
  /\ Goto(t, "Idle")
  /\ old' = [old EXCEPT ![t] = 0]

(* The entries of page p chained in order, the last one to tail. *)
Chained(next, p, tail) ==
  [h \in Entry |-> IF h \notin Page(p) THEN next[h]
                   ELSE IF h + 1 \in Page(p) THEN h + 1 ELSE tail]
-----------------------------------------------------------------------------
(***************************************************************************)
(* ExpAllocateHandleTableEntry: popping an entry.                          *)
(***************************************************************************)
BeginAllocate(t) ==
  /\ pc[t] = "Idle"
  /\ old' = [old EXCEPT ![t] = firstFree]
  /\ Goto(t, IF firstFree = 0 THEN "LockTable" ELSE "LockEntry")
  /\ UNCHANGED <<listVars, lockVars, inUse, new, moveVars>>

LockShared(t) ==
  LET i == Idx(old[t])
  IN  /\ pc[t] = "LockEntry"
      /\ i = 0 => expander = NoThread
      /\ sharers' = [sharers EXCEPT ![i] = @ \union {t}]
      /\ Goto(t, "Recheck")
      /\ UNCHANGED <<listVars, expander, inUse, old, new, moveVars>>

Recheck(t) ==
  /\ pc[t] = "Recheck"
  /\ Goto(t, IF firstFree = old[t] THEN "ReadNext" ELSE "UnlockRetry")
  /\ UNCHANGED <<listVars, lockVars, inUse, old, new, moveVars>>

ReadNext(t) ==
  /\ pc[t] = "ReadNext"
  /\ new' = [new EXCEPT ![t] = nextFree[old[t]]]
  /\ Goto(t, "Pop")
  /\ UNCHANGED <<listVars, lockVars, inUse, old, moveVars>>

Pop(t) ==
  /\ pc[t] = "Pop"
  /\ IF firstFree = old[t]
     THEN firstFree' = new[t] /\ Goto(t, "UnlockCreate")
     ELSE UNCHANGED firstFree /\ Goto(t, "UnlockRetry")
  /\ UNCHANGED <<strictFIFO, lastFree, nextFree, pages, lockVars, inUse, old, new, moveVars>>

UnlockShared(t) ==
  /\ pc[t] \in {"UnlockRetry", "UnlockCreate"}
  /\ sharers' = [sharers EXCEPT ![Idx(old[t])] = @ \ {t}]
  /\ new' = [new EXCEPT ![t] = 0]
  /\ IF pc[t] = "UnlockCreate"
     THEN Goto(t, "Create") /\ UNCHANGED old
     ELSE Goto(t, "Allocate") /\ old' = [old EXCEPT ![t] = 0]
  /\ UNCHANGED <<listVars, expander, inUse, moveVars>>

(* The outer loop starts again. *)
Retry(t) ==
  /\ pc[t] = "Allocate"
  /\ old' = [old EXCEPT ![t] = firstFree]
  /\ Goto(t, IF firstFree = 0 THEN "LockTable" ELSE "LockEntry")
  /\ UNCHANGED <<listVars, lockVars, inUse, new, moveVars>>

(* ExCreateHandle copies the template over the popped entry. *)
ExCreateHandle(t) ==
  /\ pc[t] = "Create"
  /\ inUse' = inUse \union {old[t]}
  /\ nextFree' = [nextFree EXCEPT ![old[t]] = GrantedAccess]
  /\ Return(t)
  /\ UNCHANGED <<strictFIFO, firstFree, lastFree, pages, lockVars, new, moveVars>>
-----------------------------------------------------------------------------
(***************************************************************************)
(* ExpAllocateHandleTableEntry: refilling an empty list.                   *)
(***************************************************************************)
LockExclusive(t) ==
  /\ pc[t] = "LockTable"
  /\ expander = NoThread /\ sharers[0] = {}
  /\ expander' = t
  /\ Goto(t, "Look")
  /\ UNCHANGED <<listVars, sharers, inUse, old, new, moveVars>>

Look(t) ==
  /\ pc[t] = "Look"
  /\ old' = [old EXCEPT ![t] = firstFree]
  /\ Goto(t, IF firstFree = 0 THEN "TakeLast" ELSE "UnlockFound")
  /\ UNCHANGED <<listVars, lockVars, inUse, new, moveVars>>

(* ExpMoveFreeHandles takes the whole alternate list. *)
TakeLast(t) ==
  /\ pc[t] = "TakeLast"
  /\ lastFree' = 0
  /\ moving' = lastFree
  /\ drained' = {0}
  /\ Goto(t, IF lastFree = 0 THEN "Grow" ELSE "Drain")
  /\ UNCHANGED <<strictFIFO, firstFree, nextFree, pages, lockVars, inUse, old, new>>

(* It waits until it has seen every other lock free; its caller holds lock *)
(* 0.                                                                      *)
Drain(t) ==
  LET i == Cardinality(drained)
  IN  /\ pc[t] = "Drain"
      /\ i < Locks /\ sharers[i] = {}
      /\ drained' = drained \union {i}
      /\ UNCHANGED <<listVars, lockVars, inUse, pc, old, new, moving>>

(* Entries of the chain that starts at head, in order of the chain. *)
At(head) ==
  LET at[n \in Nat] == IF n = 0 THEN head
                       ELSE IF at[n-1] \in Entry THEN nextFree[at[n-1]] ELSE 0
  IN  at
ChainOf(head) == {At(head)[n] : n \in 0..Cardinality(Entry)} \ {0}
LastOf(head) == CHOOSE h \in ChainOf(head) : nextFree[h] = 0

(* The chain from head with its links turned round, ending in tail. *)
Reversed(head, tail) ==
  [h \in Entry |-> IF h = head THEN tail
                   ELSE IF h \in ChainOf(head)
                   THEN CHOOSE g \in ChainOf(head) : nextFree[g] = h
                   ELSE nextFree[h]]

Moved(t) ==
  /\ moving' = 0
  /\ drained' = {}
  /\ IF pc[t] = "ReverseAll" /\ Cardinality(ChainOf(moving)) < EnoughFree
     THEN Goto(t, "Grow") /\ UNCHANGED old
     ELSE Goto(t, "UnlockFound") /\ old' = [old EXCEPT ![t] = moving]

(* The table may become strict while it is in use; what counts is what the *)
(* expander reads once the other locks are free.                           *)
ReadStrictFIFO_Undrained(t) ==
  /\ pc[t] = "Drain"
  /\ Goto(t, IF strictFIFO THEN "ReverseAll" ELSE "Move")
  /\ UNCHANGED <<listVars, lockVars, inUse, old, new, moveVars>>
ReadStrictFIFO(t) ==
  /\ pc[t] = "Drain" /\ drained = LockIndex
  /\ Goto(t, IF strictFIFO THEN "ReverseAll" ELSE "Move")
  /\ UNCHANGED <<listVars, lockVars, inUse, old, new, moveVars>>

(* The chain becomes the free list if that still is empty. *)
MoveWhole(t) ==
  /\ pc[t] = "Move"
  /\ IF firstFree = 0
     THEN firstFree' = moving /\ Moved(t)
     ELSE Goto(t, "Reverse") /\ UNCHANGED <<firstFree, old, moveVars>>
  /\ UNCHANGED <<lastFree, nextFree, pages, strictFIFO, lockVars, inUse, new>>

(* Otherwise, and always when the order matters, it is reversed and put in *)
(* front of the free list.                                                 *)
MoveReversed(t) ==
  /\ pc[t] \in {"Reverse", "ReverseAll"}
  /\ firstFree' = LastOf(moving)
  /\ nextFree' = Reversed(moving, firstFree)
  /\ Moved(t)
  /\ UNCHANGED <<lastFree, pages, strictFIFO, lockVars, inUse, new>>

(* ExpAllocateHandleTableEntrySlow adds a page in front of the free list,  *)
(* or fails for want of memory or of indices.                              *)
Grow(t) ==
  /\ pc[t] = "Grow"
  /\ \/ /\ pages < MaxPages
        /\ pages' = pages + 1
        /\ firstFree' = pages * PageEntries + 1
        /\ nextFree' = Chained(nextFree, pages, firstFree)
        /\ Goto(t, "UnlockGrown")
     \/ Goto(t, "UnlockFailed") /\ UNCHANGED <<firstFree, nextFree, pages>>
  /\ drained' = {}
  /\ UNCHANGED <<strictFIFO, lastFree, lockVars, inUse, old, new, moving>>

UnlockExclusive_NotWhenFound(t) ==
  /\ pc[t] \in {"UnlockFound", "UnlockGrown", "UnlockFailed"}
  /\ expander' = IF pc[t] = "UnlockFound" THEN expander ELSE NoThread
  /\ Goto(t, CASE pc[t] = "UnlockFound"  -> "LockEntry"
               [] pc[t] = "UnlockGrown"  -> "Grown"
               [] pc[t] = "UnlockFailed" -> "Failed")
  /\ UNCHANGED <<listVars, sharers, inUse, old, new, moveVars>>

UnlockExclusive(t) ==
  /\ pc[t] \in {"UnlockFound", "UnlockGrown", "UnlockFailed"}
  /\ expander' = NoThread
  /\ Goto(t, CASE pc[t] = "UnlockFound"  -> "LockEntry"
               [] pc[t] = "UnlockGrown"  -> "Grown"
               [] pc[t] = "UnlockFailed" -> "Failed")
  /\ UNCHANGED <<listVars, sharers, inUse, old, new, moveVars>>

(* The list is read again; an allocation fails if it is empty and could    *)
(* not be refilled.                                                        *)
ReadAgain(t) ==
  /\ pc[t] \in {"Grown", "Failed"}
  /\ old' = [old EXCEPT ![t] = firstFree]
  /\ Goto(t, IF firstFree # 0 THEN "LockEntry"
             ELSE IF pc[t] = "Failed" THEN "Idle" ELSE "LockTable")
  /\ UNCHANGED <<listVars, lockVars, inUse, new, moveVars>>
-----------------------------------------------------------------------------
(***************************************************************************)
(* ExDestroyHandle and ExpFreeHandleTableEntry.                            *)
(***************************************************************************)
BeginFree_AlwaysFirst(t, h) ==
  /\ pc[t] = "Idle"
  /\ h \in inUse
  /\ inUse' = inUse \ {h}
  /\ old' = [old EXCEPT ![t] = h]
  /\ Goto(t, IF ~strictFIFO THEN "FreeFirst" ELSE "FreeLast")
  /\ UNCHANGED <<listVars, lockVars, new, moveVars>>

(* The entry's object is gone, and its hash lock says which list gets it:  *)
(* locked by a popping thread, by the expander or, for a moment, by the    *)
(* expander that drains it.                                                *)
BeginFree(t, h) ==
  LET locked   == sharers[Idx(h)] # {} \/ (Idx(h) = 0 /\ expander # NoThread)
      draining == Idx(h) # 0 /\ Idx(h) = Cardinality(drained)
  IN  /\ pc[t] = "Idle"
      /\ h \in inUse
      /\ inUse' = inUse \ {h}
      /\ old' = [old EXCEPT ![t] = h]
      /\ \/ ~strictFIFO /\ ~locked /\ Goto(t, "FreeFirst")
         \/ (strictFIFO \/ locked \/ draining) /\ Goto(t, "FreeLast")
      /\ UNCHANGED <<listVars, lockVars, new, moveVars>>

Push(t) ==
  /\ pc[t] \in {"FreeFirst", "FreeLast"}
  /\ IF pc[t] = "FreeFirst"
     THEN /\ nextFree' = [nextFree EXCEPT ![old[t]] = firstFree]
          /\ firstFree' = old[t]
          /\ UNCHANGED lastFree
     ELSE /\ nextFree' = [nextFree EXCEPT ![old[t]] = lastFree]
          /\ lastFree' = old[t]
          /\ UNCHANGED firstFree
  /\ Return(t)
  /\ UNCHANGED <<strictFIFO, pages, lockVars, inUse, new, moveVars>>
-----------------------------------------------------------------------------
(* ExpAllocateHandleTable chains the first page. *)
Init ==
  /\ firstFree = 1 /\ lastFree = 0
  /\ nextFree = Chained([h \in Entry |-> 0], 0, 0)
  /\ pages = 1
  /\ sharers = [i \in LockIndex |-> {}] /\ expander = NoThread
  /\ inUse = {}
  /\ pc = [t \in Thread |-> "Idle"]
  /\ old = [t \in Thread |-> 0] /\ new = [t \in Thread |-> 0]
  /\ moving = 0 /\ drained = {}
  /\ strictFIFO = FALSE

Allocating(t) ==
  \/ LockShared(t) \/ Recheck(t) \/ ReadNext(t) \/ Pop(t) \/ UnlockShared(t)
  \/ Retry(t) \/ ExCreateHandle(t)
  \/ LockExclusive(t) \/ Look(t) \/ TakeLast(t) \/ Drain(t) \/ ReadStrictFIFO(t)
  \/ MoveWhole(t) \/ MoveReversed(t)
  \/ Grow(t) \/ UnlockExclusive(t) \/ ReadAgain(t)

(* ExSetHandleTableStrictFIFO and ExEnableHandleTracing: the latter comes  *)
(* while the table is in use.                                              *)
SetStrictFIFO ==
  /\ ~strictFIFO
  /\ strictFIFO' = TRUE
  /\ UNCHANGED <<firstFree, lastFree, nextFree, pages, lockVars, inUse, pc, old, new, moveVars>>

Next ==
  \/ \E t \in Thread :
       \/ BeginAllocate(t) \/ Allocating(t)
       \/ \E h \in Entry : BeginFree(t, h)
       \/ Push(t)
  \/ SetStrictFIFO

Spec == Init /\ [][Next]_vars

(* Threads run. *)
FairSpec == Spec /\ \A t \in Thread : WF_vars(Allocating(t) \/ Push(t))
-----------------------------------------------------------------------------
TypeOK ==
  /\ {firstFree, lastFree, moving} \subseteq Entry \union {0}
  /\ nextFree \in [Entry -> Entry \union {0, GrantedAccess}]
  /\ pages \in 1..MaxPages /\ strictFIFO \in BOOLEAN
  /\ sharers \in [LockIndex -> SUBSET Thread]
  /\ expander \in Thread \union {NoThread}
  /\ inUse \subseteq Entry
  /\ pc \in [Thread -> {"Idle", "LockEntry", "Recheck", "ReadNext", "Pop", "UnlockRetry",
                        "UnlockCreate", "Allocate", "Create", "LockTable", "Look", "TakeLast",
                        "Drain", "Move", "Reverse", "ReverseAll", "Grow", "UnlockFound", "UnlockGrown", "UnlockFailed",
                        "Grown", "Failed", "FreeFirst", "FreeLast"}]
  /\ old \in [Thread -> Entry \union {0}]
  /\ new \in [Thread -> Entry \union {0, GrantedAccess}]
  /\ drained \subseteq LockIndex

(* The A-B-A problem is eliminated: if the list head is still the entry    *)
(* that a thread is about to pop, what it read as the entry's successor    *)
(* still is its successor, although others pop, free and move entries      *)
(* while it works.                                                         *)
NoABA ==
  \A t \in Thread :
    pc[t] = "Pop" /\ firstFree = old[t] => new[t] = nextFree[old[t]]

(* An entry that a thread has popped and not yet filled, or is freeing. *)
InHand(t) == IF pc[t] \in {"UnlockCreate", "Create", "FreeFirst", "FreeLast"}
             THEN {old[t]} ELSE {}

(* No handle is given out twice: the free lists are chains that end, and   *)
(* an entry is on one of them, or in the hand of one thread, or in use.    *)
NoHandleTwice ==
  LET first == ChainOf(firstFree)
      last  == ChainOf(lastFree)
      moved == ChainOf(moving)
  IN  /\ \A head \in {firstFree, lastFree, moving} : At(head)[Cardinality(Entry)] = 0
      /\ first \intersect last = {} /\ first \intersect moved = {} /\ last \intersect moved = {}
      /\ (first \union last \union moved) \intersect inUse = {}
      /\ \A t \in Thread :
           /\ InHand(t) \intersect (first \union last \union moved \union inUse) = {}
           /\ \A u \in Thread \ {t} : InHand(t) \intersect InHand(u) = {}

(* No entry is lost: every entry of every page is in one of these places.  *)
NoHandleLost ==
  UNION {Page(p) : p \in 0..(pages - 1)}
    = ChainOf(firstFree) \union ChainOf(lastFree) \union ChainOf(moving)
        \union inUse \union UNION {InHand(t) : t \in Thread}

(* Every entry is in exactly one place, whatever pops, frees, moves and    *)
(* switches of the policy overlap.                                         *)
EveryHandleOnce == TypeOK /\ NoHandleTwice /\ NoHandleLost

(* The list is lock free: threads that retry, wait for the hash locks or   *)
(* refill the list cannot all be kept from finishing; somebody does.       *)
SomebodyFinishes ==
  (\A t \in Thread : pc[t] # "Idle") ~> (\E t \in Thread : pc[t] = "Idle")
=============================================================================
