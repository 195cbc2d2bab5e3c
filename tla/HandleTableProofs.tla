------------------------- MODULE HandleTableProofs -------------------------
(***************************************************************************)
(* Entry locks: for any threads, any entries of the table and any number   *)
(* of calls, an entry is locked by one thread at a time, and the wait      *)
(* blocks that are on the shared chain, or popped and not yet woken,       *)
(* belong to threads that are still in the call that pushed them.          *)
(*                                                                         *)
(* Free lists: for any threads, any number of hash locks and any table, a  *)
(* thread that pops an entry installs the successor that the entry has,    *)
(* and every entry of the table is in one place.  The lists are described  *)
(* by the sets of entries that are chained from their heads.  What keeps   *)
(* the A-B-A problem away is Stable: an entry that a thread is about to    *)
(* pop does not come back to the free list while the thread holds the lock *)
(* of the entry.                                                           *)
(***************************************************************************)
EXTENDS HandleEntryLock, HandleFreeList, FiniteSetTheorems, SequenceTheorems,
        WellFoundedInduction, TLAPS

USE EntryLockAssumption

(* EntryExclusion, thread by thread. *)
Holds(t, e) == pc[t] = "Holding" /\ entry[t] = e
OneHolder ==
  \A e \in TableEntry :
    /\ \A t, u \in Thread : Holds(t, e) /\ Holds(u, e) => t = u
    /\ value[e] = Object <=> \E t \in Thread : Holds(t, e)

(* Blocking, of the values that it looks at. *)
InBlock(where, then) ==
  \/ where \in {"Recheck", "InitEvent", "Spin", "Wait"}
  \/ where \in {"Unblock", "Walk", "Wake"} /\ then = "Self"

(* A thread has an entry during a call and none outside. *)
CallsHaveEntries == \A t \in Thread : pc[t] # "Idle" => entry[t] \in TableEntry

Distinct(s) == \A i, j \in 1..Len(s) : s[i] = s[j] => i = j
Listed(u) == InSeq(u, chain) \/ \E t \in Thread : InSeq(u, walk[t])

(* A wait block is on the chain or in one walk, once. *)
ListsDisjoint ==
  /\ Distinct(chain)
  /\ \A t \in Thread :
       /\ Distinct(walk[t])
       /\ walk[t] # <<>> => pc[t] \in {"Walk", "Wake"}
       /\ \A u \in Thread : InSeq(u, walk[t]) => ~InSeq(u, chain)
       /\ \A v, u \in Thread : InSeq(u, walk[t]) /\ InSeq(u, walk[v]) => t = v

(* A block that is still listed has its Spinning flag, unless its owner    *)
(* reset the flag itself and waits; and its event has not been set.        *)
FlagsMatch ==
  /\ \A u \in Thread : Listed(u) =>
       /\ Blocking(u)
       /\ ~spinning[u] => pc[u] = "Wait"
       /\ pc[u] \in {"Spin", "Wait"} => ~wakeEvent[u]
  /\ \A t \in Thread : pc[t] = "Wake" => walk[t] # <<>> /\ ~spinning[Head(walk[t])]

InvEntryLock == TypeOKEntryLock /\ CallsHaveEntries /\ OneHolder /\ ListsDisjoint /\ FlagsMatch
-----------------------------------------------------------------------------
(* Pushing a block on a list that does not have it. *)
LEMMA Pushed ==
  ASSUME NEW s \in Seq(Thread), NEW t \in Thread
  PROVE  /\ <<t>> \o s \in Seq(Thread)
         /\ \A u \in Thread : InSeq(u, <<t>> \o s) <=> u = t \/ InSeq(u, s)
         /\ Distinct(s) /\ ~InSeq(t, s) => Distinct(<<t>> \o s)
<1> DEFINE r == <<t>> \o s
<1>1. r \in Seq(Thread) /\ Len(r) = Len(s) + 1
  BY ConcatProperties
<1>2. r[1] = t /\ \A i \in 2..Len(r) : r[i] = s[i - 1]
  BY <1>1, ConcatProperties
<1> HIDE DEF r
<1>3. ASSUME NEW u \in Thread PROVE InSeq(u, r) <=> u = t \/ InSeq(u, s)
  <2>1. InSeq(u, r) => u = t \/ InSeq(u, s)
    <3> SUFFICES ASSUME NEW i \in 1..Len(r), r[i] = u, u # t PROVE InSeq(u, s)
      BY DEF InSeq
    <3>1. i - 1 \in 1..Len(s) /\ s[i - 1] = u
      BY SMTT(30), <1>1, <1>2
    <3>2. QED BY <3>1 DEF InSeq
  <2>2. InSeq(t, r)
    BY <1>1, <1>2 DEF InSeq
  <2>3. ASSUME NEW i \in 1..Len(s), s[i] = u PROVE InSeq(u, r)
    <3>1. i + 1 \in 2..Len(r) /\ r[i + 1] = s[i]
      BY <1>1, <1>2
    <3>2. QED BY <2>3, <3>1 DEF InSeq
  <2>4. QED BY <2>1, <2>2, <2>3 DEF InSeq
<1>4. ASSUME Distinct(s), ~InSeq(t, s) PROVE Distinct(r)
  <2> SUFFICES ASSUME NEW i \in 1..Len(r), NEW j \in 1..Len(r), r[i] = r[j], i < j
               PROVE  FALSE
    BY <1>1 DEF Distinct
  <2>1. j - 1 \in 1..Len(s) /\ r[j] = s[j - 1]
    BY SMTT(30), <1>1, <1>2
  <2>2. CASE i = 1
    BY <1>2, <1>4, <2>1, <2>2 DEF InSeq
  <2>3. CASE i > 1
    <3>1. i \in 2..Len(r)
      BY <2>3
    <3>2. r[i] = s[i - 1]
      BY <1>2, <3>1
    <3>3. i - 1 \in 1..Len(s)
      BY <1>1, <3>1
    <3>4. QED BY SMTT(30), <1>4, <2>1, <3>2, <3>3 DEF Distinct
  <2>4. QED BY <1>1, <2>2, <2>3
<1>5. QED BY <1>1, <1>3, <1>4 DEF r

(* Taking the first block off a list. *)
LEMMA Popped ==
  ASSUME NEW s \in Seq(Thread), s # <<>>
  PROVE  /\ Head(s) \in Thread /\ Tail(s) \in Seq(Thread)
         /\ InSeq(Head(s), s)
         /\ \A u \in Thread : InSeq(u, Tail(s)) => InSeq(u, s)
         /\ Distinct(s) => /\ Distinct(Tail(s))
                           /\ ~InSeq(Head(s), Tail(s))
<1> DEFINE r == Tail(s)
<1>1. /\ Len(s) \in Nat /\ 1 \in 1..Len(s) /\ Head(s) = s[1] /\ s[1] \in Thread
      /\ r \in Seq(Thread) /\ Len(r) = Len(s) - 1
      /\ \A i \in 1..Len(r) : r[i] = s[i + 1]
  BY EmptySeq, HeadTailProperties
<1> HIDE DEF r
<1>2. \A i \in 1..Len(r) : i + 1 \in 1..Len(s)
  BY <1>1
<1>3. QED BY <1>1, <1>2 DEF r, InSeq, Distinct
-----------------------------------------------------------------------------

(* Steps that change no holder of an entry. *)
LEMMA SameHolders ==
  ASSUME InvEntryLock, UNCHANGED value,
         \A u \in Thread : /\ pc'[u] = "Holding" <=> pc[u] = "Holding"
                           /\ pc[u] = "Holding" => entry'[u] = entry[u]
  PROVE  OneHolder'
BY DEF InvEntryLock, OneHolder, Holds

(* Steps of a thread outside a walk that leave chain and walks alone. *)
LEMMA SameLists ==
  ASSUME InvEntryLock, NEW t \in Thread, UNCHANGED <<chain, walk>>,
         \A u \in Thread \ {t} :
           /\ pc'[u] = pc[u] /\ after'[u] = after[u]
           /\ spinning'[u] = spinning[u] /\ wakeEvent'[u] = wakeEvent[u],
         walk[t] = <<>>, pc'[t] # "Wake",
         Listed(t) => /\ InBlock(pc'[t], after'[t])
                      /\ ~spinning'[t] => pc'[t] = "Wait"
                      /\ pc'[t] \in {"Spin", "Wait"} => ~wakeEvent'[t]
                      /\ spinning'[t] => spinning[t]
  PROVE  ListsDisjoint' /\ FlagsMatch'
<1>1. \A u, v \in Thread :
        /\ InSeq(u, chain)' <=> InSeq(u, chain)
        /\ InSeq(u, walk[v])' <=> InSeq(u, walk[v])
        /\ Listed(u)' <=> Listed(u)
  <2>1. \A u, v \in Thread :
          /\ InSeq(u, chain)' <=> InSeq(u, chain)
          /\ InSeq(u, walk[v])' <=> InSeq(u, walk[v])
    BY DEF InSeq
  <2>2. QED BY <2>1 DEF Listed
<1>2. ListsDisjoint'
  <2>1. Distinct(chain)' /\ \A v \in Thread : Distinct(walk[v])'
    BY DEF InvEntryLock, ListsDisjoint, Distinct
  <2>2. \A v \in Thread : walk'[v] # <<>> => pc'[v] \in {"Walk", "Wake"}
    BY DEF InvEntryLock, ListsDisjoint
  <2>3. QED BY <1>1, <2>1, <2>2 DEF InvEntryLock, ListsDisjoint
<1>3. FlagsMatch'
  <2>1. \A u \in Thread \ {t} : Blocking(u)' <=> Blocking(u)
    BY DEF Blocking
  <2>2. \A u \in Thread : Listed(u)' =>
          /\ Blocking(u)'
          /\ ~spinning'[u] => pc'[u] = "Wait"
          /\ pc'[u] \in {"Spin", "Wait"} => ~wakeEvent'[u]
    BY <1>1, <2>1 DEF InvEntryLock, FlagsMatch, Blocking, InBlock
  <2>3. \A u \in Thread : pc'[u] = "Wake" => walk'[u] # <<>> /\ ~spinning'[Head(walk'[u])]
    <3> SUFFICES ASSUME NEW u \in Thread, pc'[u] = "Wake"
                 PROVE  walk'[u] # <<>> /\ ~spinning'[Head(walk'[u])]
      OBVIOUS
    <3>1. u # t /\ pc[u] = "Wake" /\ walk[u] # <<>> /\ ~spinning[Head(walk[u])]
      BY DEF InvEntryLock, FlagsMatch
    <3>2. Head(walk[u]) \in Thread /\ InSeq(Head(walk[u]), walk[u])
      BY <3>1, Popped DEF InvEntryLock, TypeOKEntryLock
    <3>3. CASE Head(walk[u]) = t
      <4>1. Listed(t) /\ ~spinning[t]
        BY <3>1, <3>2, <3>3 DEF Listed
      <4>2. QED BY <3>1, <3>3, <4>1
    <3>4. CASE Head(walk[u]) # t
      BY <3>1, <3>2, <3>4
    <3>5. QED BY <3>3, <3>4
  <2>4. QED BY <2>2, <2>3 DEF FlagsMatch
<1>4. QED BY <1>2, <1>3

LEMMA BeginLockKeeps ==
  ASSUME InvEntryLock, NEW t \in Thread, NEW e \in TableEntry, BeginLock(t, e)
  PROVE  InvEntryLock'
<1>1. ListsDisjoint' /\ FlagsMatch'
  <2>1. UNCHANGED <<chain, walk>> /\ walk[t] = <<>> /\ pc'[t] # "Wake"
    BY DEF InvEntryLock, TypeOKEntryLock, ListsDisjoint, BeginLock, Goto, blockVars, walkVars
  <2>2. \A u \in Thread \ {t} :
           /\ pc'[u] = pc[u] /\ after'[u] = after[u]
           /\ spinning'[u] = spinning[u] /\ wakeEvent'[u] = wakeEvent[u]
    BY DEF InvEntryLock, TypeOKEntryLock, BeginLock, Goto, blockVars, walkVars
  <2>3. Listed(t) => /\ InBlock(pc'[t], after'[t])
                     /\ ~spinning'[t] => pc'[t] = "Wait"
                     /\ pc'[t] \in {"Spin", "Wait"} => ~wakeEvent'[t]
                     /\ spinning'[t] => spinning[t]
    BY DEF InvEntryLock, TypeOKEntryLock, FlagsMatch, Blocking, InBlock, BeginLock, Goto,
      blockVars, walkVars
  <2>4. QED BY <2>1, <2>2, <2>3, SameLists
<1>2. TypeOKEntryLock'
  BY DEF InvEntryLock, TypeOKEntryLock, CallsHaveEntries, Object, Free, LockBit, BeginLock,
    Goto, blockVars, walkVars
<1>3. CallsHaveEntries'
  BY DEF InvEntryLock, TypeOKEntryLock, CallsHaveEntries, BeginLock, Goto, blockVars, walkVars
<1>4. OneHolder'
  BY SameHolders DEF InvEntryLock, TypeOKEntryLock, BeginLock, Goto, blockVars, walkVars
<1>5. QED BY <1>1, <1>2, <1>3, <1>4 DEF InvEntryLock

LEMMA FillEntryKeeps ==
  ASSUME InvEntryLock, NEW t \in Thread, NEW e \in TableEntry, FillEntry(t, e)
  PROVE  InvEntryLock'
<1>1. ListsDisjoint' /\ FlagsMatch'
  <2>1. UNCHANGED <<chain, walk>> /\ walk[t] = <<>> /\ pc'[t] # "Wake"
    BY DEF InvEntryLock, TypeOKEntryLock, ListsDisjoint, FillEntry, Goto, blockVars, walkVars
  <2>2. \A u \in Thread \ {t} :
           /\ pc'[u] = pc[u] /\ after'[u] = after[u]
           /\ spinning'[u] = spinning[u] /\ wakeEvent'[u] = wakeEvent[u]
    BY DEF InvEntryLock, TypeOKEntryLock, FillEntry, Goto, blockVars, walkVars
  <2>3. Listed(t) => /\ InBlock(pc'[t], after'[t])
                     /\ ~spinning'[t] => pc'[t] = "Wait"
                     /\ pc'[t] \in {"Spin", "Wait"} => ~wakeEvent'[t]
                     /\ spinning'[t] => spinning[t]
    BY DEF InvEntryLock, TypeOKEntryLock, FlagsMatch, Blocking, InBlock, FillEntry, Goto,
      blockVars, walkVars
  <2>4. QED BY <2>1, <2>2, <2>3, SameLists
<1>2. TypeOKEntryLock'
  BY DEF InvEntryLock, TypeOKEntryLock, CallsHaveEntries, Object, Free, LockBit, FillEntry,
    Goto, blockVars, walkVars
<1>3. CallsHaveEntries'
  BY DEF InvEntryLock, TypeOKEntryLock, CallsHaveEntries, FillEntry, Goto, blockVars, walkVars
<1>4. OneHolder'
  BY DEF InvEntryLock, TypeOKEntryLock, CallsHaveEntries, OneHolder, Holds, Object, Free,
    LockBit, FillEntry, Goto, blockVars, walkVars
<1>5. QED BY <1>1, <1>2, <1>3, <1>4 DEF InvEntryLock

LEMMA ReadEntryKeeps ==
  ASSUME InvEntryLock, NEW t \in Thread, ReadEntry(t)
  PROVE  InvEntryLock'
<1>0. /\ pc[t] = "Lock" /\ UNCHANGED <<value, chain, spinning, wakeEvent, walk, after, calls>>
      /\ \/ EndCall(t)
         \/ Goto(t, "Swap") /\ UNCHANGED entry
         \/ Goto(t, "Push") /\ UNCHANGED entry
  <2>1. value[entry[t]] \in {Free, Object, Object + LockBit}
    BY DEF InvEntryLock, TypeOKEntryLock, CallsHaveEntries, ReadEntry
  <2>2. CASE value[entry[t]] = Free
    BY <2>2 DEF ReadEntry, blockVars, walkVars, Free, Object, LockBit
  <2>3. CASE value[entry[t]] = Object
    BY <2>3 DEF ReadEntry, blockVars, walkVars, Free, Object, LockBit
  <2>4. CASE value[entry[t]] = Object + LockBit
    BY <2>4 DEF ReadEntry, blockVars, walkVars, Free, Object, LockBit
  <2>5. QED BY <2>1, <2>2, <2>3, <2>4
<1>1. ListsDisjoint' /\ FlagsMatch'
  <2>1. UNCHANGED <<chain, walk>> /\ walk[t] = <<>> /\ pc'[t] # "Wake"
    BY <1>0 DEF InvEntryLock, TypeOKEntryLock, ListsDisjoint, Goto, EndCall
  <2>2. \A u \in Thread \ {t} :
           /\ pc'[u] = pc[u] /\ after'[u] = after[u]
           /\ spinning'[u] = spinning[u] /\ wakeEvent'[u] = wakeEvent[u]
    BY <1>0 DEF InvEntryLock, TypeOKEntryLock, Goto, EndCall
  <2>3. Listed(t) => /\ InBlock(pc'[t], after'[t])
                     /\ ~spinning'[t] => pc'[t] = "Wait"
                     /\ pc'[t] \in {"Spin", "Wait"} => ~wakeEvent'[t]
                     /\ spinning'[t] => spinning[t]
    BY <1>0 DEF InvEntryLock, TypeOKEntryLock, FlagsMatch, Blocking, InBlock, Goto, EndCall
  <2>4. QED BY <2>1, <2>2, <2>3, SameLists
<1>2. TypeOKEntryLock'
  BY <1>0 DEF InvEntryLock, TypeOKEntryLock, CallsHaveEntries, Object, Free, LockBit, Goto,
    EndCall
<1>3. CallsHaveEntries'
  BY <1>0 DEF InvEntryLock, TypeOKEntryLock, CallsHaveEntries, Goto, EndCall
<1>4. OneHolder'
  BY <1>0, SameHolders DEF InvEntryLock, TypeOKEntryLock, Goto, EndCall
<1>5. QED BY <1>1, <1>2, <1>3, <1>4 DEF InvEntryLock

LEMMA SwapEntryKeeps ==
  ASSUME InvEntryLock, NEW t \in Thread, SwapEntry(t)
  PROVE  InvEntryLock'
<1>1. ListsDisjoint' /\ FlagsMatch'
  <2>1. UNCHANGED <<chain, walk>> /\ walk[t] = <<>> /\ pc'[t] # "Wake"
    BY DEF InvEntryLock, TypeOKEntryLock, ListsDisjoint, SwapEntry, Goto, blockVars, walkVars
  <2>2. \A u \in Thread \ {t} :
           /\ pc'[u] = pc[u] /\ after'[u] = after[u]
           /\ spinning'[u] = spinning[u] /\ wakeEvent'[u] = wakeEvent[u]
    BY DEF InvEntryLock, TypeOKEntryLock, SwapEntry, Goto, blockVars, walkVars
  <2>3. Listed(t) => /\ InBlock(pc'[t], after'[t])
                     /\ ~spinning'[t] => pc'[t] = "Wait"
                     /\ pc'[t] \in {"Spin", "Wait"} => ~wakeEvent'[t]
                     /\ spinning'[t] => spinning[t]
    BY DEF InvEntryLock, TypeOKEntryLock, FlagsMatch, Blocking, InBlock, SwapEntry, Goto,
      blockVars, walkVars
  <2>4. QED BY <2>1, <2>2, <2>3, SameLists
<1>2. TypeOKEntryLock'
  BY DEF InvEntryLock, TypeOKEntryLock, CallsHaveEntries, Object, Free, LockBit, SwapEntry,
    Goto, blockVars, walkVars
<1>3. CallsHaveEntries'
  BY DEF InvEntryLock, TypeOKEntryLock, CallsHaveEntries, SwapEntry, Goto, blockVars, walkVars
<1>4. OneHolder'
  <2>1. CASE value[entry[t]] = Object + LockBit
    <3>1. /\ value' = [value EXCEPT ![entry[t]] = Object]
          /\ pc' = [pc EXCEPT ![t] = "Holding"] /\ entry' = entry
          /\ entry[t] \in TableEntry
      BY <2>1 DEF InvEntryLock, CallsHaveEntries, SwapEntry, Goto
    <3>2. \A u \in Thread : ~Holds(u, entry[t])
      <4>1. value[entry[t]] # Object
        BY <2>1 DEF Object, LockBit
      <4>2. QED BY <3>1, <4>1 DEF InvEntryLock, OneHolder
    <3>3. \A u \in Thread, e \in TableEntry : Holds(u, e)' <=> Holds(u, e) \/ (u = t /\ e = entry[t])
      BY <3>1 DEF InvEntryLock, TypeOKEntryLock, Holds, SwapEntry
    <3>4. QED BY <3>1, <3>2, <3>3 DEF InvEntryLock, TypeOKEntryLock, OneHolder
  <2>2. CASE value[entry[t]] # Object + LockBit
    BY <2>2, SameHolders DEF InvEntryLock, TypeOKEntryLock, SwapEntry, Goto
  <2>3. QED BY <2>1, <2>2
<1>5. QED BY <1>1, <1>2, <1>3, <1>4 DEF InvEntryLock

LEMMA InitEventKeeps ==
  ASSUME InvEntryLock, NEW t \in Thread, InitEvent(t)
  PROVE  InvEntryLock'
<1>1. ListsDisjoint' /\ FlagsMatch'
  <2>1. UNCHANGED <<chain, walk>> /\ walk[t] = <<>> /\ pc'[t] # "Wake"
    BY DEF InvEntryLock, TypeOKEntryLock, ListsDisjoint, InitEvent, Goto, blockVars, walkVars
  <2>2. \A u \in Thread \ {t} :
           /\ pc'[u] = pc[u] /\ after'[u] = after[u]
           /\ spinning'[u] = spinning[u] /\ wakeEvent'[u] = wakeEvent[u]
    BY DEF InvEntryLock, TypeOKEntryLock, InitEvent, Goto, blockVars, walkVars
  <2>3. Listed(t) => /\ InBlock(pc'[t], after'[t])
                     /\ ~spinning'[t] => pc'[t] = "Wait"
                     /\ pc'[t] \in {"Spin", "Wait"} => ~wakeEvent'[t]
                     /\ spinning'[t] => spinning[t]
    BY DEF InvEntryLock, TypeOKEntryLock, FlagsMatch, Blocking, InBlock, InitEvent, Goto,
      blockVars, walkVars
  <2>4. QED BY <2>1, <2>2, <2>3, SameLists
<1>2. TypeOKEntryLock'
  BY DEF InvEntryLock, TypeOKEntryLock, CallsHaveEntries, Object, Free, LockBit, InitEvent,
    Goto, blockVars, walkVars
<1>3. CallsHaveEntries'
  BY DEF InvEntryLock, TypeOKEntryLock, CallsHaveEntries, InitEvent, Goto, blockVars, walkVars
<1>4. OneHolder'
  BY SameHolders DEF InvEntryLock, TypeOKEntryLock, InitEvent, Goto, blockVars, walkVars
<1>5. QED BY <1>1, <1>2, <1>3, <1>4 DEF InvEntryLock

LEMMA StopSpinningKeeps ==
  ASSUME InvEntryLock, NEW t \in Thread, StopSpinning(t)
  PROVE  InvEntryLock'
<1>1. ListsDisjoint' /\ FlagsMatch'
  <2>1. UNCHANGED <<chain, walk>> /\ walk[t] = <<>> /\ pc'[t] # "Wake"
    BY DEF InvEntryLock, TypeOKEntryLock, ListsDisjoint, StopSpinning, Goto, blockVars,
      walkVars
  <2>2. \A u \in Thread \ {t} :
           /\ pc'[u] = pc[u] /\ after'[u] = after[u]
           /\ spinning'[u] = spinning[u] /\ wakeEvent'[u] = wakeEvent[u]
    BY DEF InvEntryLock, TypeOKEntryLock, StopSpinning, Goto, blockVars, walkVars
  <2>3. Listed(t) => /\ InBlock(pc'[t], after'[t])
                     /\ ~spinning'[t] => pc'[t] = "Wait"
                     /\ pc'[t] \in {"Spin", "Wait"} => ~wakeEvent'[t]
                     /\ spinning'[t] => spinning[t]
    BY DEF InvEntryLock, TypeOKEntryLock, FlagsMatch, Blocking, InBlock, StopSpinning, Goto,
      blockVars, walkVars
  <2>4. QED BY <2>1, <2>2, <2>3, SameLists
<1>2. TypeOKEntryLock'
  BY DEF InvEntryLock, TypeOKEntryLock, CallsHaveEntries, Object, Free, LockBit, StopSpinning,
    Goto, blockVars, walkVars
<1>3. CallsHaveEntries'
  BY DEF InvEntryLock, TypeOKEntryLock, CallsHaveEntries, StopSpinning, Goto, blockVars,
    walkVars
<1>4. OneHolder'
  BY SameHolders DEF InvEntryLock, TypeOKEntryLock, StopSpinning, Goto, blockVars, walkVars
<1>5. QED BY <1>1, <1>2, <1>3, <1>4 DEF InvEntryLock

LEMMA WaitReturnsKeeps ==
  ASSUME InvEntryLock, NEW t \in Thread, WaitReturns(t)
  PROVE  InvEntryLock'
<1>1. ListsDisjoint' /\ FlagsMatch'
  <2>1. UNCHANGED <<chain, walk>> /\ walk[t] = <<>> /\ pc'[t] # "Wake"
    BY DEF InvEntryLock, TypeOKEntryLock, ListsDisjoint, WaitReturns, Goto, blockVars, walkVars
  <2>2. \A u \in Thread \ {t} :
           /\ pc'[u] = pc[u] /\ after'[u] = after[u]
           /\ spinning'[u] = spinning[u] /\ wakeEvent'[u] = wakeEvent[u]
    BY DEF InvEntryLock, TypeOKEntryLock, WaitReturns, Goto, blockVars, walkVars
  <2>3. Listed(t) => /\ InBlock(pc'[t], after'[t])
                     /\ ~spinning'[t] => pc'[t] = "Wait"
                     /\ pc'[t] \in {"Spin", "Wait"} => ~wakeEvent'[t]
                     /\ spinning'[t] => spinning[t]
    BY DEF InvEntryLock, TypeOKEntryLock, FlagsMatch, Blocking, InBlock, WaitReturns, Goto,
      blockVars, walkVars
  <2>4. QED BY <2>1, <2>2, <2>3, SameLists
<1>2. TypeOKEntryLock'
  BY DEF InvEntryLock, TypeOKEntryLock, CallsHaveEntries, Object, Free, LockBit, WaitReturns,
    Goto, blockVars, walkVars
<1>3. CallsHaveEntries'
  BY DEF InvEntryLock, TypeOKEntryLock, CallsHaveEntries, WaitReturns, Goto, blockVars,
    walkVars
<1>4. OneHolder'
  BY SameHolders DEF InvEntryLock, TypeOKEntryLock, WaitReturns, Goto, blockVars, walkVars
<1>5. QED BY <1>1, <1>2, <1>3, <1>4 DEF InvEntryLock

LEMMA RecheckEntryKeeps ==
  ASSUME InvEntryLock, NEW t \in Thread, RecheckEntry(t)
  PROVE  InvEntryLock'
<1>1. ListsDisjoint' /\ FlagsMatch'
  <2>1. UNCHANGED <<chain, walk>> /\ walk[t] = <<>> /\ pc'[t] # "Wake"
    BY DEF InvEntryLock, TypeOKEntryLock, ListsDisjoint, RecheckEntry, Goto, blockVars,
      walkVars, Unblock
  <2>2. \A u \in Thread \ {t} :
           /\ pc'[u] = pc[u] /\ after'[u] = after[u]
           /\ spinning'[u] = spinning[u] /\ wakeEvent'[u] = wakeEvent[u]
    BY DEF InvEntryLock, TypeOKEntryLock, RecheckEntry, Goto, blockVars, walkVars, Unblock
  <2>3. Listed(t) => /\ InBlock(pc'[t], after'[t])
                     /\ ~spinning'[t] => pc'[t] = "Wait"
                     /\ pc'[t] \in {"Spin", "Wait"} => ~wakeEvent'[t]
                     /\ spinning'[t] => spinning[t]
    BY DEF InvEntryLock, TypeOKEntryLock, FlagsMatch, Blocking, InBlock, RecheckEntry, Goto,
      blockVars, walkVars, Unblock
  <2>4. QED BY <2>1, <2>2, <2>3, SameLists
<1>2. TypeOKEntryLock'
  BY DEF InvEntryLock, TypeOKEntryLock, CallsHaveEntries, Object, Free, LockBit, RecheckEntry,
    Goto, blockVars, walkVars, Unblock
<1>3. CallsHaveEntries'
  BY DEF InvEntryLock, TypeOKEntryLock, CallsHaveEntries, RecheckEntry, Goto, blockVars,
    walkVars, Unblock
<1>4. OneHolder'
  BY SameHolders DEF InvEntryLock, TypeOKEntryLock, RecheckEntry, Goto, blockVars, walkVars,
    Unblock
<1>5. QED BY <1>1, <1>2, <1>3, <1>4 DEF InvEntryLock

LEMMA UnlockKeeps ==
  ASSUME InvEntryLock, NEW t \in Thread, Unlock(t)
  PROVE  InvEntryLock'
<1>1. ListsDisjoint' /\ FlagsMatch'
  <2>1. UNCHANGED <<chain, walk>> /\ walk[t] = <<>> /\ pc'[t] # "Wake"
    BY DEF InvEntryLock, TypeOKEntryLock, ListsDisjoint, Unlock, Goto, blockVars, walkVars,
      Unblock
  <2>2. \A u \in Thread \ {t} :
           /\ pc'[u] = pc[u] /\ after'[u] = after[u]
           /\ spinning'[u] = spinning[u] /\ wakeEvent'[u] = wakeEvent[u]
    BY DEF InvEntryLock, TypeOKEntryLock, Unlock, Goto, blockVars, walkVars, Unblock
  <2>3. Listed(t) => /\ InBlock(pc'[t], after'[t])
                     /\ ~spinning'[t] => pc'[t] = "Wait"
                     /\ pc'[t] \in {"Spin", "Wait"} => ~wakeEvent'[t]
                     /\ spinning'[t] => spinning[t]
    BY DEF InvEntryLock, TypeOKEntryLock, FlagsMatch, Blocking, InBlock, Unlock, Goto,
      blockVars, walkVars, Unblock
  <2>4. QED BY <2>1, <2>2, <2>3, SameLists
<1>2. TypeOKEntryLock'
  <2>1. entry[t] \in TableEntry /\ value[entry[t]] = Object
    BY DEF InvEntryLock, CallsHaveEntries, OneHolder, Holds, Unlock
  <2>2. value' = [value EXCEPT ![entry[t]] = Object + LockBit]
    BY <2>1 DEF Unlock
  <2>3. value' \in [TableEntry -> {Free, Object, Object + LockBit}]
    BY <2>1, <2>2 DEF InvEntryLock, TypeOKEntryLock
  <2>4. QED BY <2>3 DEF InvEntryLock, TypeOKEntryLock, Unlock, Goto, blockVars, Unblock
<1>3. CallsHaveEntries'
  BY DEF InvEntryLock, TypeOKEntryLock, CallsHaveEntries, Unlock, Goto, blockVars, walkVars,
    Unblock
<1>4. OneHolder'
  BY DEF InvEntryLock, TypeOKEntryLock, CallsHaveEntries, OneHolder, Holds, Object, Free,
    LockBit, Unlock, Goto, blockVars, walkVars, Unblock
<1>5. QED BY <1>1, <1>2, <1>3, <1>4 DEF InvEntryLock

LEMMA ExDestroyHandleKeeps ==
  ASSUME InvEntryLock, NEW t \in Thread, ExDestroyHandle(t)
  PROVE  InvEntryLock'
<1>1. ListsDisjoint' /\ FlagsMatch'
  <2>1. UNCHANGED <<chain, walk>> /\ walk[t] = <<>> /\ pc'[t] # "Wake"
    BY DEF InvEntryLock, TypeOKEntryLock, ListsDisjoint, ExDestroyHandle, Goto, blockVars,
      walkVars, Unblock
  <2>2. \A u \in Thread \ {t} :
           /\ pc'[u] = pc[u] /\ after'[u] = after[u]
           /\ spinning'[u] = spinning[u] /\ wakeEvent'[u] = wakeEvent[u]
    BY DEF InvEntryLock, TypeOKEntryLock, ExDestroyHandle, Goto, blockVars, walkVars, Unblock
  <2>3. Listed(t) => /\ InBlock(pc'[t], after'[t])
                     /\ ~spinning'[t] => pc'[t] = "Wait"
                     /\ pc'[t] \in {"Spin", "Wait"} => ~wakeEvent'[t]
                     /\ spinning'[t] => spinning[t]
    BY DEF InvEntryLock, TypeOKEntryLock, FlagsMatch, Blocking, InBlock, ExDestroyHandle, Goto,
      blockVars, walkVars, Unblock
  <2>4. QED BY <2>1, <2>2, <2>3, SameLists
<1>2. TypeOKEntryLock'
  BY DEF InvEntryLock, TypeOKEntryLock, CallsHaveEntries, Object, Free, LockBit,
    ExDestroyHandle, Goto, blockVars, walkVars, Unblock
<1>3. CallsHaveEntries'
  BY DEF InvEntryLock, TypeOKEntryLock, CallsHaveEntries, ExDestroyHandle, Goto, blockVars,
    walkVars, Unblock
<1>4. OneHolder'
  BY DEF InvEntryLock, TypeOKEntryLock, CallsHaveEntries, OneHolder, Holds, Object, Free,
    LockBit, ExDestroyHandle, Goto, blockVars, walkVars, Unblock
<1>5. QED BY <1>1, <1>2, <1>3, <1>4 DEF InvEntryLock

(* The block that is pushed was on no list: its owner was not blocking. *)
LEMMA PushBlockKeeps ==
  ASSUME InvEntryLock, NEW t \in Thread, PushBlock(t)
  PROVE  InvEntryLock'
<1>1. ~Listed(t)
  BY DEF InvEntryLock, FlagsMatch, Blocking, PushBlock
<1>2. /\ chain \in Seq(Thread) /\ chain' = <<t>> \o chain /\ UNCHANGED walk
      /\ pc' = [pc EXCEPT ![t] = "Recheck"] /\ UNCHANGED <<value, entry, wakeEvent, after>>
      /\ spinning' = [spinning EXCEPT ![t] = TRUE] /\ pc[t] = "Push"
  BY DEF InvEntryLock, TypeOKEntryLock, PushBlock, Goto, walkVars
<1>3. /\ chain' \in Seq(Thread) /\ Distinct(chain')
      /\ \A u \in Thread : InSeq(u, chain') <=> u = t \/ InSeq(u, chain)
  BY <1>1, <1>2, Pushed DEF InvEntryLock, ListsDisjoint, Listed
<1>4. \A u \in Thread : Listed(u)' <=> u = t \/ Listed(u)
  BY <1>2, <1>3 DEF Listed
<1>5. TypeOKEntryLock'
  BY <1>2, <1>3 DEF InvEntryLock, TypeOKEntryLock, PushBlock, walkVars
<1>6. CallsHaveEntries'
  BY <1>2 DEF InvEntryLock, TypeOKEntryLock, CallsHaveEntries
<1>7. OneHolder'
  BY <1>2, SameHolders DEF InvEntryLock, TypeOKEntryLock
<1>8. ListsDisjoint'
  <2>1. \A v \in Thread : ~InSeq(t, walk[v])
    BY <1>1 DEF Listed
  <2>2. \A v \in Thread : walk'[v] # <<>> => pc'[v] \in {"Walk", "Wake"}
    BY <1>2 DEF InvEntryLock, TypeOKEntryLock, ListsDisjoint
  <2>3. \A v, u \in Thread : InSeq(u, walk'[v]) => ~InSeq(u, chain')
    BY SMTT(30), <1>2, <1>3, <2>1 DEF InvEntryLock, ListsDisjoint
  <2>4. \A v \in Thread : Distinct(walk'[v])
    BY <1>2 DEF InvEntryLock, ListsDisjoint
  <2>5. \A v, w, u \in Thread : InSeq(u, walk'[v]) /\ InSeq(u, walk'[w]) => v = w
    BY <1>2 DEF InvEntryLock, ListsDisjoint
  <2>6. QED BY <1>3, <2>2, <2>3, <2>4, <2>5 DEF ListsDisjoint
<1>9. FlagsMatch'
  <2>1. \A u \in Thread \ {t} : Blocking(u)' <=> Blocking(u)
    BY <1>2 DEF InvEntryLock, TypeOKEntryLock, Blocking
  <2>2. Blocking(t)' /\ spinning'[t] /\ pc'[t] = "Recheck"
    BY <1>2 DEF InvEntryLock, TypeOKEntryLock, Blocking
  <2>3. \A u \in Thread \ {t} : pc'[u] = pc[u] /\ spinning'[u] = spinning[u] /\ wakeEvent'[u] = wakeEvent[u]
    BY <1>2 DEF InvEntryLock, TypeOKEntryLock
  <2>4. \A u \in Thread : Listed(u)' =>
          /\ Blocking(u)'
          /\ ~spinning'[u] => pc'[u] = "Wait"
          /\ pc'[u] \in {"Spin", "Wait"} => ~wakeEvent'[u]
    BY <1>4, <2>1, <2>2, <2>3 DEF InvEntryLock, FlagsMatch
  <2>5. ASSUME NEW u \in Thread, pc'[u] = "Wake"
        PROVE  walk'[u] # <<>> /\ ~spinning'[Head(walk'[u])]
    <3>1. u # t /\ pc[u] = "Wake" /\ walk[u] # <<>> /\ ~spinning[Head(walk[u])]
      BY <2>2, <2>3, <2>5 DEF InvEntryLock, FlagsMatch
    <3>2. Head(walk[u]) \in Thread /\ InSeq(Head(walk[u]), walk[u])
      BY <3>1, Popped DEF InvEntryLock, TypeOKEntryLock
    <3>3. Head(walk[u]) # t
      BY <1>1, <3>2 DEF Listed
    <3>4. QED BY <1>2, <2>3, <3>1, <3>2, <3>3
  <2>6. QED BY <2>4, <2>5 DEF FlagsMatch
<1>10. QED BY <1>5, <1>6, <1>7, <1>8, <1>9 DEF InvEntryLock

(* The chain becomes the walk of one thread, which had none. *)
LEMMA PopChainKeeps ==
  ASSUME InvEntryLock, NEW t \in Thread, PopChain(t)
  PROVE  InvEntryLock'
<1>1. /\ chain \in Seq(Thread) /\ chain' = <<>> /\ walk[t] = <<>>
      /\ walk' = [walk EXCEPT ![t] = chain] /\ walk \in [Thread -> Seq(Thread)]
      /\ pc' = [pc EXCEPT ![t] = "Walk"] /\ pc[t] = "Unblock"
      /\ UNCHANGED <<value, entry, wakeEvent, spinning, after>>
  BY DEF InvEntryLock, TypeOKEntryLock, ListsDisjoint, PopChain, Goto, blockVars
<1>2. \A u \in Thread : ~InSeq(u, <<>>)
  BY DEF InSeq
<1>3. \A u, v \in Thread :
        InSeq(u, walk'[v]) <=> (v = t /\ InSeq(u, chain)) \/ (v # t /\ InSeq(u, walk[v]))
  BY <1>1
<1>4. \A u \in Thread : Listed(u)' <=> Listed(u)
  <2>1. \A v \in Thread : walk'[v] = IF v = t THEN chain ELSE walk[v]
    BY <1>1
  <2>2. ASSUME NEW u \in Thread PROVE Listed(u)' <=> Listed(u)
    <3>1. Listed(u)' <=> \E v \in Thread : InSeq(u, walk'[v])
      BY <1>1, <1>2 DEF Listed
    <3>2. (\E v \in Thread : InSeq(u, walk'[v])) <=>
            InSeq(u, chain) \/ \E v \in Thread : v # t /\ InSeq(u, walk[v])
      BY <1>3
    <3>3. ~InSeq(u, walk[t])
      BY <1>1, <1>2
    <3>4. QED BY <3>1, <3>2, <3>3 DEF Listed
  <2>3. QED BY <2>2
<1>5. TypeOKEntryLock'
  BY <1>1 DEF InvEntryLock, TypeOKEntryLock, PopChain
<1>6. CallsHaveEntries'
  BY <1>1 DEF InvEntryLock, TypeOKEntryLock, CallsHaveEntries
<1>7. OneHolder'
  BY <1>1, SameHolders DEF InvEntryLock, TypeOKEntryLock
<1>8. ListsDisjoint'
  <2>1. Distinct(chain')
    BY <1>1 DEF Distinct
  <2>2. \A v \in Thread : Distinct(walk'[v]) /\ (walk'[v] # <<>> => pc'[v] \in {"Walk", "Wake"})
    BY <1>1 DEF InvEntryLock, TypeOKEntryLock, ListsDisjoint
  <2>3. \A u, v \in Thread : InSeq(u, walk'[v]) => ~InSeq(u, chain')
    BY <1>1, <1>2
  <2>4. \A v, w, u \in Thread : InSeq(u, walk'[v]) /\ InSeq(u, walk'[w]) => v = w
    BY <1>3 DEF InvEntryLock, ListsDisjoint
  <2>5. QED BY <2>1, <2>2, <2>3, <2>4 DEF ListsDisjoint
<1>9. FlagsMatch'
  <2>1. \A u \in Thread : Blocking(u)' <=> Blocking(u)
    BY <1>1 DEF InvEntryLock, TypeOKEntryLock, Blocking
  <2>2. \A u \in Thread : pc'[u] \in {"Wait", "Spin", "Wake"} \/ pc[u] \in {"Wait", "Spin", "Wake"} => pc'[u] = pc[u] /\ u # t
    BY <1>1 DEF InvEntryLock, TypeOKEntryLock
  <2>3. \A u \in Thread : Listed(u)' =>
          /\ Blocking(u)'
          /\ ~spinning'[u] => pc'[u] = "Wait"
          /\ pc'[u] \in {"Spin", "Wait"} => ~wakeEvent'[u]
    BY <1>1, <1>4, <2>1, <2>2 DEF InvEntryLock, FlagsMatch
  <2>4. \A u \in Thread : pc'[u] = "Wake" => walk'[u] # <<>> /\ ~spinning'[Head(walk'[u])]
    BY <1>1, <2>2 DEF InvEntryLock, FlagsMatch
  <2>5. QED BY <2>3, <2>4 DEF FlagsMatch
<1>10. QED BY <1>5, <1>6, <1>7, <1>8, <1>9 DEF InvEntryLock

(* Taking a block off a walk: nobody else lists it. *)
LEMMA PopKeepsLists ==
  ASSUME InvEntryLock, NEW t \in Thread, walk[t] # <<>>, UNCHANGED chain,
         walk' = [walk EXCEPT ![t] = Tail(@)], pc'[t] = "Walk",
         \A u \in Thread \ {t} : pc'[u] = pc[u]
  PROVE  /\ Head(walk[t]) \in Thread /\ Listed(Head(walk[t]))
         /\ \A u \in Thread : Listed(u)' => Listed(u) /\ u # Head(walk[t])
         /\ \A v \in Thread \ {t} : ~InSeq(Head(walk[t]), walk[v]) /\ walk'[v] = walk[v]
         /\ walk' \in [Thread -> Seq(Thread)]
         /\ ListsDisjoint'
<1> DEFINE h == Head(walk[t])
<1>1. /\ walk \in [Thread -> Seq(Thread)] /\ walk[t] \in Seq(Thread)
      /\ walk'[t] = Tail(walk[t]) /\ chain' = chain
      /\ \A v \in Thread \ {t} : walk'[v] = walk[v]
  BY DEF InvEntryLock, TypeOKEntryLock
<1>2. /\ h \in Thread /\ walk'[t] \in Seq(Thread) /\ InSeq(h, walk[t])
      /\ \A u \in Thread : InSeq(u, walk'[t]) => InSeq(u, walk[t])
      /\ Distinct(walk'[t]) /\ ~InSeq(h, walk'[t])
  BY <1>1, Popped DEF InvEntryLock, ListsDisjoint
<1>3. ~InSeq(h, chain) /\ \A v \in Thread \ {t} : ~InSeq(h, walk[v])
  BY <1>2 DEF InvEntryLock, ListsDisjoint
<1> HIDE DEF h
<1>4. \A v, u \in Thread : InSeq(u, walk'[v]) => InSeq(u, walk[v]) /\ u # h
  BY <1>1, <1>2, <1>3
<1>5. \A u \in Thread : Listed(u)' => Listed(u) /\ u # h
  BY <1>1, <1>3, <1>4 DEF Listed
<1>6. ListsDisjoint'
  <2>1. \A v \in Thread : Distinct(walk'[v])
    BY <1>1, <1>2 DEF InvEntryLock, ListsDisjoint
  <2>2. \A v \in Thread : walk'[v] # <<>> => pc'[v] \in {"Walk", "Wake"}
    BY <1>1 DEF InvEntryLock, ListsDisjoint
  <2>3. \A v, u \in Thread : InSeq(u, walk'[v]) => ~InSeq(u, chain')
    BY <1>1, <1>4 DEF InvEntryLock, ListsDisjoint
  <2>4. \A v, w, u \in Thread : InSeq(u, walk'[v]) /\ InSeq(u, walk'[w]) => v = w
    BY <1>4 DEF InvEntryLock, ListsDisjoint
  <2>5. Distinct(chain')
    BY <1>1 DEF InvEntryLock, ListsDisjoint
  <2>6. QED BY <2>1, <2>2, <2>3, <2>4, <2>5 DEF ListsDisjoint
<1>7. walk' \in [Thread -> Seq(Thread)]
  BY <1>1, <1>2
<1>8. Listed(h)
  BY <1>2 DEF Listed
<1>9. QED BY <1>1, <1>2, <1>3, <1>5, <1>6, <1>7, <1>8 DEF h

(* The walker's own block, if it is still listed, has its flag. *)
LEMMA WalkEndsKeeps ==
  ASSUME InvEntryLock, NEW t \in Thread, WakeBlock(t), walk[t] = <<>>
  PROVE  InvEntryLock'
<1>1. /\ pc[t] = "Walk" /\ WalkEnds(t)
      /\ UNCHANGED <<value, chain, spinning, wakeEvent, walk, after, calls>>
  BY DEF WakeBlock
<1>2. \/ /\ after[t] = "Self" /\ spinning[t] /\ UNCHANGED entry
         /\ pc' = [pc EXCEPT ![t] = "InitEvent"]
      \/ /\ after[t] = "Self" /\ ~spinning[t] /\ UNCHANGED entry
         /\ pc' = [pc EXCEPT ![t] = "Lock"]
      \/ /\ after[t] # "Self" /\ entry' = [entry EXCEPT ![t] = NoEntry]
         /\ pc' = [pc EXCEPT ![t] = "Idle"]
  BY <1>1 DEF WalkEnds, Goto, EndCall
<1>3. \A u \in Thread \ {t} : pc'[u] = pc[u] /\ entry'[u] = entry[u]
  BY <1>2 DEF InvEntryLock, TypeOKEntryLock
<1>4. Listed(t) => after[t] = "Self" /\ spinning[t]
  BY <1>1 DEF InvEntryLock, FlagsMatch, Blocking
<1>5. pc'[t] \in {"InitEvent", "Lock", "Idle"} /\ (Listed(t) => pc'[t] = "InitEvent")
  BY <1>2, <1>4 DEF InvEntryLock, TypeOKEntryLock
<1>6. Listed(t) => /\ InBlock(pc'[t], after'[t])
                   /\ ~spinning'[t] => pc'[t] = "Wait"
                   /\ pc'[t] \in {"Spin", "Wait"} => ~wakeEvent'[t]
                   /\ spinning'[t] => spinning[t]
  BY <1>1, <1>4, <1>5 DEF InBlock
<1>7. ListsDisjoint' /\ FlagsMatch'
  BY <1>1, <1>3, <1>5, <1>6, SameLists
<1>8. TypeOKEntryLock'
  BY <1>1, <1>2 DEF InvEntryLock, TypeOKEntryLock
<1>9. CallsHaveEntries'
  <2>1. \A u \in Thread \ {t} : pc'[u] # "Idle" => entry'[u] \in TableEntry
    BY <1>3 DEF InvEntryLock, CallsHaveEntries
  <2>2. pc'[t] # "Idle" => entry'[t] = entry[t]
    BY <1>2 DEF InvEntryLock, TypeOKEntryLock
  <2>3. pc'[t] # "Idle" => entry'[t] \in TableEntry
    BY <1>1, <2>2 DEF InvEntryLock, CallsHaveEntries
  <2>4. QED BY <2>1, <2>3 DEF CallsHaveEntries
<1>10. OneHolder'
  BY <1>1, <1>3, <1>5, SameHolders
<1>11. QED BY <1>7, <1>8, <1>9, <1>10 DEF InvEntryLock

(* The owner of the block had not reset the flag: it will not wait. *)
LEMMA WakeSpinnerKeeps ==
  ASSUME InvEntryLock, NEW t \in Thread, WakeBlock(t), walk[t] # <<>>, spinning[Head(walk[t])]
  PROVE  InvEntryLock'
<1> DEFINE h == Head(walk[t])
<1>1. /\ pc[t] = "Walk" /\ spinning' = [spinning EXCEPT ![h] = FALSE]
      /\ walk' = [walk EXCEPT ![t] = Tail(@)]
      /\ UNCHANGED <<pc, value, entry, chain, wakeEvent, after, calls>>
  BY DEF WakeBlock
<1>2. /\ h \in Thread
      /\ \A u \in Thread : Listed(u)' => Listed(u) /\ u # h
      /\ \A v \in Thread \ {t} : ~InSeq(h, walk[v]) /\ walk'[v] = walk[v]
      /\ walk' \in [Thread -> Seq(Thread)] /\ ListsDisjoint'
  BY <1>1, PopKeepsLists
<1> HIDE DEF h
<1>3. TypeOKEntryLock'
  BY <1>1, <1>2 DEF InvEntryLock, TypeOKEntryLock
<1>4. CallsHaveEntries'
  BY <1>1 DEF InvEntryLock, CallsHaveEntries
<1>5. OneHolder'
  BY <1>1, SameHolders
<1>6. FlagsMatch'
  <2>1. \A u \in Thread : u # h => spinning'[u] = spinning[u]
    BY <1>1 DEF InvEntryLock, TypeOKEntryLock
  <2>2. \A u \in Thread : Blocking(u)' <=> Blocking(u)
    BY <1>1 DEF Blocking
  <2>3. \A u \in Thread : Listed(u)' =>
          /\ Blocking(u)'
          /\ ~spinning'[u] => pc'[u] = "Wait"
          /\ pc'[u] \in {"Spin", "Wait"} => ~wakeEvent'[u]
    BY <1>1, <1>2, <2>1, <2>2 DEF InvEntryLock, FlagsMatch
  <2>4. ASSUME NEW v \in Thread, pc'[v] = "Wake"
        PROVE  walk'[v] # <<>> /\ ~spinning'[Head(walk'[v])]
    <3>1. v # t /\ pc[v] = "Wake" /\ walk'[v] = walk[v]
      BY <1>1, <1>2, <2>4
    <3>2. walk[v] # <<>> /\ ~spinning[Head(walk[v])]
      BY <3>1 DEF InvEntryLock, FlagsMatch
    <3>3. Head(walk[v]) \in Thread /\ InSeq(Head(walk[v]), walk[v])
      BY <3>2, Popped DEF InvEntryLock, TypeOKEntryLock
    <3>4. Head(walk[v]) # h
      BY <1>2, <3>1, <3>3
    <3>5. QED BY <2>1, <3>1, <3>2, <3>3, <3>4
  <2>5. QED BY <2>3, <2>4 DEF FlagsMatch
<1>7. QED BY <1>2, <1>3, <1>4, <1>5, <1>6 DEF InvEntryLock

(* The owner waits: its event is set next. *)
LEMMA WakeWaiterKeeps ==
  ASSUME InvEntryLock, NEW t \in Thread, WakeBlock(t), walk[t] # <<>>, ~spinning[Head(walk[t])]
  PROVE  InvEntryLock'
<1> DEFINE h == Head(walk[t])
<1>1. /\ pc[t] = "Walk" /\ spinning' = [spinning EXCEPT ![h] = FALSE]
      /\ pc' = [pc EXCEPT ![t] = "Wake"]
      /\ UNCHANGED <<value, entry, chain, wakeEvent, walk, after, calls>>
  BY DEF WakeBlock, Goto
<1>2. spinning' = spinning /\ ~spinning[h]
  BY <1>1, Popped DEF InvEntryLock, TypeOKEntryLock
<1>3. pc'[t] = "Wake" /\ \A u \in Thread \ {t} : pc'[u] = pc[u]
  BY <1>1 DEF InvEntryLock, TypeOKEntryLock
<1> HIDE DEF h
<1>4. TypeOKEntryLock'
  BY <1>1, <1>2 DEF InvEntryLock, TypeOKEntryLock
<1>5. CallsHaveEntries'
  BY <1>1, <1>3 DEF InvEntryLock, CallsHaveEntries
<1>6. OneHolder'
  BY <1>1, <1>3, SameHolders
<1>7. ListsDisjoint'
  BY <1>1, <1>3 DEF InvEntryLock, ListsDisjoint
<1>8. FlagsMatch'
  <2>1. \A u \in Thread : Listed(u)' <=> Listed(u)
    BY <1>1 DEF Listed
  <2>2. \A u \in Thread : Blocking(u)' <=> Blocking(u)
    BY <1>1, <1>3 DEF Blocking
  <2>3. \A u \in Thread : Listed(u)' =>
          /\ Blocking(u)'
          /\ ~spinning'[u] => pc'[u] = "Wait"
          /\ pc'[u] \in {"Spin", "Wait"} => ~wakeEvent'[u]
    BY <1>1, <1>2, <1>3, <2>1, <2>2 DEF InvEntryLock, FlagsMatch
  <2>4. \A v \in Thread : pc'[v] = "Wake" => walk'[v] # <<>> /\ ~spinning'[Head(walk'[v])]
    BY <1>1, <1>2, <1>3 DEF InvEntryLock, FlagsMatch, h
  <2>5. QED BY <2>3, <2>4 DEF FlagsMatch
<1>9. QED BY <1>4, <1>5, <1>6, <1>7, <1>8 DEF InvEntryLock

(* The event that is set belongs to a block that is on no list any more. *)
LEMMA SetEventKeeps ==
  ASSUME InvEntryLock, NEW t \in Thread, SetEvent(t)
  PROVE  InvEntryLock'
<1> DEFINE h == Head(walk[t])
<1>1. /\ pc[t] = "Wake" /\ wakeEvent' = [wakeEvent EXCEPT ![h] = TRUE]
      /\ walk' = [walk EXCEPT ![t] = Tail(@)] /\ pc' = [pc EXCEPT ![t] = "Walk"]
      /\ UNCHANGED <<value, chain, spinning, entry, after, calls>>
  BY DEF SetEvent, Goto
<1>2. walk[t] # <<>> /\ ~spinning[h]
  BY <1>1 DEF InvEntryLock, FlagsMatch
<1>3. pc'[t] = "Walk" /\ \A u \in Thread \ {t} : pc'[u] = pc[u]
  BY <1>1 DEF InvEntryLock, TypeOKEntryLock
<1>4. /\ h \in Thread
      /\ \A u \in Thread : Listed(u)' => Listed(u) /\ u # h
      /\ \A v \in Thread \ {t} : ~InSeq(h, walk[v]) /\ walk'[v] = walk[v]
      /\ walk' \in [Thread -> Seq(Thread)] /\ ListsDisjoint'
  BY <1>1, <1>2, <1>3, PopKeepsLists
<1> HIDE DEF h
<1>5. TypeOKEntryLock'
  BY <1>1, <1>4 DEF InvEntryLock, TypeOKEntryLock
<1>6. CallsHaveEntries'
  BY <1>1, <1>3 DEF InvEntryLock, CallsHaveEntries
<1>7. OneHolder'
  BY <1>1, <1>3, SameHolders
<1>8. FlagsMatch'
  <2>1. \A u \in Thread : u # h => wakeEvent'[u] = wakeEvent[u]
    BY <1>1 DEF InvEntryLock, TypeOKEntryLock
  <2>2. \A u \in Thread : Blocking(u)' <=> Blocking(u)
    BY <1>1, <1>3 DEF Blocking
  <2>3. \A u \in Thread : Listed(u)' =>
          /\ Blocking(u)'
          /\ ~spinning'[u] => pc'[u] = "Wait"
          /\ pc'[u] \in {"Spin", "Wait"} => ~wakeEvent'[u]
    BY <1>1, <1>3, <1>4, <2>1, <2>2 DEF InvEntryLock, FlagsMatch
  <2>4. \A v \in Thread : pc'[v] = "Wake" => walk'[v] # <<>> /\ ~spinning'[Head(walk'[v])]
    BY <1>1, <1>3, <1>4 DEF InvEntryLock, FlagsMatch
  <2>5. QED BY <2>3, <2>4 DEF FlagsMatch
<1>9. QED BY <1>4, <1>5, <1>6, <1>7, <1>8 DEF InvEntryLock
-----------------------------------------------------------------------------
LEMMA InitInvEntryLock == InitEntryLock => InvEntryLock
<1> SUFFICES ASSUME InitEntryLock PROVE InvEntryLock
  OBVIOUS
<1>1. TypeOKEntryLock /\ CallsHaveEntries /\ OneHolder
  BY SMTT(30) DEF InitEntryLock, TypeOKEntryLock, CallsHaveEntries, OneHolder, Holds, Object, Free,
    LockBit
<1>2. chain = <<>> /\ \A t \in Thread : walk[t] = <<>> /\ pc[t] = "Idle"
  BY DEF InitEntryLock
<1>3. \A u \in Thread : ~Listed(u)
  BY <1>2 DEF Listed, InSeq
<1>4. QED BY <1>1, <1>2, <1>3 DEF InvEntryLock, ListsDisjoint, FlagsMatch, Distinct, InSeq

LEMMA UnchangedInv == InvEntryLock /\ UNCHANGED varsEntryLock => InvEntryLock'
<1> SUFFICES ASSUME InvEntryLock, UNCHANGED varsEntryLock PROVE InvEntryLock'
  OBVIOUS
<1>1. TypeOKEntryLock' /\ CallsHaveEntries' /\ OneHolder'
  BY DEF InvEntryLock, TypeOKEntryLock, CallsHaveEntries, OneHolder, Holds, varsEntryLock,
    blockVars, walkVars
<1>2. ListsDisjoint' /\ FlagsMatch'
  BY DEF InvEntryLock, ListsDisjoint, FlagsMatch, Listed, Blocking, varsEntryLock, blockVars,
    walkVars
<1>3. QED BY <1>1, <1>2 DEF InvEntryLock

LEMMA NextInvEntryLock == InvEntryLock /\ [NextEntryLock]_varsEntryLock => InvEntryLock'
<1> SUFFICES ASSUME InvEntryLock, [NextEntryLock]_varsEntryLock PROVE InvEntryLock'
  OBVIOUS
<1>1. ASSUME NEW t \in Thread, WakeBlock(t) PROVE InvEntryLock'
  BY <1>1, WalkEndsKeeps, WakeSpinnerKeeps, WakeWaiterKeeps
<1>2. ASSUME NEW t \in Thread, Locking(t) PROVE InvEntryLock'
  BY <1>2, ReadEntryKeeps, SwapEntryKeeps, PushBlockKeeps, RecheckEntryKeeps,
     InitEventKeeps, StopSpinningKeeps, WaitReturnsKeeps DEF Locking
<1>3. ASSUME NEW t \in Thread, Waking(t) PROVE InvEntryLock'
  BY <1>1, <1>3, PopChainKeeps, SetEventKeeps DEF Waking
<1>4. QED BY <1>2, <1>3, BeginLockKeeps, FillEntryKeeps, UnlockKeeps,
             ExDestroyHandleKeeps, UnchangedInv DEF NextEntryLock, Finished

LEMMA InvEntryLockHolds == SpecEntryLock => []InvEntryLock
BY InitInvEntryLock, NextInvEntryLock, PTL DEF SpecEntryLock

(* The lock bit of an entry excludes: at most one thread holds the entry,  *)
(* and it is locked only while a thread holds it.  And ExfUnblockPushLock  *)
(* reads only wait blocks whose owners are still in                        *)
(* ExpBlockOnLockedHandleEntry, although it reads a block's next pointer   *)
(* and flags after others have popped and woken what was around it.        *)
THEOREM EntriesAreConsistent == SpecEntryLock => []EntriesConsistent
<1>1. InvEntryLock => EntriesConsistent
  <2> SUFFICES ASSUME InvEntryLock PROVE EntriesConsistent
    OBVIOUS
  <2>1. EntryExclusion
    BY DEF InvEntryLock, OneHolder, Holds, EntryExclusion, Holders
  <2>2. BlocksOfWaitingThreads
    BY DEF InvEntryLock, FlagsMatch, Listed, BlocksOfWaitingThreads
  <2>3. QED BY <2>1, <2>2 DEF InvEntryLock, EntriesConsistent
<1>2. QED BY <1>1, InvEntryLockHolds, PTL

(* A thread that waits is still to be woken by whoever has its block: its  *)
(* block is listed until the event is about to be set, and no event is set *)
(* twice.                                                                  *)
THEOREM EventsAreSetOnce ==
  SpecEntryLock => [](\A t \in Thread : pc[t] = "Wake" => /\ pc[Head(walk[t])] = "Wait"
                                                 /\ ~wakeEvent[Head(walk[t])])
<1>1. InvEntryLock => \A t \in Thread : pc[t] = "Wake" => /\ pc[Head(walk[t])] = "Wait"
                                                 /\ ~wakeEvent[Head(walk[t])]
  <2> SUFFICES ASSUME InvEntryLock, NEW t \in Thread, pc[t] = "Wake"
               PROVE  pc[Head(walk[t])] = "Wait" /\ ~wakeEvent[Head(walk[t])]
    OBVIOUS
  <2>1. walk[t] # <<>> /\ ~spinning[Head(walk[t])]
    BY DEF InvEntryLock, FlagsMatch
  <2>2. Head(walk[t]) \in Thread /\ Listed(Head(walk[t]))
    BY <2>1, Popped DEF InvEntryLock, TypeOKEntryLock, Listed
  <2>3. QED BY <2>1, <2>2 DEF InvEntryLock, FlagsMatch
<1>2. QED BY <1>1, InvEntryLockHolds, PTL

-----------------------------------------------------------------------------
(***************************************************************************)
(* Free lists.                                                             *)
(***************************************************************************)
HIDE EntryLockAssumption
USE HandleTableAssumption

(* s goes through n entries from head, along next, and ends at tail. *)
Path(s, n, head, tail, next) ==
  /\ s \in [1..n -> Entry]
  /\ \A i, j \in 1..n : s[i] = s[j] => i = j
  /\ head = IF n = 0 THEN tail ELSE s[1]
  /\ \A i \in 1..n : next[s[i]] = IF i = n THEN tail ELSE s[i + 1]

(* The entries of S are chained by next, from head to tail. *)
Linked(S, head, tail, next) ==
  \E n \in Nat : \E s : Path(s, n, head, tail, next) /\ S = {s[i] : i \in 1..n}

(* Entries are positive numbers, finitely many. *)
LEMMA NoEntryIsZero == 0 \notin Entry /\ GrantedAccess \notin Entry /\ Entry \subseteq Nat
<1>1. MaxPages * PageEntries - 1 \in Int
  OBVIOUS
<1>2. \A h \in Entry : h \in Nat /\ h >= 1
  BY <1>1 DEF Entry
<1>3. QED BY <1>2 DEF GrantedAccess

LEMMA EntriesFinite == IsFiniteSet(Entry)
<1>1. IsFiniteSet(1..(MaxPages * PageEntries - 1))
  BY FS_Interval, MaxPages * PageEntries - 1 \in Int
<1>2. Entry \in SUBSET (1..(MaxPages * PageEntries - 1))
  BY DEF Entry
<1>3. QED BY <1>1, <1>2, FS_Subset

(* Chains: what is in them, and how they are put together. *)
LEMMA LinkedEntries ==
  ASSUME NEW S, NEW head, NEW tail, NEW next, Linked(S, head, tail, next)
  PROVE  S \subseteq Entry
BY DEF Linked, Path

LEMMA LinkedEmpty ==
  ASSUME NEW tail, NEW next
  PROVE  Linked({}, tail, tail, next)
<1> DEFINE s == [i \in 1..0 |-> CHOOSE h \in Entry : TRUE]
<1>1. Path(s, 0, tail, tail, next)
  BY DEF Path
<1>2. {} = {s[i] : i \in 1..0}
  OBVIOUS
<1>3. QED BY <1>1, <1>2 DEF Linked

LEMMA LinkedOne ==
  ASSUME NEW h \in Entry, NEW next
  PROVE  Linked({h}, h, next[h], next)
<1> DEFINE s == [i \in 1..1 |-> h]
<1>1. Path(s, 1, h, next[h], next)
  BY DEF Path
<1>2. {h} = {s[i] : i \in 1..1}
  OBVIOUS
<1>3. QED BY <1>1, <1>2 DEF Linked

(* Entries that keep their links stay chained. *)
LEMMA LinkedFrame ==
  ASSUME NEW S, NEW head, NEW tail, NEW next, NEW other, Linked(S, head, tail, next),
         \A h \in S : other[h] = next[h]
  PROVE  Linked(S, head, tail, other)
<1>1. PICK n \in Nat : \E s : Path(s, n, head, tail, next) /\ S = {s[i] : i \in 1..n}
  BY DEF Linked
<1>2. PICK s : Path(s, n, head, tail, next) /\ S = {s[i] : i \in 1..n}
  BY <1>1
<1>3. Path(s, n, head, tail, other)
  BY <1>2 DEF Path
<1>4. QED BY ZenonT(60), <1>2, <1>3 DEF Linked

(* Two chains make one when the first ends where the second starts. *)
LEMMA LinkedJoin ==
  ASSUME NEW S, NEW T, NEW a, NEW b, NEW c, NEW next,
         Linked(S, a, b, next), Linked(T, b, c, next), S \intersect T = {}
  PROVE  Linked(S \union T, a, c, next)
<1>1. PICK n \in Nat : \E s : Path(s, n, a, b, next) /\ S = {s[i] : i \in 1..n}
  BY DEF Linked
<1>2. PICK s : Path(s, n, a, b, next) /\ S = {s[i] : i \in 1..n}
  BY <1>1
<1>3. PICK m \in Nat : \E r : Path(r, m, b, c, next) /\ T = {r[i] : i \in 1..m}
  BY DEF Linked
<1>4. PICK r : Path(r, m, b, c, next) /\ T = {r[i] : i \in 1..m}
  BY <1>3
<1> DEFINE q == [i \in 1..(n + m) |-> IF i <= n THEN s[i] ELSE r[i - n]]
<1>5. /\ \A i \in 1..n : i \in 1..(n + m) /\ q[i] = s[i]
      /\ \A i \in 1..m : i + n \in 1..(n + m) /\ q[i + n] = r[i]
      /\ \A i \in 1..(n + m) : i \in 1..n \/ (i - n \in 1..m /\ i = (i - n) + n)
  OBVIOUS
<1>6. q \in [1..(n + m) -> Entry]
  BY <1>2, <1>4 DEF Path
<1> HIDE DEF q
<1>7. S \union T = {q[i] : i \in 1..(n + m)}
  <2>1. \A x \in S \union T : \E i \in 1..(n + m) : x = q[i]
    BY <1>2, <1>4, <1>5
  <2>2. \A i \in 1..(n + m) : q[i] \in S \union T
    BY <1>2, <1>4, <1>5
  <2>3. QED BY <2>1, <2>2
<1>8. ASSUME NEW i \in 1..(n + m), NEW j \in 1..(n + m), q[i] = q[j]
      PROVE  i = j
  <2>1. CASE i \in 1..n /\ j \in 1..n
    BY <1>2, <1>5, <1>8, <2>1 DEF Path
  <2>2. CASE i - n \in 1..m /\ j - n \in 1..m
    <3>1. r[i - n] = r[j - n]
      BY <1>5, <1>8, <2>2
    <3>2. i - n = j - n
      BY <1>4, <2>2, <3>1 DEF Path
    <3>3. QED BY <3>2
  <2>3. CASE i \in 1..n /\ j - n \in 1..m
    BY <1>2, <1>4, <1>5, <1>8, <2>3
  <2>4. CASE i - n \in 1..m /\ j \in 1..n
    BY <1>2, <1>4, <1>5, <1>8, <2>4
  <2>5. QED BY <1>5, <2>1, <2>2, <2>3, <2>4
<1>9. a = IF n + m = 0 THEN c ELSE q[1]
  <2>1. CASE n = 0
    <3>1. a = b /\ b = IF m = 0 THEN c ELSE r[1]
      BY <1>2, <1>4, <2>1 DEF Path
    <3>2. m # 0 => q[1] = r[1]
      BY <1>5, <2>1
    <3>3. QED BY <2>1, <3>1, <3>2
  <2>2. CASE n # 0
    BY <1>2, <1>5, <2>2 DEF Path
  <2>3. QED BY <2>1, <2>2
<1>10. ASSUME NEW i \in 1..(n + m)
       PROVE  next[q[i]] = IF i = n + m THEN c ELSE q[i + 1]
  <2>1. CASE i \in 1..n /\ i # n
    <3>1. next[s[i]] = s[i + 1] /\ i + 1 \in 1..n
      BY <1>2, <2>1 DEF Path
    <3>2. QED BY <1>5, <2>1, <3>1
  <2>2. CASE i \in 1..n /\ i = n
    <3>1. next[s[i]] = b /\ b = IF m = 0 THEN c ELSE r[1]
      BY <1>2, <1>4, <2>2 DEF Path
    <3>2. m # 0 => q[1 + n] = r[1]
      BY <1>5
    <3>3. QED BY <1>5, <2>2, <3>1, <3>2
  <2>3. CASE i - n \in 1..m
    <3> DEFINE k == i - n
    <3>1. next[r[k]] = IF k = m THEN c ELSE r[k + 1]
      BY <1>4, <2>3 DEF Path
    <3>2. q[i] = r[k] /\ (k # m => q[i + 1] = r[k + 1])
      <4>1. k \in 1..m /\ i = k + n
        BY <2>3
      <4>2. q[k + n] = r[k]
        BY <1>5, <4>1
      <4>3. k # m => k + 1 \in 1..m
        BY <4>1
      <4>4. k # m => q[(k + 1) + n] = r[k + 1]
        BY <1>5, <4>3
      <4>5. (k + 1) + n = i + 1
        BY <4>1
      <4>6. QED BY <4>1, <4>2, <4>4, <4>5
    <3>3. QED BY <2>3, <3>1, <3>2
  <2>4. QED BY <1>5, <2>1, <2>2, <2>3
<1>11. Path(q, n + m, a, c, next)
  BY <1>6, <1>8, <1>9, <1>10 DEF Path
<1>12. n + m \in Nat
  OBVIOUS
<1>13. QED BY ZenonT(60), <1>7, <1>11, <1>12 DEF Linked

(* A chain that ends in 0 is empty or starts with an entry of it, and the  *)
(* rest is the chain from the entry's successor.                           *)
LEMMA LinkedHead ==
  ASSUME NEW S, NEW head, NEW next, Linked(S, head, 0, next)
  PROVE  /\ head = 0 <=> S = {}
         /\ head # 0 => /\ head \in S /\ head \in Entry
                        /\ next[head] \in Entry \union {0}
                        /\ Linked(S \ {head}, next[head], 0, next)
<1>1. PICK n \in Nat : \E s : Path(s, n, head, 0, next) /\ S = {s[i] : i \in 1..n}
  BY DEF Linked
<1>2. PICK s : Path(s, n, head, 0, next) /\ S = {s[i] : i \in 1..n}
  BY <1>1
<1>3. CASE n = 0
  BY <1>2, <1>3 DEF Path
<1>4. CASE n # 0
  <2>1. 1 \in 1..n /\ head = s[1] /\ head \in Entry /\ head \in S
    BY <1>2, <1>4 DEF Path
  <2>2. head # 0 /\ S # {}
    BY <2>1, NoEntryIsZero
  <2> DEFINE r == [i \in 1..(n - 1) |-> s[i + 1]]
  <2>3. /\ \A i \in 1..(n - 1) : i + 1 \in 1..n /\ r[i] = s[i + 1]
        /\ \A i \in 1..n : i = 1 \/ (i - 1 \in 1..(n - 1) /\ s[i] = r[i - 1])
        /\ n - 1 \in Nat
    BY <1>4
  <2>4. r \in [1..(n - 1) -> Entry]
    BY <1>2, <2>3 DEF Path
  <2> HIDE DEF r
  <2>5. S \ {head} = {r[i] : i \in 1..(n - 1)}
    <3>1. ASSUME NEW x \in S \ {head} PROVE \E i \in 1..(n - 1) : x = r[i]
      <4>1. PICK i \in 1..n : x = s[i]
        BY <1>2
      <4>2. i # 1
        BY <2>1, <4>1
      <4>3. QED BY <2>3, <4>1, <4>2
    <3>2. ASSUME NEW i \in 1..(n - 1) PROVE r[i] \in S \ {head}
      <4>1. i + 1 \in 1..n /\ r[i] = s[i + 1] /\ i + 1 # 1
        BY <2>3
      <4>2. s[i + 1] # s[1]
        BY <1>2, <2>1, <4>1 DEF Path
      <4>3. QED BY <1>2, <2>1, <4>1, <4>2
    <3>3. QED BY <3>1, <3>2
  <2>6. ASSUME NEW i \in 1..(n - 1), NEW j \in 1..(n - 1), r[i] = r[j]
        PROVE  i = j
    <3>1. i + 1 \in 1..n /\ j + 1 \in 1..n /\ s[i + 1] = s[j + 1]
      BY <2>3, <2>6
    <3>2. i + 1 = j + 1
      BY <1>2, <3>1 DEF Path
    <3>3. QED BY <3>2
  <2>7. next[head] = IF n - 1 = 0 THEN 0 ELSE r[1]
    <3>1. next[s[1]] = IF 1 = n THEN 0 ELSE s[1 + 1]
      BY <1>2, <2>1 DEF Path
    <3>2. n # 1 => 1 \in 1..(n - 1) /\ r[1] = s[1 + 1]
      BY <2>3
    <3>3. QED BY <2>1, <3>1, <3>2
  <2>8. ASSUME NEW i \in 1..(n - 1)
        PROVE  next[r[i]] = IF i = n - 1 THEN 0 ELSE r[i + 1]
    <3>1. i + 1 \in 1..n /\ r[i] = s[i + 1]
      BY <2>3
    <3>2. next[s[i + 1]] = IF i + 1 = n THEN 0 ELSE s[(i + 1) + 1]
      BY <1>2, <3>1 DEF Path
    <3>3. i # n - 1 => i + 1 \in 1..(n - 1) /\ r[i + 1] = s[(i + 1) + 1]
      BY <2>3
    <3>4. QED BY <3>1, <3>2, <3>3
  <2>9. Path(r, n - 1, next[head], 0, next)
    BY <2>4, <2>6, <2>7, <2>8 DEF Path
  <2>10. Linked(S \ {head}, next[head], 0, next)
    <3>1. n - 1 \in Nat
      BY <2>3
    <3>2. QED BY <2>5, <2>9, <3>1, Zenon DEF Linked
  <2>11. next[head] \in Entry \union {0}
    BY <2>3, <2>4, <2>7
  <2>12. QED BY <2>1, <2>2, <2>10, <2>11
<1>5. QED BY <1>3, <1>4

(* What the recursive function of the model computes along a path. *)
LEMMA AtPath ==
  ASSUME NEW n \in Nat, NEW s, NEW head, Path(s, n, head, 0, nextFree)
  PROVE  \A k \in Nat : At(head)[k] = IF k < n THEN s[k + 1] ELSE 0
<1> DEFINE Rec(at) == [k \in Nat |-> IF k = 0 THEN head
                                     ELSE IF at[k-1] \in Entry THEN nextFree[at[k-1]] ELSE 0]
           f == [k \in Nat |-> IF k < n THEN s[k + 1] ELSE 0]
           g == CHOOSE at : at = Rec(at)
<1>1. head = IF n = 0 THEN 0 ELSE s[1]
  BY DEF Path
<1>2. ASSUME NEW k \in Nat, k # 0
      PROVE  f[k] = IF f[k-1] \in Entry THEN nextFree[f[k-1]] ELSE 0
  <2>1. k - 1 \in Nat /\ (k - 1) + 1 = k
    BY <1>2
  <2>2. CASE k - 1 < n
    <3>1. k \in 1..n /\ f[k-1] = s[k]
      BY <2>1, <2>2
    <3>2. s[k] \in Entry /\ nextFree[s[k]] = IF k = n THEN 0 ELSE s[k + 1]
      BY <3>1 DEF Path
    <3>3. f[k] = IF k = n THEN 0 ELSE s[k + 1]
      BY <3>1
    <3>4. QED BY <3>1, <3>2, <3>3
  <2>3. CASE ~(k - 1 < n)
    <3>1. f[k-1] = 0 /\ f[k] = 0
      BY <2>1, <2>3
    <3>2. QED BY <3>1, NoEntryIsZero
  <2>4. QED BY <2>2, <2>3
<1>3. f[0] = head
  BY <1>1
<1>4. f = Rec(f)
  <2> HIDE DEF f
  <2>1. DOMAIN f = Nat /\ f = [k \in Nat |-> f[k]]
    BY DEF f
  <2>2. \A k \in Nat : f[k] = Rec(f)[k]
    BY <1>2, <1>3
  <2>3. QED BY <2>1, <2>2
<1> HIDE DEF f
<1>5. g = Rec(g)
  <2> HIDE DEF Rec
  <2>1. \E at : at = Rec(at)
    BY <1>4
  <2>2. QED BY <2>1
<1>6. At(head) = g
  BY DEF At
<1> HIDE DEF g
<1> DEFINE D == {k \in Nat : g[k] # f[k]}
<1>7. CASE D = {}
  <2>1. \A k \in Nat : f[k] = IF k < n THEN s[k + 1] ELSE 0
    BY DEF f
  <2>2. QED BY <1>6, <1>7, <2>1
<1>8. CASE D # {}
  <2>1. PICK k \in D : \A m \in D : ~(<<m, k>> \in OpToRel(<, Nat))
    BY <1>8, WFMin, NatLessThanWellFounded, D \subseteq Nat, Zenon
  <2>2. \A m \in D : ~(m < k)
    BY <2>1 DEF OpToRel
  <2>3. k \in Nat /\ g[k] # f[k]
    OBVIOUS
  <2>4. \A j \in Nat : g[j] = IF j = 0 THEN head
                              ELSE IF g[j-1] \in Entry THEN nextFree[g[j-1]] ELSE 0
    BY <1>5
  <2>5. k # 0
    BY <1>3, <2>3, <2>4
  <2>6. k - 1 \in Nat /\ k - 1 < k
    BY <2>3, <2>5
  <2>7. g[k-1] = f[k-1]
    BY <2>2, <2>6
  <2>8. g[k] = f[k]
    BY <1>2, <2>3, <2>4, <2>5, <2>7
  <2>9. QED BY <2>3, <2>8
<1>9. QED BY <1>7, <1>8

(* ChainOf is what is chained, and the chain ends within the table. *)
LEMMA ChainOfLinked ==
  ASSUME NEW S, NEW head, Linked(S, head, 0, nextFree)
  PROVE  ChainOf(head) = S /\ At(head)[Cardinality(Entry)] = 0
<1>1. PICK n \in Nat : \E s : Path(s, n, head, 0, nextFree) /\ S = {s[i] : i \in 1..n}
  BY DEF Linked
<1>2. PICK s : Path(s, n, head, 0, nextFree) /\ S = {s[i] : i \in 1..n}
  BY <1>1
<1> DEFINE c == Cardinality(Entry)
<1>3. c \in Nat /\ n <= c
  <2>1. c \in Nat
    BY EntriesFinite, FS_CardinalityType
  <2>2. s \in Injection(1..n, Entry)
    BY <1>2 DEF Path, Injection, IsInjective
  <2>3. Cardinality(1..n) <= c
    BY <2>2, EntriesFinite, FS_Injection
  <2>4. Cardinality(1..n) = n
    BY FS_Interval
  <2>5. QED BY <2>1, <2>3, <2>4
<1>4. \A k \in Nat : At(head)[k] = IF k < n THEN s[k + 1] ELSE 0
  BY <1>2, AtPath
<1> HIDE DEF c
<1>5. At(head)[c] = 0
  BY <1>3, <1>4
<1>6. {At(head)[k] : k \in 0..c} \ {0} = S
  <2>1. ASSUME NEW k \in 0..c, At(head)[k] # 0 PROVE At(head)[k] \in S
    <3>1. k < n /\ At(head)[k] = s[k + 1] /\ k + 1 \in 1..n
      BY <1>3, <1>4, <2>1
    <3>2. QED BY <1>2, <3>1
  <2>2. ASSUME NEW x \in S PROVE x # 0 /\ \E k \in 0..c : At(head)[k] = x
    <3>1. PICK i \in 1..n : x = s[i]
      BY <1>2
    <3>2. x # 0
      BY <1>2, <3>1, NoEntryIsZero DEF Path
    <3>3. i - 1 \in 0..c /\ i - 1 \in Nat /\ i - 1 < n /\ (i - 1) + 1 = i
      BY <1>3, <3>1
    <3>4. At(head)[i - 1] = s[i]
      BY <1>4, <3>3
    <3>5. QED BY <3>1, <3>2, <3>3, <3>4
  <2>3. QED BY <2>1, <2>2
<1>7. QED BY <1>5, <1>6 DEF ChainOf, c

(* Reversed turns a chain round, in front of another. *)
LEMMA LinkedReverse ==
  ASSUME NEW M, NEW head, NEW tail, Linked(M, head, 0, nextFree), head # 0
  PROVE  /\ Linked(M, LastOf(head), tail, Reversed(head, tail))
         /\ Reversed(head, tail) \in [Entry -> M \union {tail} \union {nextFree[h] : h \in Entry}]
         /\ \A h \in Entry \ M : Reversed(head, tail)[h] = nextFree[h]
<1>1. PICK n \in Nat : \E s : Path(s, n, head, 0, nextFree) /\ M = {s[i] : i \in 1..n}
  BY DEF Linked
<1>2. PICK s : Path(s, n, head, 0, nextFree) /\ M = {s[i] : i \in 1..n}
  BY <1>1
<1>3. /\ n # 0 /\ head = s[1] /\ 1 \in 1..n /\ n \in 1..n
      /\ \A i \in 1..n : s[i] \in Entry /\ s[i] # 0
      /\ \A i, j \in 1..n : s[i] = s[j] => i = j
      /\ \A i \in 1..n : nextFree[s[i]] = IF i = n THEN 0 ELSE s[i + 1]
  BY <1>2, NoEntryIsZero DEF Path
<1>4. ChainOf(head) = M
  BY ChainOfLinked
<1>5. LastOf(head) = s[n]
  <2>1. \A h \in M : nextFree[h] = 0 <=> h = s[n]
    <3>1. ASSUME NEW i \in 1..n PROVE nextFree[s[i]] = 0 <=> s[i] = s[n]
      <4>1. i # n => i + 1 \in 1..n
        OBVIOUS
      <4>2. QED BY <1>3, <4>1
    <3>2. QED BY <1>2, <3>1
  <2>2. s[n] \in M
    BY <1>2, <1>3
  <2>3. QED BY <1>4, <2>1, <2>2 DEF LastOf
<1> DEFINE R == Reversed(head, tail)
<1>6. ASSUME NEW i \in 1..n
      PROVE  R[s[i]] = IF i = 1 THEN tail ELSE s[i - 1]
  <2>1. s[i] \in Entry /\ s[i] \in M
    BY <1>2, <1>3
  <2>2. CASE i = 1
    BY <1>3, <2>1, <2>2 DEF Reversed
  <2>3. CASE i # 1
    <3>1. i - 1 \in 1..n /\ (i - 1) + 1 = i /\ i - 1 # n
      BY <2>3
    <3>2. s[i] # head
      BY <1>3, <2>3
    <3>3. nextFree[s[i - 1]] = s[i] /\ s[i - 1] \in M
      BY <1>2, <1>3, <3>1
    <3>4. ASSUME NEW g \in M, nextFree[g] = s[i] PROVE g = s[i - 1]
      <4>1. PICK j \in 1..n : g = s[j]
        BY <1>2
      <4>2. nextFree[s[j]] = IF j = n THEN 0 ELSE s[j + 1]
        BY <1>3
      <4>3. j # n /\ s[j + 1] = s[i]
        BY <1>3, <3>4, <4>1, <4>2
      <4>4. j + 1 \in 1..n
        BY <4>3
      <4>5. j + 1 = i
        BY <1>3, <4>3, <4>4
      <4>6. QED BY <4>1, <4>5
    <3>5. (CHOOSE g \in M : nextFree[g] = s[i]) = s[i - 1]
      BY <3>3, <3>4
    <3>6. R[s[i]] = CHOOSE g \in ChainOf(head) : nextFree[g] = s[i]
      BY <1>4, <2>1, <3>2 DEF Reversed
    <3>7. QED BY <1>4, <2>3, <3>5, <3>6
  <2>4. QED BY <2>2, <2>3
<1>7. \A h \in Entry \ M : R[h] = nextFree[h]
  <2>1. head \in M
    BY <1>2, <1>3
  <2>2. QED BY <1>4, <2>1 DEF Reversed
<1>8. R \in [Entry -> M \union {tail} \union {nextFree[h] : h \in Entry}]
  <2>1. R = [h \in Entry |-> R[h]]
    BY DEF Reversed
  <2>2. ASSUME NEW h \in Entry
        PROVE  R[h] \in M \union {tail} \union {nextFree[g] : g \in Entry}
    <3>1. CASE h \in M
      <4>1. PICK i \in 1..n : h = s[i]
        BY <1>2, <3>1
      <4>2. i # 1 => s[i - 1] \in M
        <5>1. i # 1 => i - 1 \in 1..n
          OBVIOUS
        <5>2. QED BY <1>2, <5>1
      <4>3. QED BY <1>6, <4>1, <4>2
    <3>2. CASE h \notin M
      BY <1>7, <3>2
    <3>3. QED BY <3>1, <3>2
  <2> HIDE DEF R
  <2>3. QED BY <2>1, <2>2
<1> HIDE DEF R
<1> DEFINE r == [i \in 1..n |-> s[n + 1 - i]]
<1>9. \A i \in 1..n : n + 1 - i \in 1..n /\ r[i] = s[n + 1 - i] /\ n + 1 - (n + 1 - i) = i
  OBVIOUS
<1>10. r \in [1..n -> Entry]
  BY <1>3, <1>9
<1> HIDE DEF r
<1>11. M = {r[i] : i \in 1..n}
  <2>1. \A i \in 1..n : s[i] = r[n + 1 - i]
    BY <1>9
  <2>2. QED BY <1>2, <1>9, <2>1
<1>12. ASSUME NEW i \in 1..n, NEW j \in 1..n, r[i] = r[j] PROVE i = j
  <2>1. n + 1 - i \in 1..n /\ n + 1 - j \in 1..n /\ s[n + 1 - i] = s[n + 1 - j]
    BY <1>9, <1>12
  <2>2. n + 1 - i = n + 1 - j
    BY <1>3, <2>1
  <2>3. QED BY <2>2
<1>13. r[1] = s[n]
  BY <1>3, <1>9
<1>14. ASSUME NEW i \in 1..n PROVE R[r[i]] = IF i = n THEN tail ELSE r[i + 1]
  <2> DEFINE j == n + 1 - i
  <2>1. j \in 1..n /\ r[i] = s[j]
    BY <1>9
  <2>2. R[s[j]] = IF j = 1 THEN tail ELSE s[j - 1]
    BY <1>6, <2>1
  <2>3. j = 1 <=> i = n
    OBVIOUS
  <2>4. i # n => i + 1 \in 1..n /\ r[i + 1] = s[n + 1 - (i + 1)] /\ n + 1 - (i + 1) = j - 1
    BY <1>9
  <2>5. QED BY <2>1, <2>2, <2>3, <2>4
<1>15. Path(r, n, LastOf(head), tail, R)
  BY <1>3, <1>5, <1>10, <1>12, <1>13, <1>14 DEF Path
<1>16. Linked(M, LastOf(head), tail, R)
  BY <1>11, <1>15, Zenon DEF Linked
<1>17. QED BY <1>7, <1>8, <1>16 DEF R

(* Pages: which entries a page has, and that they are chained in order. *)
LEMMA PageEntry ==
  ASSUME NEW p \in Nat, p < MaxPages, NEW h \in Int
  PROVE  h \in Page(p) <=> \E i \in 1..(PageEntries - 1) : h = p * PageEntries + i
<1> DEFINE M == PageEntries
<1>1. M \in Nat /\ M > 1
  OBVIOUS
<1>2. ASSUME NEW i \in 1..(M - 1), h = p * M + i
      PROVE  h \in Page(p)
  <2>1. p * M \in Nat /\ MaxPages * M \in Nat /\ p * M + M <= MaxPages * M
    <3>1. p + 1 <= MaxPages /\ p + 1 \in Nat /\ MaxPages \in Nat
      OBVIOUS
    <3>2. (p + 1) * M = p * M + M /\ p * M \in Nat /\ MaxPages * M \in Nat
      BY Z3
    <3>3. (p + 1) * M <= MaxPages * M
      BY <3>1, Z3
    <3>4. QED BY <3>2, <3>3
  <2>2. h \div M = p /\ h % M = i
    <3> DEFINE q == h \div M
    <3>1. q \in Int /\ M * q <= h /\ h < M * q + M
      BY <2>1, Z3
    <3> HIDE DEF q
    <3>2. q = p
      <4>1. ~(q < p)
        <5>1. SUFFICES ASSUME q + 1 <= p PROVE FALSE
          BY <3>1
        <5>2. M * q + M <= p * M
          BY <3>1, <5>1, Z3
        <5>3. QED BY <1>2, <2>1, <3>1, <5>2
      <4>2. ~(q > p)
        <5>1. SUFFICES ASSUME q >= p + 1 PROVE FALSE
          BY <3>1
        <5>2. M * q >= p * M + M
          BY <3>1, <5>1, Z3
        <5>3. QED BY <1>2, <2>1, <3>1, <5>2
      <4>3. QED BY <3>1, <4>1, <4>2
    <3>3. h % M = i
      BY <1>2, <2>1, Z3
    <3>4. QED BY <3>2, <3>3 DEF q
  <2>3. h \in 1..(MaxPages * M - 1) /\ h % M # 0
    BY <1>2, <2>1, <2>2
  <2>4. QED BY <2>2, <2>3 DEF Page, Entry
<1>3. ASSUME h \in Page(p)
      PROVE  \E i \in 1..(M - 1) : h = p * M + i
  <2>1. h \div M = p /\ h % M # 0
    BY <1>3 DEF Page, Entry
  <2> DEFINE q == h \div M
             i == h - M * q
  <2>2. q \in Int /\ M * q <= h /\ h < M * q + M
    BY Z3
  <2> HIDE DEF q
  <2>3. i \in 0..(M - 1) /\ h = M * q + i
    BY <2>2, Z3
  <2> HIDE DEF i
  <2>4. h % M = i
    BY <2>2, <2>3, Z3
  <2>5. q = p
    BY <2>1 DEF q
  <2>6. h = p * M + i
    BY <2>2, <2>3, <2>5
  <2>7. i \in 1..(M - 1)
    BY <2>1, <2>3, <2>4
  <2>8. QED BY <2>6, <2>7
<1>4. QED BY <1>2, <1>3

LEMMA PageType == \A p : Page(p) \subseteq Entry /\ Page(p) \subseteq Int
<1>1. \A p : Page(p) \subseteq Entry
  BY DEF Page
<1>2. Entry \subseteq Int
  BY NoEntryIsZero
<1>3. QED BY <1>1, <1>2

LEMMA LinkedPage ==
  ASSUME NEW p \in Nat, p < MaxPages, NEW next, NEW tail
  PROVE  /\ p * PageEntries + 1 \in Page(p)
         /\ Linked(Page(p), p * PageEntries + 1, tail, Chained(next, p, tail))
<1> DEFINE n == PageEntries - 1
           c == p * PageEntries
           s == [i \in 1..n |-> c + i]
           C == Chained(next, p, tail)
<1>1. n \in Nat /\ n > 0 /\ c \in Nat
  <2>1. \A a, b \in Nat : a * b \in Nat
    BY Z3
  <2>2. QED BY <2>1
<1>2. /\ \A i \in 1..n : c + i \in Page(p) /\ s[i] = c + i
      /\ \A h \in Page(p) : \E i \in 1..n : h = s[i]
      /\ c + (n + 1) \notin Page(p)
  <2>1. \A h \in Int : h \in Page(p) <=> \E i \in 1..n : h = c + i
    BY PageEntry
  <2>2. Page(p) \subseteq Int
    BY PageType
  <2> HIDE DEF c
  <2>3. c + (n + 1) \in Int /\ ~(\E i \in 1..n : c + (n + 1) = c + i)
    BY <1>1
  <2>4. c + (n + 1) \notin Page(p)
    BY <2>1, <2>3
  <2>5. \A i \in 1..n : c + i \in Page(p) /\ s[i] = c + i
    BY <1>1, <2>1
  <2>6. \A h \in Page(p) : \E i \in 1..n : h = s[i]
    BY <2>1, <2>2, <2>5
  <2>7. QED BY <2>4, <2>5, <2>6
<1> HIDE DEF n, c, s
<1>3. Page(p) = {s[i] : i \in 1..n}
  BY <1>2
<1>4. s \in [1..n -> Entry]
  BY <1>2 DEF s, Page
<1>5. \A i, j \in 1..n : s[i] = s[j] => i = j
  BY <1>1, <1>2
<1>6. ASSUME NEW i \in 1..n
      PROVE  C[s[i]] = IF i = n THEN tail ELSE s[i + 1]
  <2>1. s[i] = c + i /\ s[i] \in Entry /\ s[i] \in Page(p) /\ s[i] + 1 = c + (i + 1)
    BY <1>1, <1>2, <1>4
  <2>2. C[s[i]] = IF s[i] + 1 \in Page(p) THEN s[i] + 1 ELSE tail
    BY <2>1 DEF Chained
  <2>3. CASE i = n
    BY <1>2, <2>1, <2>2, <2>3
  <2>4. CASE i # n
    <3>1. i + 1 \in 1..n
      BY <1>1, <2>4
    <3>2. s[i + 1] = c + (i + 1) /\ s[i + 1] \in Page(p)
      BY <1>2, <3>1
    <3>3. QED BY <2>1, <2>2, <2>4, <3>2
  <2>5. QED BY <2>3, <2>4
<1>7. 1 \in 1..n /\ s[1] = c + 1
  BY <1>1, <1>2
<1> HIDE DEF C
<1>8. Path(s, n, c + 1, tail, C)
  BY <1>1, <1>4, <1>5, <1>6, <1>7 DEF Path
<1>9. Linked(Page(p), c + 1, tail, C)
  <2>1. n \in Nat
    BY <1>1
  <2>2. QED BY <1>3, <1>8, <2>1, Zenon DEF Linked
<1>10. QED BY <1>2, <1>7, <1>9 DEF c, C
-----------------------------------------------------------------------------
(* What threads do, by where they are. *)
Popping(t)   == pc[t] \in {"ReadNext", "Pop"}
Sharing(t)   == pc[t] \in {"Recheck", "ReadNext", "Pop", "UnlockRetry", "UnlockCreate"}
Handing(t)   == pc[t] \in {"UnlockCreate", "Create", "FreeFirst", "FreeLast"}
WithEntry(t) == pc[t] \in {"LockEntry", "UnlockFound", "Create", "FreeFirst", "FreeLast"} \/ Sharing(t)
Draining(t)  == pc[t] \in {"Drain", "Move", "Reverse", "ReverseAll"}
Expanding(t) == pc[t] \in {"Look", "TakeLast", "Grow", "UnlockFound", "UnlockGrown", "UnlockFailed"}
                  \/ Draining(t)

(* Locks are held where the code holds them, and only the expander moves   *)
(* entries, once it has seen all locks free.                               *)
LocksMatch ==
  /\ \A t \in Thread : WithEntry(t) => old[t] \in Entry
  /\ \A t \in Thread, i \in LockIndex : t \in sharers[i] <=> Sharing(t) /\ i = Idx(old[t])
  /\ \A t \in Thread : expander = t <=> Expanding(t)
  /\ expander # NoThread => sharers[0] = {}
  /\ \A t \in Thread : Draining(t) => moving # 0
  /\ moving # 0 => \E t \in Thread : Draining(t)
  /\ \A t \in Thread : pc[t] \in {"Move", "Reverse", "ReverseAll"} => drained = LockIndex

(* F, L and M are the entries of the free list, of the alternate list and  *)
(* of the chain that the expander moves.                                   *)
Chains(F, L, M) ==
  /\ Linked(F, firstFree, 0, nextFree)
  /\ Linked(L, lastFree, 0, nextFree)
  /\ Linked(M, moving, 0, nextFree)

Placed(F, L, M) ==
  /\ F \intersect L = {} /\ F \intersect M = {} /\ L \intersect M = {}
  /\ (F \union L \union M) \intersect inUse = {}
  /\ \A t \in Thread : Handing(t) => old[t] \notin F \union L \union M \union inUse
  /\ \A t, u \in Thread : Handing(t) /\ Handing(u) /\ old[t] = old[u] => t = u
  /\ \A h \in Entry : (\E p \in 0..(pages - 1) : h \in Page(p)) <=>
       \/ h \in F \union L \union M \union inUse
       \/ \E t \in Thread : Handing(t) /\ old[t] = h

(* A thread that is about to pop an entry has its lock.  Until it gives    *)
(* the lock back, the entry does not return to the free list: a thread     *)
(* that frees it puts it on the alternate list, and the expander cannot    *)
(* have seen its lock free since it was moved from there.                  *)
Stable(F, M) ==
  \A t \in Thread : Popping(t) =>
    /\ \E p \in 0..(pages - 1) : old[t] \in Page(p)
    /\ pc[t] = "Pop" /\ old[t] \in F => new[t] = nextFree[old[t]]
    /\ \A u \in Thread : pc[u] = "FreeFirst" => old[u] # old[t]
    /\ old[t] \in M => Idx(old[t]) \notin drained

Sound(F, L, M) == TypeOK /\ LocksMatch /\ Chains(F, L, M) /\ Placed(F, L, M) /\ Stable(F, M)
Inv == \E F, L, M : Sound(F, L, M)

LEMMA IdxType == \A h \in Entry \union {0} : Idx(h) \in LockIndex
<1>1. \A h \in Nat : h % Locks \in 0..(Locks - 1)
  OBVIOUS
<1>2. QED BY <1>1, NoEntryIsZero DEF Idx, LockIndex

LEMMA SoundGives ==
  ASSUME NEW F, NEW L, NEW M, Sound(F, L, M)
  PROVE  Inv
BY Zenon DEF Inv

LEMMA InitInv == Init => Inv
<1> SUFFICES ASSUME Init PROVE Inv
  OBVIOUS
<1> DEFINE z == [h \in Entry |-> 0]
<1>1. 0 \in Nat /\ 0 < MaxPages /\ 0 * PageEntries + 1 = 1
  OBVIOUS
<1>2. 1 \in Page(0) /\ Linked(Page(0), 1, 0, Chained(z, 0, 0))
  BY <1>1, LinkedPage, Zenon
<1>3. nextFree \in [Entry -> Entry \union {0, GrantedAccess}]
  <2>1. nextFree = Chained(z, 0, 0)
    BY DEF Init
  <2>2. \A h \in Page(0) : h \in Entry
    BY DEF Page
  <2>3. QED BY <2>1, <2>2 DEF Chained
<1>4. TypeOK
  <2>1. 1 \in Entry
    BY <1>2 DEF Page
  <2>2. pages \in 1..MaxPages
    BY DEF Init
  <2>3. QED BY <1>3, <2>1, <2>2 DEF Init, TypeOK
<1>5. LocksMatch
  BY DEF Init, LocksMatch, Sharing, WithEntry, Draining, Expanding
<1>6. Chains(Page(0), {}, {})
  BY <1>2, LinkedEmpty DEF Init, Chains
<1>7. Placed(Page(0), {}, {})
  <2>1. 0..(pages - 1) = {0}
    BY DEF Init
  <2>2. QED BY <2>1 DEF Init, Placed, Handing
<1>8. Stable(Page(0), {})
  BY DEF Init, Stable, Popping
<1>9. QED BY <1>4, <1>5, <1>6, <1>7, <1>8, SoundGives DEF Sound
-----------------------------------------------------------------------------
(* Steps that leave the lists and the entries as they are. *)
LEMMA ChainsKept ==
  ASSUME NEW F, NEW L, NEW M, Chains(F, L, M),
         UNCHANGED <<firstFree, lastFree, moving, nextFree>>
  PROVE  Chains(F, L, M)'
BY DEF Chains

LEMMA PlacedKept ==
  ASSUME NEW F, NEW L, NEW M, Placed(F, L, M), UNCHANGED <<pages, inUse>>,
         \A t \in Thread : /\ Handing(t)' <=> Handing(t)
                           /\ Handing(t) => old'[t] = old[t]
  PROVE  Placed(F, L, M)'
<1> USE DEF Placed
<1>1. \A t \in Thread : Handing(t)' => old'[t] \notin F \union L \union M \union inUse'
  OBVIOUS
<1>2. \A t, u \in Thread : Handing(t)' /\ Handing(u)' /\ old'[t] = old'[u] => t = u
  OBVIOUS
<1>3. \A h \in Entry : (\E t \in Thread : Handing(t)' /\ old'[t] = h)
                          <=> (\E t \in Thread : Handing(t) /\ old[t] = h)
  OBVIOUS
<1>4. QED BY <1>1, <1>2, <1>3

(* What a thread knows when it finds its entry at the head of the list.    *)
LEMMA HeadFacts ==
  ASSUME NEW F, NEW L, NEW M, Sound(F, L, M), firstFree # 0
  PROVE  /\ firstFree \in F /\ firstFree \in Entry
         /\ firstFree \notin L \union M \union inUse
         /\ \A u \in Thread : Handing(u) => old[u] # firstFree
         /\ \E p \in 0..(pages - 1) : firstFree \in Page(p)
<1>1. firstFree \in F /\ firstFree \in Entry
  BY LinkedHead DEF Sound, Chains
<1>2. QED BY <1>1 DEF Sound, Placed

(* The loop of an allocation starts, or starts again. *)
LEMMA AllocateInv ==
  ASSUME NEW F, NEW L, NEW M, Sound(F, L, M), NEW t \in Thread,
         BeginAllocate(t) \/ Retry(t) \/ ReadAgain(t)
  PROVE  Inv'
<1> USE DEF Goto, Return, listVars, lockVars, moveVars
<1>1. /\ pc[t] \in {"Idle", "Allocate", "Grown", "Failed"}
      /\ UNCHANGED <<listVars, lockVars, inUse, new, moveVars>>
      /\ old' = [old EXCEPT ![t] = firstFree]
      /\ \E w \in {"LockTable", "LockEntry", "Idle"} :
           pc' = [pc EXCEPT ![t] = w] /\ (w = "LockEntry" => firstFree # 0)
  BY DEF BeginAllocate, Retry, ReadAgain
<1>2. PICK w \in {"LockTable", "LockEntry", "Idle"} :
           pc' = [pc EXCEPT ![t] = w] /\ (w = "LockEntry" => firstFree # 0)
  BY <1>1
<1>3. TypeOK /\ LocksMatch /\ Chains(F, L, M) /\ Placed(F, L, M) /\ Stable(F, M)
  BY DEF Sound
<1>4. /\ \A u \in Thread : u # t => pc'[u] = pc[u] /\ old'[u] = old[u]
      /\ pc'[t] = w /\ old'[t] = firstFree
  BY <1>1, <1>2, <1>3 DEF TypeOK
<1>5. TypeOK'
  BY <1>1, <1>2, <1>3 DEF TypeOK
<1>6. LocksMatch'
  <2>1. w = "LockEntry" => firstFree \in Entry
    BY <1>2, HeadFacts
  <2>2. QED BY <1>1, <1>3, <1>4, <2>1 DEF LocksMatch, WithEntry, Sharing, Expanding, Draining
<1>7. Chains(F, L, M)'
  BY <1>1, <1>3, ChainsKept
<1>8. Placed(F, L, M)'
  <2>1. \A u \in Thread : /\ Handing(u)' <=> Handing(u)
                          /\ Handing(u) => old'[u] = old[u]
    BY <1>1, <1>4 DEF Handing
  <2>2. QED BY <1>1, <1>3, <2>1, PlacedKept
<1>9. Stable(F, M)'
  BY <1>1, <1>3, <1>4 DEF Stable, Popping
<1>10. Sound(F, L, M)'
  BY <1>5, <1>6, <1>7, <1>8, <1>9 DEF Sound
<1>11. QED BY <1>10, Zenon DEF Inv

(* A step of a thread that takes or gives no entry. *)
LEMMA QuietInv ==
  ASSUME NEW F, NEW L, NEW M, Sound(F, L, M), NEW t \in Thread,
         UNCHANGED <<firstFree, lastFree, nextFree, pages, inUse, moving>>,
         \A u \in Thread : u # t => pc'[u] = pc[u] /\ old'[u] = old[u],
         Handing(t)' <=> Handing(t), Handing(t) => old'[t] = old[t],
         TypeOK', LocksMatch', Stable(F, M)'
  PROVE  Inv'
<1>1. Chains(F, L, M)'
  BY ChainsKept DEF Sound
<1>2. Placed(F, L, M)'
  <2>1. \A u \in Thread : /\ Handing(u)' <=> Handing(u)
                          /\ Handing(u) => old'[u] = old[u]
    BY DEF Handing
  <2>2. QED BY <2>1, PlacedKept DEF Sound
<1>3. Sound(F, L, M)'
  BY <1>1, <1>2 DEF Sound
<1>4. QED BY <1>3, Zenon DEF Inv

LEMMA LockSharedInv ==
  ASSUME NEW F, NEW L, NEW M, Sound(F, L, M), NEW t \in Thread, LockShared(t)
  PROVE  Inv'
<1> USE DEF Goto, listVars, lockVars, moveVars
<1>1. TypeOK /\ LocksMatch /\ Stable(F, M)
  BY DEF Sound
<1> DEFINE i == Idx(old[t])
<1>2. /\ pc[t] = "LockEntry" /\ pc' = [pc EXCEPT ![t] = "Recheck"]
      /\ sharers' = [sharers EXCEPT ![i] = @ \union {t}]
      /\ i = 0 => expander = NoThread
      /\ UNCHANGED <<listVars, expander, inUse, old, new, moveVars>>
  BY DEF LockShared
<1>3. i \in LockIndex /\ old[t] \in Entry
  BY <1>1, <1>2, IdxType DEF LocksMatch, WithEntry
<1>4. /\ \A u \in Thread : u # t => pc'[u] = pc[u]
      /\ pc'[t] = "Recheck"
      /\ sharers'[i] = sharers[i] \union {t}
      /\ \A j \in LockIndex : j # i => sharers'[j] = sharers[j]
  BY <1>1, <1>2, <1>3 DEF TypeOK
<1>5. TypeOK'
  BY <1>1, <1>2, <1>3 DEF TypeOK
<1>6. LocksMatch'
  <2>1. \A u \in Thread, j \in LockIndex : u \in sharers'[j] <=> Sharing(u)' /\ j = Idx(old'[u])
    BY <1>1, <1>2, <1>3, <1>4 DEF LocksMatch, Sharing
  <2>2. expander' # NoThread => sharers'[0] = {}
    <3>1. 0 \in LockIndex
      BY IdxType DEF LockIndex
    <3>2. QED BY <1>1, <1>2, <1>4, <3>1 DEF LocksMatch
  <2>3. QED BY <1>1, <1>2, <1>3, <1>4, <2>1, <2>2 DEF LocksMatch, WithEntry, Sharing,
    Expanding, Draining
<1>7. Stable(F, M)'
  BY <1>1, <1>2, <1>4 DEF Stable, Popping
<1>8. QED
  BY <1>2, <1>4, <1>5, <1>6, <1>7, QuietInv DEF Handing

LEMMA RecheckInv ==
  ASSUME NEW F, NEW L, NEW M, Sound(F, L, M), NEW t \in Thread, Recheck(t)
  PROVE  Inv'
<1> USE DEF Goto, listVars, lockVars, moveVars
<1>1. TypeOK /\ LocksMatch /\ Stable(F, M)
  BY DEF Sound
<1>2. /\ pc[t] = "Recheck"
      /\ pc' = [pc EXCEPT ![t] = IF firstFree = old[t] THEN "ReadNext" ELSE "UnlockRetry"]
      /\ UNCHANGED <<listVars, lockVars, inUse, old, new, moveVars>>
  BY DEF Recheck
<1>3. /\ \A u \in Thread : u # t => pc'[u] = pc[u]
      /\ pc'[t] = IF firstFree = old[t] THEN "ReadNext" ELSE "UnlockRetry"
  BY <1>1, <1>2 DEF TypeOK
<1>4. TypeOK'
  BY <1>1, <1>2 DEF TypeOK
<1>5. LocksMatch'
  BY <1>1, <1>2, <1>3 DEF LocksMatch, WithEntry, Sharing, Expanding, Draining
<1>6. Stable(F, M)'
  <2>1. firstFree = old[t] =>
          /\ old[t] \notin M /\ \A u \in Thread : Handing(u) => old[u] # old[t]
          /\ \E p \in 0..(pages - 1) : old[t] \in Page(p)
    <3>1. old[t] # 0
      BY <1>1, <1>2, NoEntryIsZero DEF LocksMatch, WithEntry, Sharing
    <3>2. QED BY <3>1, HeadFacts
  <2>2. QED BY <1>1, <1>2, <1>3, <2>1 DEF Stable, Popping, Handing
<1>7. QED
  BY <1>2, <1>3, <1>4, <1>5, <1>6, QuietInv DEF Handing

LEMMA ReadNextInv ==
  ASSUME NEW F, NEW L, NEW M, Sound(F, L, M), NEW t \in Thread, ReadNext(t)
  PROVE  Inv'
<1> USE DEF Goto, listVars, lockVars, moveVars
<1>1. TypeOK /\ LocksMatch /\ Stable(F, M)
  BY DEF Sound
<1>2. /\ pc[t] = "ReadNext" /\ pc' = [pc EXCEPT ![t] = "Pop"]
      /\ new' = [new EXCEPT ![t] = nextFree[old[t]]]
      /\ UNCHANGED <<listVars, lockVars, inUse, old, moveVars>>
  BY DEF ReadNext
<1>3. /\ \A u \in Thread : u # t => pc'[u] = pc[u] /\ new'[u] = new[u]
      /\ pc'[t] = "Pop" /\ new'[t] = nextFree[old[t]]
  BY <1>1, <1>2 DEF TypeOK
<1>4. old[t] \in Entry
  BY <1>1, <1>2 DEF LocksMatch, WithEntry, Sharing
<1>5. TypeOK'
  BY <1>1, <1>2, <1>4 DEF TypeOK
<1>6. LocksMatch'
  BY <1>1, <1>2, <1>3 DEF LocksMatch, WithEntry, Sharing, Expanding, Draining
<1>7. Stable(F, M)'
  BY <1>1, <1>2, <1>3 DEF Stable, Popping
<1>8. QED
  BY <1>2, <1>3, <1>5, <1>6, <1>7, QuietInv DEF Handing

LEMMA UnlockSharedInv ==
  ASSUME NEW F, NEW L, NEW M, Sound(F, L, M), NEW t \in Thread, UnlockShared(t)
  PROVE  Inv'
<1> USE DEF Goto, listVars, lockVars, moveVars
<1>1. TypeOK /\ LocksMatch /\ Stable(F, M)
  BY DEF Sound
<1> DEFINE i == Idx(old[t])
<1>2. /\ pc[t] \in {"UnlockRetry", "UnlockCreate"}
      /\ sharers' = [sharers EXCEPT ![i] = @ \ {t}]
      /\ new' = [new EXCEPT ![t] = 0]
      /\ pc' = [pc EXCEPT ![t] = IF pc[t] = "UnlockCreate" THEN "Create" ELSE "Allocate"]
      /\ old' = IF pc[t] = "UnlockCreate" THEN old ELSE [old EXCEPT ![t] = 0]
      /\ UNCHANGED <<listVars, expander, inUse, moveVars>>
  BY DEF UnlockShared
<1>3. i \in LockIndex /\ old[t] \in Entry
  BY <1>1, <1>2, IdxType DEF LocksMatch, WithEntry, Sharing
<1>4. /\ \A u \in Thread : u # t => pc'[u] = pc[u] /\ old'[u] = old[u] /\ new'[u] = new[u]
      /\ pc'[t] = IF pc[t] = "UnlockCreate" THEN "Create" ELSE "Allocate"
      /\ pc[t] = "UnlockCreate" => old'[t] = old[t]
      /\ sharers'[i] = sharers[i] \ {t}
      /\ \A j \in LockIndex : j # i => sharers'[j] = sharers[j]
  BY <1>1, <1>2, <1>3 DEF TypeOK
<1>5. TypeOK'
  BY <1>1, <1>2, <1>3 DEF TypeOK
<1>6. LocksMatch'
  <2>1. \A u \in Thread, j \in LockIndex : u \in sharers'[j] <=> Sharing(u)' /\ j = Idx(old'[u])
    BY <1>1, <1>2, <1>3, <1>4 DEF LocksMatch, Sharing
  <2>2. expander' # NoThread => sharers'[0] = {}
    <3>1. 0 \in LockIndex
      BY IdxType DEF LockIndex
    <3>2. QED BY <1>1, <1>2, <1>4, <3>1 DEF LocksMatch
  <2>3. QED BY <1>1, <1>2, <1>3, <1>4, <2>1, <2>2 DEF LocksMatch, WithEntry, Sharing,
    Expanding, Draining
<1>7. Stable(F, M)'
  BY <1>1, <1>2, <1>4 DEF Stable, Popping
<1>8. QED
  BY <1>2, <1>4, <1>5, <1>6, <1>7, QuietInv DEF Handing

LEMMA LockExclusiveInv ==
  ASSUME NEW F, NEW L, NEW M, Sound(F, L, M), NEW t \in Thread, LockExclusive(t)
  PROVE  Inv'
<1> USE DEF Goto, listVars, lockVars, moveVars
<1>1. TypeOK /\ LocksMatch /\ Stable(F, M)
  BY DEF Sound
<1>2. /\ pc[t] = "LockTable" /\ pc' = [pc EXCEPT ![t] = "Look"]
      /\ expander = NoThread /\ sharers[0] = {} /\ expander' = t
      /\ UNCHANGED <<listVars, sharers, inUse, old, new, moveVars>>
  BY DEF LockExclusive
<1>3. /\ \A u \in Thread : u # t => pc'[u] = pc[u]
      /\ pc'[t] = "Look"
  BY <1>1, <1>2 DEF TypeOK
<1>4. TypeOK'
  BY <1>1, <1>2 DEF TypeOK
<1>5. LocksMatch'
  BY <1>1, <1>2, <1>3 DEF LocksMatch, WithEntry, Sharing, Expanding, Draining
<1>6. Stable(F, M)'
  BY <1>1, <1>2, <1>3 DEF Stable, Popping
<1>7. QED
  BY <1>2, <1>3, <1>4, <1>5, <1>6, QuietInv DEF Handing

LEMMA LookInv ==
  ASSUME NEW F, NEW L, NEW M, Sound(F, L, M), NEW t \in Thread, Look(t)
  PROVE  Inv'
<1> USE DEF Goto, listVars, lockVars, moveVars
<1>1. TypeOK /\ LocksMatch /\ Stable(F, M)
  BY DEF Sound
<1>2. /\ pc[t] = "Look" /\ old' = [old EXCEPT ![t] = firstFree]
      /\ pc' = [pc EXCEPT ![t] = IF firstFree = 0 THEN "TakeLast" ELSE "UnlockFound"]
      /\ UNCHANGED <<listVars, lockVars, inUse, new, moveVars>>
  BY DEF Look
<1>3. /\ \A u \in Thread : u # t => pc'[u] = pc[u] /\ old'[u] = old[u]
      /\ pc'[t] = IF firstFree = 0 THEN "TakeLast" ELSE "UnlockFound"
      /\ old'[t] = firstFree
  BY <1>1, <1>2 DEF TypeOK
<1>4. TypeOK'
  BY <1>1, <1>2 DEF TypeOK
<1>5. LocksMatch'
  <2>1. firstFree # 0 => firstFree \in Entry
    BY HeadFacts
  <2>2. QED BY <1>1, <1>2, <1>3, <2>1 DEF LocksMatch, WithEntry, Sharing, Expanding, Draining
<1>6. Stable(F, M)'
  BY <1>1, <1>2, <1>3 DEF Stable, Popping
<1>7. QED
  BY <1>2, <1>3, <1>4, <1>5, <1>6, QuietInv DEF Handing

(* A lock that the expander sees free is not held by a popping thread.     *)
LEMMA DrainInv ==
  ASSUME NEW F, NEW L, NEW M, Sound(F, L, M), NEW t \in Thread, Drain(t)
  PROVE  Inv'
<1> USE DEF Goto, listVars, lockVars, moveVars
<1>1. TypeOK /\ LocksMatch /\ Stable(F, M)
  BY DEF Sound
<1> DEFINE i == Cardinality(drained)
<1>2. /\ pc[t] = "Drain" /\ i < Locks /\ sharers[i] = {}
      /\ drained' = drained \union {i}
      /\ UNCHANGED <<listVars, lockVars, inUse, pc, old, new, moving>>
  BY DEF Drain
<1>3. i \in LockIndex
  <2>1. IsFiniteSet(LockIndex)
    BY FS_Interval DEF LockIndex
  <2>2. IsFiniteSet(drained)
    BY <1>1, <2>1, FS_Subset DEF TypeOK
  <2>3. i \in Nat
    BY <2>2, FS_CardinalityType
  <2>4. QED BY <1>2, <2>3 DEF LockIndex
<1> HIDE DEF i
<1>4. TypeOK'
  BY <1>1, <1>2, <1>3 DEF TypeOK
<1>5. LocksMatch'
  BY <1>1, <1>2, <1>3 DEF LocksMatch, WithEntry, Sharing, Expanding, Draining, TypeOK
<1>6. Stable(F, M)'
  <2>1. \A u \in Thread : Popping(u) => Idx(old[u]) # i
    BY <1>1, <1>2, <1>3 DEF LocksMatch, Sharing, Popping
  <2>2. QED BY <1>1, <1>2, <2>1 DEF Stable, Popping
<1>7. QED
  BY <1>2, <1>4, <1>5, <1>6, QuietInv DEF Handing

LEMMA ReadStrictFIFOInv ==
  ASSUME NEW F, NEW L, NEW M, Sound(F, L, M), NEW t \in Thread, ReadStrictFIFO(t)
  PROVE  Inv'
<1> USE DEF Goto, listVars, lockVars, moveVars
<1>1. TypeOK /\ LocksMatch /\ Stable(F, M)
  BY DEF Sound
<1>2. /\ pc[t] = "Drain" /\ drained = LockIndex
      /\ pc' = [pc EXCEPT ![t] = IF strictFIFO THEN "ReverseAll" ELSE "Move"]
      /\ UNCHANGED <<listVars, lockVars, inUse, old, new, moveVars>>
  BY DEF ReadStrictFIFO
<1>3. /\ \A u \in Thread : u # t => pc'[u] = pc[u]
      /\ pc'[t] = IF strictFIFO THEN "ReverseAll" ELSE "Move"
  BY <1>1, <1>2 DEF TypeOK
<1>4. TypeOK'
  BY <1>1, <1>2 DEF TypeOK
<1>5. LocksMatch'
  BY <1>1, <1>2, <1>3 DEF LocksMatch, WithEntry, Sharing, Expanding, Draining
<1>6. Stable(F, M)'
  BY <1>1, <1>2, <1>3 DEF Stable, Popping
<1>7. QED
  BY <1>2, <1>3, <1>4, <1>5, <1>6, QuietInv DEF Handing

LEMMA UnlockExclusiveInv ==
  ASSUME NEW F, NEW L, NEW M, Sound(F, L, M), NEW t \in Thread, UnlockExclusive(t)
  PROVE  Inv'
<1> USE DEF Goto, listVars, lockVars, moveVars
<1>1. TypeOK /\ LocksMatch /\ Stable(F, M)
  BY DEF Sound
<1>2. /\ pc[t] \in {"UnlockFound", "UnlockGrown", "UnlockFailed"} /\ expander' = NoThread
      /\ UNCHANGED <<listVars, sharers, inUse, old, new, moveVars>>
      /\ \E w \in {"LockEntry", "Grown", "Failed"} :
           pc' = [pc EXCEPT ![t] = w] /\ (w = "LockEntry" => pc[t] = "UnlockFound")
  BY DEF UnlockExclusive
<1>3. PICK w \in {"LockEntry", "Grown", "Failed"} :
           pc' = [pc EXCEPT ![t] = w] /\ (w = "LockEntry" => pc[t] = "UnlockFound")
  BY <1>2
<1>4. /\ \A u \in Thread : u # t => pc'[u] = pc[u]
      /\ pc'[t] = w
  BY <1>1, <1>3 DEF TypeOK
<1>5. TypeOK'
  BY <1>1, <1>2, <1>3 DEF TypeOK
<1>6. LocksMatch'
  BY <1>1, <1>2, <1>3, <1>4 DEF LocksMatch, WithEntry, Sharing, Expanding, Draining
<1>7. Stable(F, M)'
  BY <1>1, <1>2, <1>4 DEF Stable, Popping
<1>8. QED
  BY <1>2, <1>4, <1>5, <1>6, <1>7, QuietInv DEF Handing

LEMMA SetStrictFIFOInv ==
  ASSUME NEW F, NEW L, NEW M, Sound(F, L, M), SetStrictFIFO \/ UNCHANGED vars
  PROVE  Inv'
<1> USE DEF listVars, lockVars, moveVars, vars
<1>1. /\ strictFIFO' \in BOOLEAN
      /\ UNCHANGED <<firstFree, lastFree, nextFree, pages, lockVars, inUse, pc, old, new, moveVars>>
  BY DEF SetStrictFIFO, Sound, TypeOK
<1>2. TypeOK' /\ LocksMatch' /\ Stable(F, M)'
  BY <1>1 DEF Sound, TypeOK, LocksMatch, WithEntry, Sharing, Expanding, Draining, Stable,
    Popping
<1>3. Chains(F, L, M)'
  BY <1>1, ChainsKept DEF Sound
<1>4. Placed(F, L, M)'
  BY <1>1 DEF Sound, Placed, Handing
<1>5. Sound(F, L, M)'
  BY <1>2, <1>3, <1>4 DEF Sound
<1>6. QED BY <1>5, Zenon DEF Inv
-----------------------------------------------------------------------------
(* Steps that take entries from a list or give them back. *)
LEMMA PopInv ==
  ASSUME NEW F, NEW L, NEW M, Sound(F, L, M), NEW t \in Thread, Pop(t)
  PROVE  Inv'
<1> USE DEF Goto, listVars, lockVars, moveVars
<1>1. TypeOK /\ LocksMatch /\ Chains(F, L, M) /\ Placed(F, L, M) /\ Stable(F, M)
  BY DEF Sound
<1> DEFINE h == old[t]
<1>2. /\ pc[t] = "Pop"
      /\ UNCHANGED <<strictFIFO, lastFree, nextFree, pages, lockVars, inUse, old, new, moveVars>>
  BY DEF Pop
<1>3. CASE firstFree # h
  <2>1. pc' = [pc EXCEPT ![t] = "UnlockRetry"] /\ UNCHANGED firstFree
    BY <1>3 DEF Pop
  <2>2. /\ \A u \in Thread : u # t => pc'[u] = pc[u]
        /\ pc'[t] = "UnlockRetry"
    BY <1>1, <2>1 DEF TypeOK
  <2>3. TypeOK'
    BY <1>1, <1>2, <2>1 DEF TypeOK
  <2>4. LocksMatch'
    BY <1>1, <1>2, <2>1, <2>2 DEF LocksMatch, WithEntry, Sharing, Expanding, Draining
  <2>5. Stable(F, M)'
    BY <1>1, <1>2, <2>2 DEF Stable, Popping
  <2>6. QED
    BY <1>2, <2>1, <2>2, <2>3, <2>4, <2>5, QuietInv DEF Handing
<1>4. CASE firstFree = h
  <2>1. pc' = [pc EXCEPT ![t] = "UnlockCreate"] /\ firstFree' = new[t]
    BY <1>4 DEF Pop
  <2>2. /\ \A u \in Thread : u # t => pc'[u] = pc[u]
        /\ pc'[t] = "UnlockCreate"
    BY <1>1, <2>1 DEF TypeOK
  <2>3. h \in Entry /\ h # 0
    BY <1>1, <1>2, NoEntryIsZero DEF LocksMatch, WithEntry, Sharing
  <2>4. /\ h \in F /\ h \notin L \union M \union inUse
        /\ \A u \in Thread : Handing(u) => old[u] # h
        /\ \E p \in 0..(pages - 1) : h \in Page(p)
    BY <1>4, <2>3, HeadFacts
  <2>5. new[t] = nextFree[h]
    BY <1>1, <1>2, <2>4 DEF Stable, Popping
  <2>6. new[t] \in Entry \union {0} /\ Linked(F \ {h}, new[t], 0, nextFree)
    BY <1>1, <1>4, <2>3, <2>5, LinkedHead DEF Chains
  <2>7. TypeOK'
    BY <1>1, <1>2, <2>1, <2>6 DEF TypeOK
  <2>8. LocksMatch'
    BY <1>1, <1>2, <2>1, <2>2 DEF LocksMatch, WithEntry, Sharing, Expanding, Draining
  <2>9. Chains(F \ {h}, L, M)'
    BY <1>1, <1>2, <2>1, <2>6 DEF Chains
  <2>10. Placed(F \ {h}, L, M)'
    <3>1. \A u \in Thread : Handing(u)' <=> Handing(u) \/ u = t
      BY <2>2 DEF Handing
    <3>2. \A u \in Thread : Handing(u)' => old[u] \notin (F \ {h}) \union L \union M \union inUse
      BY <1>1, <2>4, <3>1 DEF Placed
    <3>3. \A u, v \in Thread : Handing(u)' /\ Handing(v)' /\ old[u] = old[v] => u = v
      BY <1>1, <2>4, <3>1 DEF Placed
    <3>4. ASSUME NEW g \in Entry
          PROVE  (\E p \in 0..(pages - 1) : g \in Page(p)) <=>
                   \/ g \in (F \ {h}) \union L \union M \union inUse
                   \/ \E u \in Thread : Handing(u)' /\ old[u] = g
      <4>1. CASE g = h
        BY <2>4, <3>1, <4>1
      <4>2. CASE g # h
        <5>1. (\E u \in Thread : Handing(u)' /\ old[u] = g)
                <=> (\E u \in Thread : Handing(u) /\ old[u] = g)
          BY <3>1, <4>2
        <5>2. QED BY <1>1, <4>2, <5>1 DEF Placed
      <4>3. QED BY <4>1, <4>2
    <3>5. QED BY <1>1, <1>2, <3>2, <3>3, <3>4 DEF Placed
  <2>11. Stable(F \ {h}, M)'
    BY <1>1, <1>2, <2>2 DEF Stable, Popping
  <2>12. Sound(F \ {h}, L, M)'
    BY <2>7, <2>8, <2>9, <2>10, <2>11 DEF Sound
  <2>13. QED BY <2>12, Zenon DEF Inv
<1>5. QED BY <1>3, <1>4

LEMMA CreateInv ==
  ASSUME NEW F, NEW L, NEW M, Sound(F, L, M), NEW t \in Thread, ExCreateHandle(t)
  PROVE  Inv'
<1> USE DEF Goto, Return, listVars, lockVars, moveVars
<1>1. TypeOK /\ LocksMatch /\ Chains(F, L, M) /\ Placed(F, L, M) /\ Stable(F, M)
  BY DEF Sound
<1> DEFINE h == old[t]
<1>2. /\ pc[t] = "Create" /\ pc' = [pc EXCEPT ![t] = "Idle"] /\ old' = [old EXCEPT ![t] = 0]
      /\ inUse' = inUse \union {h}
      /\ nextFree' = [nextFree EXCEPT ![h] = GrantedAccess]
      /\ UNCHANGED <<strictFIFO, firstFree, lastFree, pages, lockVars, new, moveVars>>
  BY DEF ExCreateHandle
<1>3. h \in Entry
  BY <1>1, <1>2 DEF LocksMatch, WithEntry
<1>4. /\ \A u \in Thread : u # t => pc'[u] = pc[u] /\ old'[u] = old[u]
      /\ pc'[t] = "Idle"
      /\ \A g \in Entry : g # h => nextFree'[g] = nextFree[g]
  BY <1>1, <1>2 DEF TypeOK
<1>5. h \notin F \union L \union M \union inUse /\ \A u \in Thread : u # t /\ Handing(u) => old[u] # h
  BY <1>1, <1>2 DEF Placed, Handing
<1>6. F \subseteq Entry /\ L \subseteq Entry /\ M \subseteq Entry
  BY <1>1, LinkedEntries DEF Chains
<1>7. TypeOK'
  BY <1>1, <1>2, <1>3 DEF TypeOK
<1>8. LocksMatch'
  BY <1>1, <1>2, <1>4 DEF LocksMatch, WithEntry, Sharing, Expanding, Draining
<1>9. Chains(F, L, M)'
  <2>1. \A g \in F \union L \union M : nextFree'[g] = nextFree[g]
    BY <1>4, <1>5, <1>6
  <2>2. /\ Linked(F, firstFree, 0, nextFree')
        /\ Linked(L, lastFree, 0, nextFree')
        /\ Linked(M, moving, 0, nextFree')
    BY <1>1, <2>1, LinkedFrame DEF Chains
  <2>3. QED BY <1>2, <2>2 DEF Chains
<1>10. Placed(F, L, M)'
  <2>1. \A u \in Thread : Handing(u)' <=> Handing(u) /\ u # t
    BY <1>4 DEF Handing
  <2>2. \A u \in Thread : Handing(u)' => old'[u] \notin F \union L \union M \union inUse'
    BY <1>1, <1>2, <1>4, <1>5, <2>1 DEF Placed
  <2>3. \A u, v \in Thread : Handing(u)' /\ Handing(v)' /\ old'[u] = old'[v] => u = v
    BY <1>1, <1>4, <2>1 DEF Placed
  <2>4. (F \union L \union M) \intersect inUse' = {}
    BY <1>1, <1>2, <1>5 DEF Placed
  <2>5. ASSUME NEW g \in Entry
        PROVE  (\E p \in 0..(pages - 1) : g \in Page(p)) <=>
                 \/ g \in F \union L \union M \union inUse'
                 \/ \E u \in Thread : Handing(u)' /\ old'[u] = g
    <3>1. (\E u \in Thread : Handing(u) /\ old[u] = g)
             <=> g = h \/ \E u \in Thread : Handing(u)' /\ old'[u] = g
      BY <1>2, <1>4, <2>1 DEF Handing
    <3>2. QED BY <1>1, <1>2, <3>1 DEF Placed
  <2>6. QED BY <1>1, <1>2, <2>2, <2>3, <2>4, <2>5 DEF Placed
<1>11. Stable(F, M)'
  BY <1>1, <1>2, <1>4, <1>5, <1>6 DEF Stable, Popping
<1>12. Sound(F, L, M)'
  BY <1>7, <1>8, <1>9, <1>10, <1>11 DEF Sound
<1>13. QED BY <1>12, Zenon DEF Inv

(* The alternate list becomes the chain that is moved; there was none.     *)
LEMMA TakeLastInv ==
  ASSUME NEW F, NEW L, NEW M, Sound(F, L, M), NEW t \in Thread, TakeLast(t)
  PROVE  Inv'
<1> USE DEF Goto, listVars, lockVars, moveVars
<1>1. TypeOK /\ LocksMatch /\ Chains(F, L, M) /\ Placed(F, L, M) /\ Stable(F, M)
  BY DEF Sound
<1>2. /\ pc[t] = "TakeLast"
      /\ pc' = [pc EXCEPT ![t] = IF lastFree = 0 THEN "Grow" ELSE "Drain"]
      /\ lastFree' = 0 /\ moving' = lastFree /\ drained' = {0}
      /\ UNCHANGED <<strictFIFO, firstFree, nextFree, pages, lockVars, inUse, old, new>>
  BY DEF TakeLast
<1>3. /\ \A u \in Thread : u # t => pc'[u] = pc[u]
      /\ pc'[t] = IF lastFree = 0 THEN "Grow" ELSE "Drain"
  BY <1>1, <1>2 DEF TypeOK
<1>4. expander = t /\ \A u \in Thread : Expanding(u) => u = t
  BY <1>1, <1>2 DEF LocksMatch, Expanding
<1>5. moving = 0
  BY <1>1, <1>2, <1>4 DEF LocksMatch, Expanding, Draining
<1>6. M = {}
  BY <1>1, <1>5, LinkedHead DEF Chains
<1>7. TypeOK'
  <2>1. 0 \in LockIndex
    BY DEF LockIndex
  <2>2. QED BY <1>1, <1>2, <2>1 DEF TypeOK
<1>8. LocksMatch'
  BY <1>1, <1>2, <1>3, <1>4 DEF LocksMatch, WithEntry, Sharing, Expanding, Draining
<1>9. Chains(F, {}, L)'
  BY <1>1, <1>2, LinkedEmpty DEF Chains
<1>10. Placed(F, {}, L)'
  <2>1. \A u \in Thread : Handing(u)' <=> Handing(u)
    BY <1>2, <1>3 DEF Handing
  <2>2. Placed(F, {}, L)
    BY <1>1, <1>6 DEF Placed
  <2>3. QED BY <1>2, <2>1, <2>2, PlacedKept
<1>11. Stable(F, L)'
  <2>1. \A u \in Thread : Popping(u) => Idx(old[u]) # 0
    <3>1. sharers[0] = {} /\ 0 \in LockIndex
      BY <1>1, <1>4 DEF LocksMatch, LockIndex
    <3>2. QED BY <1>1, <3>1 DEF LocksMatch, Sharing, Popping
  <2>2. QED BY <1>1, <1>2, <1>3, <2>1 DEF Stable, Popping
<1>12. Sound(F, {}, L)'
  BY <1>7, <1>8, <1>9, <1>10, <1>11 DEF Sound
<1>13. QED BY <1>12, Zenon DEF Inv

(* The lock of the entry tells whether a thread is about to pop it. *)
LEMMA BeginFreeInv ==
  ASSUME NEW F, NEW L, NEW M, Sound(F, L, M), NEW t \in Thread, NEW h \in Entry, BeginFree(t, h)
  PROVE  Inv'
<1> USE DEF Goto, listVars, lockVars, moveVars
<1>1. TypeOK /\ LocksMatch /\ Chains(F, L, M) /\ Placed(F, L, M) /\ Stable(F, M)
  BY DEF Sound
<1>2. /\ pc[t] = "Idle" /\ h \in inUse
      /\ inUse' = inUse \ {h}
      /\ old' = [old EXCEPT ![t] = h]
      /\ \E w \in {"FreeFirst", "FreeLast"} :
           pc' = [pc EXCEPT ![t] = w] /\ (w = "FreeFirst" => sharers[Idx(h)] = {})
      /\ UNCHANGED <<listVars, lockVars, new, moveVars>>
  BY DEF BeginFree
<1>3. PICK w \in {"FreeFirst", "FreeLast"} :
           pc' = [pc EXCEPT ![t] = w] /\ (w = "FreeFirst" => sharers[Idx(h)] = {})
  BY <1>2
<1>4. /\ \A u \in Thread : u # t => pc'[u] = pc[u] /\ old'[u] = old[u]
      /\ pc'[t] = w /\ old'[t] = h
  BY <1>1, <1>2, <1>3 DEF TypeOK
<1>5. TypeOK'
  BY <1>1, <1>2, <1>3 DEF TypeOK
<1>6. LocksMatch'
  BY <1>1, <1>2, <1>3, <1>4 DEF LocksMatch, WithEntry, Sharing, Expanding, Draining
<1>7. Chains(F, L, M)'
  BY <1>1, <1>2, ChainsKept
<1>8. Placed(F, L, M)'
  <2>1. \A u \in Thread : Handing(u)' <=> Handing(u) \/ u = t
    BY <1>2, <1>4 DEF Handing
  <2>2. ~Handing(t) /\ h \notin F \union L \union M /\ \A u \in Thread : Handing(u) => old[u] # h
    BY <1>1, <1>2 DEF Placed, Handing
  <2>3. \A u \in Thread : Handing(u)' => old'[u] \notin F \union L \union M \union inUse'
    BY <1>1, <1>2, <1>4, <2>1, <2>2 DEF Placed
  <2>4. \A u, v \in Thread : Handing(u)' /\ Handing(v)' /\ old'[u] = old'[v] => u = v
    BY <1>1, <1>4, <2>1, <2>2 DEF Placed
  <2>5. (F \union L \union M) \intersect inUse' = {}
    BY <1>1, <1>2 DEF Placed
  <2>6. ASSUME NEW g \in Entry
        PROVE  (\E p \in 0..(pages - 1) : g \in Page(p)) <=>
                 \/ g \in F \union L \union M \union inUse'
                 \/ \E u \in Thread : Handing(u)' /\ old'[u] = g
    <3>1. (\E u \in Thread : Handing(u)' /\ old'[u] = g)
             <=> g = h \/ \E u \in Thread : Handing(u) /\ old[u] = g
      BY <1>4, <2>1, <2>2
    <3>2. g \in inUse <=> g = h \/ g \in inUse'
      BY <1>2
    <3>3. QED BY <1>1, <3>1, <3>2 DEF Placed
  <2>7. QED BY <1>1, <1>2, <2>3, <2>4, <2>5, <2>6 DEF Placed
<1>9. Stable(F, M)'
  <2>1. w = "FreeFirst" => \A u \in Thread : Popping(u) => old[u] # h
    <3>1. Idx(h) \in LockIndex
      BY IdxType
    <3>2. QED BY <1>1, <1>3, <3>1 DEF LocksMatch, Sharing, Popping
  <2>2. QED BY <1>1, <1>2, <1>4, <2>1 DEF Stable, Popping
<1>10. Sound(F, L, M)'
  BY <1>5, <1>6, <1>7, <1>8, <1>9 DEF Sound
<1>11. QED BY <1>10, Zenon DEF Inv

(* An entry in front of a list. *)
LEMMA LinkedPush ==
  ASSUME NEW S, NEW head, NEW next, NEW other, NEW h \in Entry,
         Linked(S, head, 0, next), h \notin S,
         other[h] = head, \A g \in S : other[g] = next[g]
  PROVE  Linked(S \union {h}, h, 0, other)
<1>1. Linked(S, head, 0, other)
  BY LinkedFrame
<1>2. Linked({h}, h, head, other)
  BY LinkedOne
<1>3. Linked({h} \union S, h, 0, other)
  BY <1>1, <1>2, LinkedJoin
<1>4. {h} \union S = S \union {h}
  OBVIOUS
<1>5. QED BY <1>3, <1>4

LEMMA PushInv ==
  ASSUME NEW F, NEW L, NEW M, Sound(F, L, M), NEW t \in Thread, Push(t)
  PROVE  Inv'
<1> USE DEF Goto, Return, listVars, lockVars, moveVars
<1>4. TypeOK /\ LocksMatch /\ Chains(F, L, M) /\ Placed(F, L, M) /\ Stable(F, M)
  BY DEF Sound
<1>1. PICK h : h = old[t]
  OBVIOUS
<1>2. PICK F2 : F2 = IF pc[t] = "FreeFirst" THEN F \union {h} ELSE F
  OBVIOUS
<1>3. PICK L2 : L2 = IF pc[t] = "FreeFirst" THEN L ELSE L \union {h}
  OBVIOUS
<1> USE <1>1
<1>5. /\ pc[t] \in {"FreeFirst", "FreeLast"}
      /\ pc' = [pc EXCEPT ![t] = "Idle"] /\ old' = [old EXCEPT ![t] = 0]
      /\ nextFree' = [nextFree EXCEPT ![h] = IF pc[t] = "FreeFirst" THEN firstFree ELSE lastFree]
      /\ firstFree' = IF pc[t] = "FreeFirst" THEN h ELSE firstFree
      /\ lastFree' = IF pc[t] = "FreeFirst" THEN lastFree ELSE h
      /\ UNCHANGED <<strictFIFO, pages, lockVars, inUse, new, moveVars>>
  BY DEF Push
<1>6. h \in Entry
  BY <1>4, <1>5 DEF LocksMatch, WithEntry
<1>7. /\ \A u \in Thread : u # t => pc'[u] = pc[u] /\ old'[u] = old[u]
      /\ pc'[t] = "Idle"
      /\ \A g \in Entry : g # h => nextFree'[g] = nextFree[g]
      /\ nextFree'[h] = IF pc[t] = "FreeFirst" THEN firstFree ELSE lastFree
  BY <1>4, <1>5, <1>6 DEF TypeOK
<1>8. h \notin F \union L \union M \union inUse /\ \A u \in Thread : u # t /\ Handing(u) => old[u] # h
  BY <1>4, <1>5 DEF Placed, Handing
<1>9. F \subseteq Entry /\ L \subseteq Entry /\ M \subseteq Entry
  BY <1>4, LinkedEntries DEF Chains
<1>10. TypeOK'
  BY <1>4, <1>5, <1>6 DEF TypeOK
<1>11. LocksMatch'
  BY <1>4, <1>5, <1>7 DEF LocksMatch, WithEntry, Sharing, Expanding, Draining
<1>12. Chains(F2, L2, M)'
  <2>1. \A g \in F \union L \union M : nextFree'[g] = nextFree[g]
    BY <1>7, <1>8, <1>9
  <2>2. /\ Linked(F, firstFree, 0, nextFree')
        /\ Linked(L, lastFree, 0, nextFree')
        /\ Linked(M, moving, 0, nextFree')
    BY <1>4, <2>1, LinkedFrame DEF Chains
  <2>3. pc[t] = "FreeFirst" => Linked(F \union {h}, h, 0, nextFree')
    BY <1>4, <1>6, <1>7, <1>8, <2>1, LinkedPush DEF Chains
  <2>4. pc[t] # "FreeFirst" => Linked(L \union {h}, h, 0, nextFree')
    BY <1>4, <1>6, <1>7, <1>8, <2>1, LinkedPush DEF Chains
  <2>5. QED BY <1>2, <1>3, <1>5, <2>2, <2>3, <2>4 DEF Chains
<1>13. Placed(F2, L2, M)'
  <2>1. \A u \in Thread : Handing(u)' <=> Handing(u) /\ u # t
    BY <1>7 DEF Handing
  <2>2. F2 \union L2 \union M = F \union L \union M \union {h}
    BY <1>2, <1>3
  <2>3. \A u \in Thread : Handing(u)' => old'[u] \notin F2 \union L2 \union M \union inUse
    BY <1>4, <1>7, <1>8, <2>1, <2>2 DEF Placed
  <2>4. \A u, v \in Thread : Handing(u)' /\ Handing(v)' /\ old'[u] = old'[v] => u = v
    BY <1>4, <1>7, <2>1 DEF Placed
  <2>5. F2 \intersect L2 = {} /\ F2 \intersect M = {} /\ L2 \intersect M = {}
        /\ (F2 \union L2 \union M) \intersect inUse = {}
    BY <1>2, <1>3, <1>4, <1>8 DEF Placed
  <2>6. ASSUME NEW g \in Entry
        PROVE  (\E p \in 0..(pages - 1) : g \in Page(p)) <=>
                 \/ g \in F2 \union L2 \union M \union inUse
                 \/ \E u \in Thread : Handing(u)' /\ old'[u] = g
    <3>1. (\E u \in Thread : Handing(u) /\ old[u] = g)
             <=> g = h \/ \E u \in Thread : Handing(u)' /\ old'[u] = g
      BY <1>5, <1>7, <2>1 DEF Handing
    <3>2. QED BY <1>4, <2>2, <3>1 DEF Placed
  <2>7. QED BY <1>5, <2>3, <2>4, <2>5, <2>6 DEF Placed
<1>14. Stable(F2, M)'
  <2>1. \A u \in Thread : Popping(u) => u # t /\ old[u] \in Entry
    BY <1>4, <1>5 DEF LocksMatch, WithEntry, Sharing, Popping
  <2>2. pc[t] = "FreeFirst" => \A u \in Thread : Popping(u) => old[u] # h
    BY <1>4 DEF Stable
  <2>3. \A u \in Thread : Popping(u) /\ old[u] \in F2 => old[u] \in F /\ nextFree'[old[u]] = nextFree[old[u]]
    BY <1>2, <1>7, <1>8, <2>1, <2>2
  <2>4. QED BY <1>4, <1>5, <1>7, <2>1, <2>3 DEF Stable, Popping
<1>15. Sound(F2, L2, M)'
  BY <1>10, <1>11, <1>12, <1>13, <1>14 DEF Sound
<1>16. QED BY <1>15, Zenon DEF Inv
-----------------------------------------------------------------------------
(* Moving the chain to the free list. *)
LEMMA MovedPlaced ==
  ASSUME NEW F, NEW L, NEW M, Placed(F, L, M), UNCHANGED <<pages, inUse>>,
         \A u \in Thread : /\ Handing(u)' <=> Handing(u)
                           /\ Handing(u) => old'[u] = old[u]
  PROVE  Placed(M \union F, L, {})'
<1>1. Placed(M \union F, L, {})
  BY DEF Placed
<1>2. QED BY <1>1, PlacedKept

(* All locks have been seen free, so no thread is about to pop an entry of *)
(* the chain.                                                              *)
LEMMA MovedStable ==
  ASSUME NEW F, NEW L, NEW M, Sound(F, L, M), NEW t \in Thread,
         pc[t] \in {"Move", "Reverse", "ReverseAll"},
         \A u \in Thread : u # t => pc'[u] = pc[u] /\ old'[u] = old[u],
         pc'[t] \in {"Grow", "UnlockFound"},
         UNCHANGED <<new, pages>>,
         \A h \in Entry \ M : nextFree'[h] = nextFree[h]
  PROVE  Stable(M \union F, {})'
<1>1. TypeOK /\ LocksMatch /\ Stable(F, M)
  BY DEF Sound
<1>2. \A u \in Thread : Popping(u) => u # t /\ old[u] \in Entry
  BY <1>1 DEF LocksMatch, WithEntry, Sharing, Popping
<1>3. \A u \in Thread : Popping(u) => old[u] \notin M
  BY <1>1, <1>2, IdxType DEF LocksMatch, Stable
<1>4. QED BY <1>1, <1>2, <1>3 DEF Stable, Popping

LEMMA MovedInv ==
  ASSUME NEW F, NEW L, NEW M, Sound(F, L, M), NEW t \in Thread, Moved(t),
         pc[t] \in {"Move", "Reverse", "ReverseAll"},
         UNCHANGED <<lastFree, pages, strictFIFO, lockVars, inUse, new>>,
         Linked(M \union F, firstFree', 0, nextFree'),
         nextFree' \in [Entry -> Entry \union {0, GrantedAccess}],
         \A h \in Entry \ M : nextFree'[h] = nextFree[h]
  PROVE  Inv'
<1> USE DEF Goto, lockVars
<1>1. TypeOK /\ LocksMatch /\ Chains(F, L, M) /\ Placed(F, L, M) /\ Stable(F, M)
  BY DEF Sound
<1>2. moving # 0 /\ moving \in Entry
  BY <1>1, LinkedHead DEF LocksMatch, Draining, Chains
<1>3. /\ moving' = 0 /\ drained' = {}
      /\ \E w \in {"Grow", "UnlockFound"} : pc' = [pc EXCEPT ![t] = w]
      /\ old' = IF pc'[t] = "Grow" THEN old ELSE [old EXCEPT ![t] = moving]
  BY <1>1 DEF Moved, TypeOK
<1>4. /\ \A u \in Thread : u # t => pc'[u] = pc[u] /\ old'[u] = old[u]
      /\ pc'[t] \in {"Grow", "UnlockFound"}
      /\ pc'[t] = "UnlockFound" => old'[t] = moving
  BY <1>1, <1>3 DEF TypeOK
<1>5. firstFree' \in Entry \union {0}
  BY LinkedHead
<1>6. TypeOK'
  BY <1>1, <1>2, <1>3, <1>5 DEF TypeOK
<1>7. LocksMatch'
  BY <1>1, <1>2, <1>3, <1>4 DEF LocksMatch, WithEntry, Sharing, Expanding, Draining
<1>8. Chains(M \union F, L, {})'
  <2>1. \A g \in L : nextFree'[g] = nextFree[g]
    BY <1>1, LinkedEntries DEF Chains, Placed
  <2>2. Linked(L, lastFree, 0, nextFree')
    BY <1>1, <2>1, LinkedFrame DEF Chains
  <2>3. QED BY <1>3, <2>2, LinkedEmpty DEF Chains
<1>9. Placed(M \union F, L, {})'
  <2>1. \A u \in Thread : /\ Handing(u)' <=> Handing(u)
                          /\ Handing(u) => old'[u] = old[u]
    BY <1>4 DEF Handing
  <2>2. QED BY <1>1, <2>1, MovedPlaced
<1>10. Stable(M \union F, {})'
  BY <1>4, MovedStable
<1>11. Sound(M \union F, L, {})'
  BY <1>6, <1>7, <1>8, <1>9, <1>10 DEF Sound
<1>12. QED BY <1>11, Zenon DEF Inv

LEMMA MoveWholeInv ==
  ASSUME NEW F, NEW L, NEW M, Sound(F, L, M), NEW t \in Thread, MoveWhole(t)
  PROVE  Inv'
<1> USE DEF Goto, lockVars, moveVars
<1>1. TypeOK /\ LocksMatch /\ Chains(F, L, M) /\ Placed(F, L, M) /\ Stable(F, M)
  BY DEF Sound
<1>2. /\ pc[t] = "Move"
      /\ UNCHANGED <<lastFree, nextFree, pages, strictFIFO, lockVars, inUse, new>>
  BY DEF MoveWhole
<1>3. CASE firstFree = 0
  <2>1. firstFree' = moving /\ Moved(t)
    BY <1>3 DEF MoveWhole
  <2>2. M \union F = M
    BY <1>1, <1>3, LinkedHead DEF Chains
  <2>3. Linked(M \union F, firstFree', 0, nextFree')
    BY <1>1, <1>2, <2>1, <2>2 DEF Chains
  <2>4. nextFree' \in [Entry -> Entry \union {0, GrantedAccess}]
    BY <1>1, <1>2 DEF TypeOK
  <2>5. QED BY <1>2, <2>1, <2>3, <2>4, MovedInv
<1>4. CASE firstFree # 0
  <2>1. pc' = [pc EXCEPT ![t] = "Reverse"] /\ UNCHANGED <<firstFree, old, moveVars>>
    BY <1>4 DEF MoveWhole
  <2>2. /\ \A u \in Thread : u # t => pc'[u] = pc[u]
        /\ pc'[t] = "Reverse"
    BY <1>1, <2>1 DEF TypeOK
  <2>3. TypeOK'
    BY <1>1, <1>2, <2>1 DEF TypeOK
  <2>4. LocksMatch'
    BY <1>1, <1>2, <2>1, <2>2 DEF LocksMatch, WithEntry, Sharing, Expanding, Draining
  <2>5. Stable(F, M)'
    BY <1>1, <1>2, <2>1, <2>2 DEF Stable, Popping
  <2>6. QED
    BY <1>2, <2>1, <2>2, <2>3, <2>4, <2>5, QuietInv DEF Handing
<1>5. QED BY <1>3, <1>4

LEMMA MoveReversedInv ==
  ASSUME NEW F, NEW L, NEW M, Sound(F, L, M), NEW t \in Thread, MoveReversed(t)
  PROVE  Inv'
<1> USE DEF lockVars
<1>1. TypeOK /\ LocksMatch /\ Chains(F, L, M) /\ Placed(F, L, M) /\ Stable(F, M)
  BY DEF Sound
<1>2. /\ pc[t] \in {"Reverse", "ReverseAll"} /\ Moved(t)
      /\ firstFree' = LastOf(moving)
      /\ nextFree' = Reversed(moving, firstFree)
      /\ UNCHANGED <<lastFree, pages, strictFIFO, lockVars, inUse, new>>
  BY DEF MoveReversed
<1>3. moving # 0
  BY <1>1, <1>2 DEF LocksMatch, Draining
<1>4. /\ Linked(M, LastOf(moving), firstFree, nextFree')
      /\ nextFree' \in [Entry -> M \union {firstFree} \union {nextFree[h] : h \in Entry}]
      /\ \A h \in Entry \ M : nextFree'[h] = nextFree[h]
  BY <1>1, <1>2, <1>3, LinkedReverse DEF Chains
<1>5. F \subseteq Entry /\ M \subseteq Entry /\ M \intersect F = {}
  BY <1>1, LinkedEntries DEF Chains, Placed
<1>6. Linked(F, firstFree, 0, nextFree')
  BY <1>1, <1>4, <1>5, LinkedFrame DEF Chains
<1>7. Linked(M \union F, firstFree', 0, nextFree')
  BY <1>2, <1>4, <1>5, <1>6, LinkedJoin
<1>8. nextFree' \in [Entry -> Entry \union {0, GrantedAccess}]
  BY <1>1, <1>4, <1>5 DEF TypeOK
<1>9. QED BY <1>2, <1>4, <1>7, <1>8, MovedInv

LEMMA GrowInv ==
  ASSUME NEW F, NEW L, NEW M, Sound(F, L, M), NEW t \in Thread, Grow(t)
  PROVE  Inv'
<1> USE DEF Goto, listVars, lockVars, moveVars
<1>1. TypeOK /\ LocksMatch /\ Chains(F, L, M) /\ Placed(F, L, M) /\ Stable(F, M)
  BY DEF Sound
<1>2. /\ pc[t] = "Grow" /\ drained' = {}
      /\ UNCHANGED <<strictFIFO, lastFree, lockVars, inUse, old, new, moving>>
  BY DEF Grow
<1>3. moving = 0
  BY <1>1, <1>2 DEF LocksMatch, Expanding, Draining
<1>4. M = {}
  BY <1>1, <1>3, LinkedHead DEF Chains
<1>5. CASE pc' = [pc EXCEPT ![t] = "UnlockFailed"] /\ UNCHANGED <<firstFree, nextFree, pages>>
  <2>1. /\ \A u \in Thread : u # t => pc'[u] = pc[u]
        /\ pc'[t] = "UnlockFailed"
    BY <1>1, <1>5 DEF TypeOK
  <2>2. TypeOK'
    BY <1>1, <1>2, <1>5 DEF TypeOK
  <2>3. LocksMatch'
    BY <1>1, <1>2, <1>3, <1>5, <2>1 DEF LocksMatch, WithEntry, Sharing, Expanding, Draining
  <2>4. Stable(F, M)'
    BY <1>1, <1>2, <1>4, <1>5, <2>1 DEF Stable, Popping
  <2>5. QED
    BY <1>2, <1>5, <2>1, <2>2, <2>3, <2>4, QuietInv DEF Handing
<1>6. CASE /\ pages < MaxPages /\ pages' = pages + 1
           /\ firstFree' = pages * PageEntries + 1
           /\ nextFree' = Chained(nextFree, pages, firstFree)
           /\ pc' = [pc EXCEPT ![t] = "UnlockGrown"]
  <2>1. PICK P : P = Page(pages)
    OBVIOUS
  <2>2. /\ \A u \in Thread : u # t => pc'[u] = pc[u]
        /\ pc'[t] = "UnlockGrown"
    BY <1>1, <1>6 DEF TypeOK
  <2>3. pages \in Nat /\ pages \in 1..MaxPages
    BY <1>1 DEF TypeOK
  <2>4. firstFree' \in P /\ Linked(P, firstFree', firstFree, nextFree')
    BY <1>6, <2>1, <2>3, LinkedPage
  <2>5. P \subseteq Entry /\ \A p \in 0..(pages - 1) : P \intersect Page(p) = {}
    BY <2>1, <2>3 DEF Page
  <2>6. \A h \in Entry \ P : nextFree'[h] = nextFree[h]
    BY <1>6, <2>1 DEF Chained
  <2>7. F \subseteq Entry /\ L \subseteq Entry
    BY <1>1, LinkedEntries DEF Chains
  <2>8. \A u \in Thread : Handing(u)' <=> Handing(u)
    BY <1>2, <2>2 DEF Handing
  <2>9. /\ P \intersect (F \union L \union M \union inUse) = {}
        /\ \A u \in Thread : Handing(u) => old[u] \notin P
    BY <1>1, <2>5 DEF Placed
  <2>10. \A h \in Entry : (\E p \in 0..(pages' - 1) : h \in Page(p))
                            <=> h \in P \/ \E p \in 0..(pages - 1) : h \in Page(p)
    <3>1. 0..(pages' - 1) = 0..(pages - 1) \union {pages}
      BY <1>6, <2>3
    <3>2. QED BY <2>1, <3>1
  <2>11. TypeOK'
    <3>1. nextFree' \in [Entry -> Entry \union {0, GrantedAccess}]
      <4>1. \A h \in Entry : h + 1 \in Page(pages) => h + 1 \in Entry
        BY DEF Page
      <4>2. QED BY <1>1, <1>6, <4>1 DEF Chained, TypeOK
    <3>2. firstFree' \in Entry
      BY <2>4, <2>5
    <3>3. pages' \in 1..MaxPages
      BY <1>6, <2>3
    <3>4. QED BY <1>1, <1>2, <1>6, <3>1, <3>2, <3>3 DEF TypeOK
  <2>12. LocksMatch'
    BY <1>1, <1>2, <1>3, <2>2 DEF LocksMatch, WithEntry, Sharing, Expanding, Draining
  <2>13. Chains(P \union F, L, {})'
    <3>1. Linked(F, firstFree, 0, nextFree') /\ Linked(L, lastFree, 0, nextFree')
      BY <1>1, <2>6, <2>7, <2>9, LinkedFrame DEF Chains
    <3>2. Linked(P \union F, firstFree', 0, nextFree')
      BY <2>4, <2>9, <3>1, LinkedJoin
    <3>3. QED BY <1>2, <1>3, <3>1, <3>2, LinkedEmpty DEF Chains
  <2>14. Placed(P \union F, L, {})'
    <3>1. \A u \in Thread : Handing(u)' => old[u] \notin P \union F \union L \union {} \union inUse
      BY <1>1, <2>8, <2>9 DEF Placed
    <3>2. \A u, v \in Thread : Handing(u)' /\ Handing(v)' /\ old[u] = old[v] => u = v
      BY <1>1, <2>8 DEF Placed
    <3>3. (P \union F) \intersect L = {} /\ ((P \union F) \union L \union {}) \intersect inUse = {}
      BY <1>1, <2>9 DEF Placed
    <3>4. ASSUME NEW h \in Entry
          PROVE  (\E p \in 0..(pages' - 1) : h \in Page(p)) <=>
                   \/ h \in (P \union F) \union L \union {} \union inUse
                   \/ \E u \in Thread : Handing(u)' /\ old[u] = h
      BY <1>1, <1>4, <2>8, <2>10 DEF Placed
    <3>5. QED BY <1>2, <3>1, <3>2, <3>3, <3>4 DEF Placed
  <2>15. Stable(P \union F, {})'
    <3>1. \A u \in Thread : Popping(u) => old[u] \notin P /\ old[u] \in Entry /\ u # t
      BY <1>1, <1>2, <2>5 DEF Stable, LocksMatch, WithEntry, Sharing, Popping
    <3>2. \A u \in Thread : Popping(u) => \E p \in 0..(pages' - 1) : old[u] \in Page(p)
      BY <1>1, <2>10, <3>1 DEF Stable
    <3>3. \A u \in Thread : Popping(u)' => Popping(u)
      BY <2>2 DEF Popping
    <3>4. QED BY <1>1, <1>2, <2>2, <2>6, <3>1, <3>2, <3>3 DEF Stable
  <2>16. Sound(P \union F, L, {})'
    BY <2>11, <2>12, <2>13, <2>14, <2>15 DEF Sound
  <2>17. QED BY <2>16, Zenon DEF Inv
<1>7. QED BY <1>5, <1>6 DEF Grow
-----------------------------------------------------------------------------
(* The invariant is inductive. *)
LEMMA NextInv == Inv /\ [Next]_vars => Inv'
<1> SUFFICES ASSUME Inv, [Next]_vars PROVE Inv'
  OBVIOUS
<1>1. PICK F, L, M : Sound(F, L, M)
  BY Zenon DEF Inv
<1>2. ASSUME NEW t \in Thread, BeginAllocate(t) \/ Allocating(t) PROVE Inv'
  BY <1>1, <1>2, AllocateInv, LockSharedInv, RecheckInv, ReadNextInv, PopInv, UnlockSharedInv,
     CreateInv, LockExclusiveInv, LookInv, TakeLastInv, DrainInv, ReadStrictFIFOInv,
     MoveWholeInv, MoveReversedInv, GrowInv, UnlockExclusiveInv DEF Allocating
<1>3. ASSUME NEW t \in Thread, NEW h \in Entry, BeginFree(t, h) PROVE Inv'
  BY <1>1, <1>3, BeginFreeInv
<1>4. ASSUME NEW t \in Thread, Push(t) PROVE Inv'
  BY <1>1, <1>4, PushInv
<1>5. CASE SetStrictFIFO \/ UNCHANGED vars
  BY <1>1, <1>5, SetStrictFIFOInv
<1>6. QED BY <1>2, <1>3, <1>4, <1>5 DEF Next

LEMMA InvHolds == Spec => []Inv
BY InitInv, NextInv, PTL DEF Spec

(* The A-B-A problem is eliminated, for any number of threads, locks and   *)
(* entries: the compare-exchange that pops an entry succeeds only when the *)
(* successor it installs still is the entry's successor.                   *)
THEOREM PopsAreNotStale == Spec => []NoABA
<1>1. Inv => NoABA
  <2> SUFFICES ASSUME Inv, NEW t \in Thread, pc[t] = "Pop", firstFree = old[t]
               PROVE  new[t] = nextFree[old[t]]
    BY DEF NoABA
  <2>1. PICK F, L, M : Sound(F, L, M)
    BY Zenon DEF Inv
  <2>2. old[t] # 0
    BY <2>1, NoEntryIsZero DEF Sound, LocksMatch, WithEntry, Sharing
  <2>3. old[t] \in F
    BY <2>1, <2>2, HeadFacts
  <2>4. QED BY <2>1, <2>3 DEF Sound, Stable, Popping
<1>2. QED BY <1>1, InvHolds, PTL

(* Every entry of the table is in exactly one place: no handle is given    *)
(* out twice and none is lost.                                             *)
THEOREM EntriesOnce == Spec => []EveryHandleOnce
<1>1. Inv => EveryHandleOnce
  <2> SUFFICES ASSUME Inv PROVE EveryHandleOnce
    OBVIOUS
  <2>1. PICK F, L, M : Sound(F, L, M)
    BY Zenon DEF Inv
  <2>2. TypeOK /\ Chains(F, L, M) /\ Placed(F, L, M)
    BY <2>1 DEF Sound
  <2>3. /\ ChainOf(firstFree) = F /\ At(firstFree)[Cardinality(Entry)] = 0
        /\ ChainOf(lastFree) = L /\ At(lastFree)[Cardinality(Entry)] = 0
        /\ ChainOf(moving) = M /\ At(moving)[Cardinality(Entry)] = 0
    BY <2>2, ChainOfLinked DEF Chains
  <2>4. \A t \in Thread : InHand(t) = IF Handing(t) THEN {old[t]} ELSE {}
    BY DEF InHand, Handing
  <2>5. NoHandleTwice
    BY <2>2, <2>3, <2>4 DEF NoHandleTwice, Placed
  <2>6. NoHandleLost
    <3>1. \A h : h \in UNION {Page(p) : p \in 0..(pages - 1)}
                   <=> \E p \in 0..(pages - 1) : h \in Page(p)
      OBVIOUS
    <3>2. \A h : h \in UNION {InHand(t) : t \in Thread} <=> \E t \in Thread : Handing(t) /\ old[t] = h
      BY <2>4
    <3>3. \A p : Page(p) \subseteq Entry
      BY PageType
    <3>4. F \subseteq Entry /\ L \subseteq Entry /\ M \subseteq Entry /\ inUse \subseteq Entry
      BY <2>2, LinkedEntries DEF Chains, TypeOK
    <3>5. \A t \in Thread : Handing(t) => old[t] \in Entry
      BY <2>1 DEF Sound, LocksMatch, WithEntry, Sharing, Handing
    <3>6. \A h : (\E p \in 0..(pages - 1) : h \in Page(p)) <=>
                   \/ h \in F \union L \union M \union inUse
                   \/ \E t \in Thread : Handing(t) /\ old[t] = h
      BY <2>2, <3>3, <3>4, <3>5 DEF Placed
    <3>7. \A h : h \in UNION {Page(p) : p \in 0..(pages - 1)} <=>
                   h \in F \union L \union M \union inUse \union UNION {InHand(t) : t \in Thread}
      BY <3>1, <3>2, <3>6
    <3>8. QED BY <2>3, <3>7 DEF NoHandleLost
  <2>7. QED BY <2>2, <2>5, <2>6 DEF EveryHandleOnce
<1>2. QED BY <1>1, InvHolds, PTL
=============================================================================
