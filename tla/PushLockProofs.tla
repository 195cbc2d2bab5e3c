--------------------------- MODULE PushLockProofs ---------------------------
(***************************************************************************)
(* The push lock, for any finite set of threads and any number of calls.   *)
(* The chain of wait blocks is a stretch of a log s of all pushes that     *)
(* were ever made: the invariant says that there is a log, with positions  *)
(* in it, that the pointers of the blocks agree with.                      *)
(*                                                                         *)
(*   lo..hi   the chain from its end to its top, empty when lo = hi + 1    *)
(*   kn       the position nearest the top whose last pointer is set       *)
(*   at, tp   of a thread that walks the chain, the positions of its block *)
(*            and of the top it started from; of a thread that wakes,      *)
(*            those of the first and the last block it still has to wake   *)
(*   live     the positions of the blocks that are not signaled yet        *)
(***************************************************************************)
EXTENDS PushLock, FiniteSetTheorems, TLAPS

USE PushLockAssumption

Log == [Nat -> Thread \union {Null}]

Pc == {"Idle", "Acquire", "InitGate", "Spin", "GateWait", "Optimize",
       "StopOptimizing", "Wake", "Signal", "FindEnd", "Decrement",
       "Unlock", "TryToWake", "SetWaking"}

(* Who has the Waking bit. *)
Owns(t) == pc[t] \in {"Optimize", "StopOptimizing", "Wake"}

Waiter   == {"Optimize", "StopOptimizing", "Wake", "Signal", "InitGate", "Spin", "GateWait"}
Releaser == {"FindEnd", "Decrement", "Unlock"}

PcOK ==
  \A t \in Thread :
    /\ pc[t] \in {"Acquire", "InitGate", "Spin", "GateWait", "Optimize", "StopOptimizing"}
         => want[t] \in Modes
    /\ pc[t] \in {"Idle", "TryToWake", "SetWaking"} \union Releaser => want[t] = "None"
    /\ holds[t] # "None" => pc[t] \in {"Idle"} \union Releaser
    /\ pc[t] \in Releaser => holds[t] = "Shared"
    /\ pc[t] = "GateWait" => ~spinning[t]
    /\ pc[t] = "StopOptimizing" => old[t].locked
    /\ Owns(t) => (old[t].multiple => old[t].locked)
    /\ pc[t] \in {"Wake", "SetWaking"} => ~old[t].multiple
    /\ pc[t] = "SetWaking" => cur[t] = old[t].top /\ old[t].waiting

Sharers   == {t \in Thread : holds[t] = "Shared"}
Remaining == {t \in Thread : holds[t] = "Shared" /\ pc[t] # "Unlock"}
Alone(t)  == \A u \in Thread : holds[u] # "None" => u = t

(* The lock bit stands for the owners; an exclusive one is alone. *)
Held ==
  /\ word.locked <=> \E t \in Thread : holds[t] # "None"
  /\ \A t \in Thread : holds[t] = "Exclusive" => Alone(t)

(* Without waiters the share count is in the word. *)
CountInWord ==
  ~word.waiting => /\ word.share = Cardinality(Sharers)
                   /\ ~word.multiple
                   /\ \A t \in Thread : pc[t] \notin Releaser

(* With waiters, a count above one is in the block at the end of the       *)
(* chain, and the one that takes it to zero is alone.                      *)
CountInBlock(end) ==
  /\ word.waiting => /\ word.share = 0
                     /\ ~word.multiple => \A t \in Thread : holds[t] # "None" => Alone(t)
  /\ word.multiple => /\ exclusive[end]
                      /\ shareCount[end] = Cardinality(Remaining)
                      /\ word.locked
                      /\ \A t \in Thread : holds[t] # "Exclusive"
                      /\ \A t \in Thread : pc[t] = "Unlock" => Alone(t)
  /\ \A t \in Thread : pc[t] \in {"FindEnd", "Decrement"} => word.multiple

(* The word and the next pointers. *)
Shape(s, lo, hi) ==
  /\ 1 <= lo /\ lo <= hi + 1
  /\ word.waiting <=> lo <= hi
  /\ lo <= hi => word.top = s[hi]
  /\ lo > hi => word.top = Null
  /\ \A q \in lo + 1..hi : next[s[q]] = s[q - 1]

(* The last and previous pointers: a walk towards the end stops at kn.     *)
Ends(s, lo, hi, kn) ==
  lo <= hi =>
    /\ lo <= kn /\ kn <= hi
    /\ last[s[kn]] = s[lo]
    /\ \A q \in kn + 1..hi : last[s[q]] = Null
    /\ \A q \in lo..kn - 1 : previous[s[q]] = s[q + 1]
    /\ \A q \in lo..hi - 1 : previous[s[q]] \in {Null, s[q + 1]}
    /\ previous[s[hi]] = Null

(* The owner of the Waking bit has put in the previous pointers behind it. *)
OwnersOK(s, lo, hi, kn, at, tp) ==
  /\ word.waking <=> \E t \in Thread : Owns(t)
  /\ \A t, u \in Thread : Owns(t) /\ Owns(u) => t = u
  /\ word.waking => word.waiting
  /\ \A t \in Thread : Owns(t) =>
       /\ lo <= at[t] /\ at[t] <= tp[t] /\ tp[t] <= hi
       /\ pc[t] # "StopOptimizing" => kn <= at[t]
       /\ cur[t] = s[at[t]] /\ old[t].top = s[tp[t]]
       /\ previous[s[tp[t]]] = Null
       /\ \A q \in at[t]..tp[t] - 1 : previous[s[q]] = s[q + 1]
       /\ word.multiple => old[t].multiple

(* A shared owner that looks for the end of the chain finds it. *)
ReadersOK(s, lo, hi, at) ==
  \A t \in Thread :
    /\ pc[t] = "FindEnd" =>
         /\ lo <= at[t] /\ at[t] <= hi /\ cur[t] = s[at[t]]
         /\ \E p \in lo..at[t] : /\ last[s[p]] = s[lo]
                                 /\ \A q \in p + 1..at[t] : last[s[q]] = Null
    /\ pc[t] = "Decrement" => cur[t] = s[lo]

(* Threads that wake have taken separate stretches off the chain. *)
SignalersOK(s, lo, at, tp) ==
  /\ \A t \in Thread : pc[t] = "Signal" =>
       /\ at[t] <= tp[t] /\ tp[t] < lo
       /\ cur[t] = s[at[t]]
       /\ \A q \in at[t]..tp[t] - 1 : previous[s[q]] = s[q + 1]
       /\ previous[s[tp[t]]] = Null
  /\ \A t, u \in Thread : pc[t] = "Signal" /\ pc[u] = "Signal" /\ t # u =>
       tp[t] < at[u] \/ tp[u] < at[t]

(* The thread is between its push and its wake. *)
Listed(u) ==
  /\ u \in Thread /\ ~signaled[u] /\ want[u] # "None" /\ pc[u] \in Waiter
  /\ pc[u] # "GateWait" => spinning[u]
  /\ pc[u] \in {"Spin", "GateWait"} => ~gate[u]

LiveOK(s, lo, hi, at, tp, live) ==
  /\ live \subseteq 1..hi
  /\ \A q \in live : Listed(s[q])
  /\ \A q, r \in live : s[q] = s[r] => q = r
  /\ lo..hi \subseteq live
  /\ \A t \in Thread : pc[t] = "Signal" => at[t]..tp[t] \subseteq live

(* NoForgottenWaiters, with the compare-exchange of SetWaking counted only *)
(* while it can succeed.                                                   *)
WillWake(t) ==
  \/ pc[t] \in {"Acquire", "Optimize", "StopOptimizing", "Wake", "Signal", "TryToWake"}
  \/ pc[t] = "SetWaking" /\ old[t] = [word EXCEPT !.waking = TRUE]
  \/ pc[t] \in {"InitGate", "Spin"} /\ ~spinning[t]
  \/ pc[t] = "GateWait" /\ gate[t]

Tended == word.waiting /\ ~word.locked => \E t \in Thread : WillWake(t)

LockOK(end) == Held /\ CountInWord /\ CountInBlock(end)

Sound(s, lo, hi, kn, at, tp, live) ==
  /\ TypeOK
  /\ PcOK
  /\ LockOK(s[lo])
  /\ Shape(s, lo, hi)
  /\ Ends(s, lo, hi, kn)
  /\ OwnersOK(s, lo, hi, kn, at, tp)
  /\ ReadersOK(s, lo, hi, at)
  /\ SignalersOK(s, lo, at, tp)
  /\ LiveOK(s, lo, hi, at, tp, live)
  /\ Tended

Inv ==
  \E s \in Log, lo, hi, kn \in Nat, at, tp \in [Thread -> Nat], live \in SUBSET Nat :
    Sound(s, lo, hi, kn, at, tp, live)
-----------------------------------------------------------------------------
(***************************************************************************)
(* What a step leaves alone.                                               *)
(***************************************************************************)
(* A log with its positions is what the invariant asks for. *)
LEMMA Witnessed ==
  ASSUME NEW s \in Log, NEW lo \in Nat, NEW hi \in Nat, NEW kn \in Nat,
         NEW at \in [Thread -> Nat], NEW tp \in [Thread -> Nat], NEW live \in SUBSET Nat,
         Sound(s, lo, hi, kn, at, tp, live)'
  PROVE  Inv'
BY ZenonT(60) DEF Inv

LEMMA SharersFinite ==
  /\ IsFiniteSet(Sharers) /\ IsFiniteSet(Remaining)
  /\ Cardinality(Sharers) \in Nat /\ Cardinality(Remaining) \in Nat
<1>1. Sharers \in SUBSET Thread /\ Remaining \in SUBSET Thread
  BY DEF Sharers, Remaining
<1>2. IsFiniteSet(Sharers) /\ IsFiniteSet(Remaining)
  BY <1>1, FS_Subset
<1> QED  BY <1>2, FS_CardinalityType

(* Steps that leave the chain to those who are at it. *)
LEMMA OwnersStay ==
  ASSUME NEW s \in Log, NEW lo \in Nat, NEW hi \in Nat, NEW kn \in Nat,
         NEW at \in [Thread -> Nat], NEW tp \in [Thread -> Nat],
         OwnersOK(s, lo, hi, kn, at, tp),
         \A u \in Thread : pc'[u] = pc[u] \/ (~Owns(u) /\ ~Owns(u)'),
         \A u \in Thread : Owns(u) => cur'[u] = cur[u] /\ old'[u] = old[u],
         previous' = previous,
         word'.waking <=> word.waking, word'.waiting <=> word.waiting,
         word'.multiple => word.multiple
  PROVE  OwnersOK(s, lo, hi, kn, at, tp)'
<1>1. \A u \in Thread : Owns(u)' <=> Owns(u)
  BY DEF Owns
<1>2. \A u \in Thread : Owns(u) => pc'[u] = pc[u]
  OBVIOUS
<1> QED  BY <1>1, <1>2 DEF OwnersOK

LEMMA ReadersStay ==
  ASSUME NEW s \in Log, NEW lo \in Nat, NEW hi \in Nat, NEW at \in [Thread -> Nat],
         ReadersOK(s, lo, hi, at),
         \A u \in Thread : pc'[u] \in {"FindEnd", "Decrement"} =>
                             pc'[u] = pc[u] /\ cur'[u] = cur[u],
         last' = last
  PROVE  ReadersOK(s, lo, hi, at)'
BY DEF ReadersOK

LEMMA SignalersStay ==
  ASSUME NEW s \in Log, NEW lo \in Nat, NEW at \in [Thread -> Nat], NEW tp \in [Thread -> Nat],
         SignalersOK(s, lo, at, tp),
         \A u \in Thread : pc'[u] = "Signal" => pc[u] = "Signal" /\ cur'[u] = cur[u],
         previous' = previous
  PROVE  SignalersOK(s, lo, at, tp)'
BY DEF SignalersOK

LEMMA LiveStays ==
  ASSUME NEW s \in Log, NEW lo \in Nat, NEW hi \in Nat,
         NEW at \in [Thread -> Nat], NEW tp \in [Thread -> Nat], NEW live \in SUBSET Nat,
         LiveOK(s, lo, hi, at, tp, live),
         \A u : Listed(u) => Listed(u)',
         \A u \in Thread : pc'[u] = "Signal" => pc[u] = "Signal"
  PROVE  LiveOK(s, lo, hi, at, tp, live)'
BY DEF LiveOK

LEMMA ShapeStays ==
  ASSUME NEW s \in Log, NEW lo \in Nat, NEW hi \in Nat, Shape(s, lo, hi),
         word'.waiting <=> word.waiting, word'.top = word.top, next' = next
  PROVE  Shape(s, lo, hi)'
BY DEF Shape

LEMMA EndsStay ==
  ASSUME NEW s \in Log, NEW lo \in Nat, NEW hi \in Nat, NEW kn \in Nat,
         Ends(s, lo, hi, kn), last' = last, previous' = previous
  PROVE  Ends(s, lo, hi, kn)'
BY DEF Ends

(* Steps that leave the lock to its owners. *)
LEMMA LockStays ==
  ASSUME NEW end, LockOK(end), word' = word \/ word' = [word EXCEPT !.waking = word'.waking],
         word \in Word,
         holds' = holds, exclusive' = exclusive, shareCount' = shareCount,
         \A u \in Thread : pc'[u] = pc[u] \/ (pc[u] \notin Releaser /\ pc'[u] \notin Releaser)
  PROVE  LockOK(end)'
<1>1. /\ word'.locked <=> word.locked
      /\ word'.waiting <=> word.waiting
      /\ word'.multiple <=> word.multiple
      /\ word'.share = word.share
  BY DEF Word
<1>2. Sharers' = Sharers /\ Remaining' = Remaining
  BY DEF Sharers, Remaining, Releaser
<1>3. \A u \in Thread : Alone(u)' <=> Alone(u)
  BY DEF Alone
<1>4. \A u \in Thread : pc'[u] \in Releaser => pc'[u] = pc[u]
  OBVIOUS
<1> QED  BY <1>1, <1>2, <1>3, <1>4 DEF LockOK, Held, CountInWord, CountInBlock, Releaser
(* A step that frees nothing and takes the duty to wake from nobody.       *)
LEMMA TendedStays ==
  ASSUME Tended, word'.waiting => word.waiting, word.locked => word'.locked,
         \A u \in Thread : WillWake(u) => WillWake(u)'
  PROVE  Tended'
BY DEF Tended

(* TypeOK, one variable at a time. *)
LEMMA Typed ==
  ASSUME word' \in Word,
         next' \in [Thread -> Thread \union {Null}],
         last' \in [Thread -> Thread \union {Null}],
         previous' \in [Thread -> Thread \union {Null}],
         shareCount' \in [Thread -> Nat],
         exclusive' \in [Thread -> BOOLEAN], spinning' \in [Thread -> BOOLEAN],
         signaled' \in [Thread -> BOOLEAN], gate' \in [Thread -> BOOLEAN],
         pc' \in [Thread -> Pc],
         want' \in [Thread -> Modes \union {"None"}],
         holds' \in [Thread -> Modes \union {"None"}],
         old' \in [Thread -> Word], cur' \in [Thread -> Thread \union {Null}],
         acquires' \in [Thread -> Nat], \A t \in Thread : acquires'[t] <= MaxAcquires[t]
  PROVE  TypeOK'
BY DEF TypeOK, Pc

LEMMA Unpack ==
  ASSUME NEW s \in Log, NEW lo \in Nat, NEW hi \in Nat, NEW kn \in Nat,
         NEW at \in [Thread -> Nat], NEW tp \in [Thread -> Nat], NEW live \in SUBSET Nat,
         Sound(s, lo, hi, kn, at, tp, live)
  PROVE  /\ word \in Word
         /\ next \in [Thread -> Thread \union {Null}]
         /\ last \in [Thread -> Thread \union {Null}]
         /\ previous \in [Thread -> Thread \union {Null}]
         /\ shareCount \in [Thread -> Nat]
         /\ exclusive \in [Thread -> BOOLEAN]
         /\ spinning \in [Thread -> BOOLEAN]
         /\ signaled \in [Thread -> BOOLEAN]
         /\ gate \in [Thread -> BOOLEAN]
         /\ pc \in [Thread -> Pc]
         /\ want \in [Thread -> Modes \union {"None"}]
         /\ holds \in [Thread -> Modes \union {"None"}]
         /\ old \in [Thread -> Word]
         /\ cur \in [Thread -> Thread \union {Null}]
         /\ acquires \in [Thread -> Nat]
         /\ \A t \in Thread : acquires[t] <= MaxAcquires[t]
BY DEF Sound, TypeOK, Pc

-----------------------------------------------------------------------------
(* Records of type Word. *)
LEMMA WordShare == ASSUME word \in Word PROVE word.share \in Nat
BY DEF Word

LEMMA NewWord ==
  ASSUME NEW w \in Word, NEW l \in BOOLEAN, NEW n \in Nat
  PROVE  /\ [w EXCEPT !.locked = l, !.share = n] \in Word
         /\ [w EXCEPT !.locked = l, !.share = n].locked <=> l
         /\ [w EXCEPT !.locked = l, !.share = n].share = n
         /\ [w EXCEPT !.locked = l, !.share = n].waiting <=> w.waiting
         /\ [w EXCEPT !.locked = l, !.share = n].waking <=> w.waking
         /\ [w EXCEPT !.locked = l, !.share = n].multiple <=> w.multiple
         /\ [w EXCEPT !.locked = l, !.share = n].top = w.top
BY DEF Word

(***************************************************************************)
(* Acquiring.                                                              *)
(***************************************************************************)
LEMMA CallKeeps ==
  ASSUME NEW s \in Log, NEW lo \in Nat, NEW hi \in Nat, NEW kn \in Nat,
         NEW at \in [Thread -> Nat], NEW tp \in [Thread -> Nat], NEW live \in SUBSET Nat,
         Sound(s, lo, hi, kn, at, tp, live),
         NEW t \in Thread, NEW m \in Modes, Call(t, m)
  PROVE  Inv'
<1>1. /\ pc[t] = "Idle" /\ holds[t] = "None"
      /\ pc'[t] = "Acquire" /\ want'[t] = m
      /\ \A u \in Thread : u # t => pc'[u] = pc[u] /\ want'[u] = want[u]
      /\ acquires' = [acquires EXCEPT ![t] = @ + 1] /\ acquires[t] < MaxAcquires[t]
      /\ pc' = [pc EXCEPT ![t] = "Acquire"] /\ want' = [want EXCEPT ![t] = m]
      /\ UNCHANGED <<word, chainVars, wakeVars, holds, old, cur>>
  BY Unpack DEF Call, Goto
<1>2. UNCHANGED <<word, next, last, previous, shareCount, exclusive, spinning,
                  signaled, gate, holds, old, cur>>
  BY <1>1 DEF chainVars, wakeVars
<1>3. TypeOK'
  <2>1. want' \in [Thread -> Modes \union {"None"}] /\ pc' \in [Thread -> Pc]
    BY <1>1, Unpack DEF Pc
  <2>2. acquires' \in [Thread -> Nat] /\ \A u \in Thread : acquires'[u] <= MaxAcquires[u]
    <3>1. /\ acquires \in [Thread -> Nat] /\ MaxAcquires[t] \in Nat
          /\ \A u \in Thread : acquires[u] <= MaxAcquires[u]
      BY Unpack
    <3>2. acquires[t] + 1 \in Nat /\ acquires[t] + 1 <= MaxAcquires[t]
      BY <1>1, <3>1
    <3> QED  BY <1>1, <3>1, <3>2
  <2> QED  BY <1>2, <2>1, <2>2, Unpack, Typed
<1>4. PcOK'
  BY <1>1, <1>2 DEF Sound, PcOK, Modes, Owns, Releaser
<1>5. LockOK(s[lo])'
  BY <1>1, <1>2, LockStays, Unpack DEF Sound, Releaser
<1>6. Shape(s, lo, hi)' /\ Ends(s, lo, hi, kn)'
  BY <1>2, ShapeStays, EndsStay DEF Sound
<1>7. OwnersOK(s, lo, hi, kn, at, tp)'
  BY <1>1, <1>2, OwnersStay DEF Sound, Owns
<1>8. ReadersOK(s, lo, hi, at)' /\ SignalersOK(s, lo, at, tp)'
  BY <1>1, <1>2, ReadersStay, SignalersStay DEF Sound
<1>9. LiveOK(s, lo, hi, at, tp, live)'
  BY <1>1, <1>2, LiveStays DEF Sound, Listed, Waiter
<1>10. Tended'
  BY <1>1, <1>2, TendedStays DEF Sound, WillWake
<1> QED  BY <1>3, <1>4, <1>5, <1>6, <1>7, <1>8, <1>9, <1>10, Witnessed DEF Sound

LEMMA InitGateKeeps ==
  ASSUME NEW s \in Log, NEW lo \in Nat, NEW hi \in Nat, NEW kn \in Nat,
         NEW at \in [Thread -> Nat], NEW tp \in [Thread -> Nat], NEW live \in SUBSET Nat,
         Sound(s, lo, hi, kn, at, tp, live),
         NEW t \in Thread, InitGate(t)
  PROVE  Inv'
<1>1. /\ pc[t] = "InitGate"
      /\ pc' = [pc EXCEPT ![t] = "Spin"] /\ gate' = [gate EXCEPT ![t] = FALSE]
      /\ pc'[t] = "Spin" /\ ~gate'[t]
      /\ \A u \in Thread : u # t => pc'[u] = pc[u] /\ gate'[u] = gate[u]
      /\ UNCHANGED <<word, next, last, previous, shareCount, exclusive, spinning,
                     signaled, want, holds, old, cur, acquires>>
  BY Unpack DEF InitGate, Goto, chainVars
<1>2. TypeOK'
  <2>1. pc' \in [Thread -> Pc]
    BY <1>1, Unpack DEF Pc
  <2> QED  BY <1>1, <2>1, Unpack, Typed
<1>3. PcOK'
  BY <1>1 DEF Sound, PcOK, Modes, Owns, Releaser
<1>4. LockOK(s[lo])'
  BY <1>1, LockStays, Unpack DEF Sound, Releaser
<1>5. Shape(s, lo, hi)' /\ Ends(s, lo, hi, kn)'
  BY <1>1, ShapeStays, EndsStay DEF Sound
<1>6. OwnersOK(s, lo, hi, kn, at, tp)'
  BY <1>1, OwnersStay DEF Sound, Owns
<1>7. ReadersOK(s, lo, hi, at)' /\ SignalersOK(s, lo, at, tp)'
  BY <1>1, ReadersStay, SignalersStay DEF Sound
<1>8. LiveOK(s, lo, hi, at, tp, live)'
  BY <1>1, LiveStays DEF Sound, Listed, Waiter
<1>9. Tended'
  BY <1>1, TendedStays DEF Sound, WillWake
<1> QED  BY <1>2, <1>3, <1>4, <1>5, <1>6, <1>7, <1>8, <1>9, Witnessed DEF Sound

LEMMA StopSpinningKeeps ==
  ASSUME NEW s \in Log, NEW lo \in Nat, NEW hi \in Nat, NEW kn \in Nat,
         NEW at \in [Thread -> Nat], NEW tp \in [Thread -> Nat], NEW live \in SUBSET Nat,
         Sound(s, lo, hi, kn, at, tp, live),
         NEW t \in Thread, StopSpinning(t)
  PROVE  Inv'
<1>1. /\ pc[t] = "Spin"
      /\ spinning' = [spinning EXCEPT ![t] = FALSE] /\ ~spinning'[t]
      /\ pc' = [pc EXCEPT ![t] = IF spinning[t] THEN "GateWait" ELSE "Acquire"]
      /\ spinning[t] => pc'[t] = "GateWait"
      /\ ~spinning[t] => pc'[t] = "Acquire"
      /\ \A u \in Thread : u # t => pc'[u] = pc[u] /\ spinning'[u] = spinning[u]
      /\ UNCHANGED <<word, next, last, previous, shareCount, exclusive, gate,
                     signaled, want, holds, old, cur, acquires>>
  BY Unpack DEF StopSpinning, Goto, chainVars
<1>2. TypeOK'
  <2>1. pc' \in [Thread -> Pc]
    BY <1>1, Unpack DEF Pc
  <2> QED  BY <1>1, <2>1, Unpack, Typed
<1>3. PcOK'
  BY <1>1 DEF Sound, PcOK, Modes, Owns, Releaser
<1>4. LockOK(s[lo])'
  BY <1>1, LockStays, Unpack DEF Sound, Releaser
<1>5. Shape(s, lo, hi)' /\ Ends(s, lo, hi, kn)'
  BY <1>1, ShapeStays, EndsStay DEF Sound
<1>6. OwnersOK(s, lo, hi, kn, at, tp)'
  BY <1>1, OwnersStay DEF Sound, Owns
<1>7. ReadersOK(s, lo, hi, at)' /\ SignalersOK(s, lo, at, tp)'
  BY <1>1, ReadersStay, SignalersStay DEF Sound
<1>8. LiveOK(s, lo, hi, at, tp, live)'
  BY <1>1, LiveStays DEF Sound, Listed, Waiter
<1>9. Tended'
  BY <1>1, TendedStays DEF Sound, WillWake
<1> QED  BY <1>2, <1>3, <1>4, <1>5, <1>6, <1>7, <1>8, <1>9, Witnessed DEF Sound

LEMMA GateWaitKeeps ==
  ASSUME NEW s \in Log, NEW lo \in Nat, NEW hi \in Nat, NEW kn \in Nat,
         NEW at \in [Thread -> Nat], NEW tp \in [Thread -> Nat], NEW live \in SUBSET Nat,
         Sound(s, lo, hi, kn, at, tp, live),
         NEW t \in Thread, GateWait(t)
  PROVE  Inv'
<1>1. /\ pc[t] = "GateWait" /\ gate[t]
      /\ pc' = [pc EXCEPT ![t] = "Acquire"] /\ gate' = [gate EXCEPT ![t] = FALSE]
      /\ pc'[t] = "Acquire"
      /\ \A u \in Thread : u # t => pc'[u] = pc[u] /\ gate'[u] = gate[u]
      /\ UNCHANGED <<word, next, last, previous, shareCount, exclusive, spinning,
                     signaled, want, holds, old, cur, acquires>>
  BY Unpack DEF GateWait, Goto, chainVars
<1>2. TypeOK'
  <2>1. pc' \in [Thread -> Pc]
    BY <1>1, Unpack DEF Pc
  <2> QED  BY <1>1, <2>1, Unpack, Typed
<1>3. PcOK'
  BY <1>1 DEF Sound, PcOK, Modes, Owns, Releaser
<1>4. LockOK(s[lo])'
  BY <1>1, LockStays, Unpack DEF Sound, Releaser
<1>5. Shape(s, lo, hi)' /\ Ends(s, lo, hi, kn)'
  BY <1>1, ShapeStays, EndsStay DEF Sound
<1>6. OwnersOK(s, lo, hi, kn, at, tp)'
  BY <1>1, OwnersStay DEF Sound, Owns
<1>7. ReadersOK(s, lo, hi, at)' /\ SignalersOK(s, lo, at, tp)'
  BY <1>1, ReadersStay, SignalersStay DEF Sound
<1>8. LiveOK(s, lo, hi, at, tp, live)'
  BY <1>1, LiveStays DEF Sound, Listed, Waiter
<1>9. Tended'
  BY <1>1, TendedStays DEF Sound, WillWake
<1> QED  BY <1>2, <1>3, <1>4, <1>5, <1>6, <1>7, <1>8, <1>9, Witnessed DEF Sound

LEMMA TakeKeeps ==
  ASSUME NEW s \in Log, NEW lo \in Nat, NEW hi \in Nat, NEW kn \in Nat,
         NEW at \in [Thread -> Nat], NEW tp \in [Thread -> Nat], NEW live \in SUBSET Nat,
         Sound(s, lo, hi, kn, at, tp, live),
         NEW t \in Thread, Take(t)
  PROVE  Inv'
<1>1. /\ pc[t] = "Acquire" /\ MayTake(want[t]) /\ word' = TakenWord(want[t])
      /\ holds' = [holds EXCEPT ![t] = want[t]]
      /\ want' = [want EXCEPT ![t] = "None"]
      /\ pc' = [pc EXCEPT ![t] = "Idle"]
      /\ UNCHANGED <<next, last, previous, shareCount, exclusive, spinning,
                     signaled, gate, old, cur, acquires>>
  BY DEF Take, Goto, chainVars, wakeVars
<1>2. /\ pc'[t] = "Idle" /\ holds'[t] = want[t] /\ want'[t] = "None"
      /\ \A u \in Thread : u # t => /\ pc'[u] = pc[u]
                                    /\ holds'[u] = holds[u]
                                    /\ want'[u] = want[u]
  BY <1>1, Unpack
<1>3. /\ want[t] \in Modes /\ holds[t] = "None"
  BY <1>1 DEF Sound, PcOK, Releaser
<1>4. PICK n \in Nat : n = IF want[t] = "Shared" /\ ~word.waiting THEN word.share + 1 ELSE word.share
  BY WordShare DEF Sound, TypeOK
<1>5. /\ word \in Word /\ word' \in Word /\ word'.locked
      /\ word'.waiting <=> word.waiting
      /\ word'.waking <=> word.waking
      /\ word'.multiple <=> word.multiple
      /\ word'.top = word.top
      /\ word'.share = n
  <2>1. word' = [word EXCEPT !.locked = TRUE, !.share = n]
    BY <1>1, <1>4 DEF TakenWord
  <2>2. word \in Word
    BY Unpack
  <2> QED  BY ZenonT(60), <2>1, <2>2, NewWord
<1>6. TypeOK'
  <2>1. pc' \in [Thread -> Pc]
    BY <1>1, Unpack DEF Pc
  <2>2. holds' \in [Thread -> Modes \union {"None"}] /\ want' \in [Thread -> Modes \union {"None"}]
    BY <1>1, <1>3, Unpack
  <2> QED  BY <1>1, <1>5, <2>1, <2>2, Unpack, Typed
<1>7. PcOK'
  BY <1>1, <1>2 DEF Sound, PcOK, Modes, Owns, Releaser
<1>8. /\ \A u \in Thread : holds[u] # "Exclusive"
      /\ want[t] = "Exclusive" \/ word.waiting => \A u \in Thread : holds[u] = "None"
      /\ ~word.multiple
  <2>1. CASE ~word.locked
    <3>1. \A u \in Thread : holds[u] = "None"
      BY <2>1 DEF Sound, LockOK, Held
    <3>2. ~word.multiple
      BY <2>1 DEF Sound, LockOK, CountInBlock
    <3> QED  BY <3>1, <3>2
  <2>2. CASE word.locked
    <3>1. want[t] = "Shared" /\ ~word.waiting /\ word.share > 0
      BY <1>1, <2>2 DEF MayTake
    <3>2. Sharers # {} /\ ~word.multiple
      BY SMTT(30), <3>1, FS_EmptySet DEF Sound, LockOK, CountInWord
    <3>3. \A u \in Thread : holds[u] # "Exclusive"
      BY <3>2 DEF Sharers, Sound, LockOK, Held, Alone
    <3> QED  BY <3>1, <3>2, <3>3
  <2> QED  BY <2>1, <2>2
<1>9. LockOK(s[lo])'
  <2>1. Held'
    <3>1. \A u \in Thread : holds'[u] = "Exclusive" => Alone(u)'
      <4> SUFFICES ASSUME NEW u \in Thread, holds'[u] = "Exclusive" PROVE Alone(u)'
        OBVIOUS
      <4>1. u = t
        BY <1>2, <1>8
      <4>2. \A v \in Thread : v # t => holds'[v] = "None"
        BY <1>2, <1>8, <4>1
      <4> QED  BY <4>1, <4>2 DEF Alone
    <3>2. holds'[t] # "None"
      BY <1>2, <1>3 DEF Modes
    <3> QED  BY <1>5, <3>1, <3>2 DEF Held
  <2>2. \A u \in Thread : pc'[u] \in Releaser => pc'[u] = pc[u]
    BY <1>2 DEF Releaser
  <2>3. CountInWord'
    <3> SUFFICES ASSUME ~word.waiting PROVE CountInWord'
      BY <1>5 DEF CountInWord
    <3>1. word.share = Cardinality(Sharers) /\ \A u \in Thread : pc[u] \notin Releaser
      BY DEF Sound, LockOK, CountInWord
    <3>2. word'.share = Cardinality(Sharers)'
      <4>1. CASE want[t] = "Shared"
        <5>1. Sharers' = Sharers \union {t} /\ t \notin Sharers
          BY <1>2, <1>3, <4>1 DEF Sharers
        <5>2. Cardinality(Sharers)' = Cardinality(Sharers) + 1
          BY <5>1, SharersFinite, FS_AddElement
        <5> QED  BY <1>4, <1>5, <3>1, <4>1, <5>2
      <4>2. CASE want[t] # "Shared"
        <5>1. Sharers' = Sharers
          BY <1>2, <1>3, <4>2 DEF Sharers
        <5> QED  BY <1>4, <1>5, <3>1, <4>2, <5>1
      <4> QED  BY <4>1, <4>2
    <3> QED  BY <1>5, <1>8, <2>2, <3>1, <3>2 DEF CountInWord
  <2>4. CountInBlock(s[lo])'
    <3>1. word'.waiting => word'.share = 0
      BY <1>4, <1>5 DEF Sound, LockOK, CountInBlock
    <3>2. word'.waiting => \A u \in Thread : holds'[u] # "None" => Alone(u)'
      <4> SUFFICES ASSUME word.waiting, NEW u \in Thread, holds'[u] # "None" PROVE Alone(u)'
        BY <1>5
      <4>1. \A v \in Thread : v # t => holds'[v] = "None"
        BY <1>2, <1>8
      <4> QED  BY <4>1 DEF Alone
    <3>3. \A u \in Thread : pc'[u] \notin {"FindEnd", "Decrement"}
      BY <1>2, <1>8 DEF Sound, LockOK, CountInBlock
    <3> QED  BY <1>5, <1>8, <3>1, <3>2, <3>3 DEF CountInBlock
  <2> QED  BY <2>1, <2>3, <2>4 DEF LockOK
<1>10. Shape(s, lo, hi)' /\ Ends(s, lo, hi, kn)'
  BY <1>1, <1>5, ShapeStays, EndsStay DEF Sound
<1>11. OwnersOK(s, lo, hi, kn, at, tp)'
  BY ZenonT(60), <1>1, <1>2, <1>5, OwnersStay DEF Sound, Owns
<1>12. ReadersOK(s, lo, hi, at)' /\ SignalersOK(s, lo, at, tp)'
  BY <1>1, <1>2, ReadersStay, SignalersStay DEF Sound
<1>13. LiveOK(s, lo, hi, at, tp, live)'
  BY ZenonT(60), <1>1, <1>2, LiveStays DEF Sound, Listed, Waiter
<1>14. Tended'
  BY <1>5 DEF Tended
<1> QED  BY <1>6, <1>7, <1>9, <1>10, <1>11, <1>12, <1>13, <1>14, Witnessed DEF Sound

(* The pushed block is the next entry of the log. *)
LEMMA PushKeeps ==
  ASSUME NEW s \in Log, NEW lo \in Nat, NEW hi \in Nat, NEW kn \in Nat,
         NEW at \in [Thread -> Nat], NEW tp \in [Thread -> Nat], NEW live \in SUBSET Nat,
         Sound(s, lo, hi, kn, at, tp, live),
         NEW t \in Thread, Push(t)
  PROVE  Inv'
<1>1. /\ pc[t] = "Acquire" /\ ~MayTake(want[t]) /\ word' = PushedWord(t)
      /\ next' = [next EXCEPT ![t] = word.top]
      /\ last' = [last EXCEPT ![t] = IF word.waiting THEN Null ELSE t]
      /\ previous' = [previous EXCEPT ![t] = Null]
      /\ shareCount' = [shareCount EXCEPT ![t] = IF word.share > 1 THEN word.share ELSE 0]
      /\ exclusive' = [exclusive EXCEPT ![t] = want[t] = "Exclusive"]
      /\ spinning' = [spinning EXCEPT ![t] = TRUE]
      /\ signaled' = [signaled EXCEPT ![t] = FALSE]
      /\ UNCHANGED <<gate, want, holds, acquires>>
  BY DEF Push
<1>2. /\ word \in Word /\ word.share \in Nat /\ want[t] \in Modes /\ holds[t] = "None"
      /\ word.top \in Thread \union {Null}
  <2>1. word \in Word
    BY Unpack
  <2>2. want[t] \in Modes /\ holds[t] = "None"
    BY <1>1 DEF Sound, PcOK, Releaser
  <2> QED  BY <2>1, <2>2 DEF Word
<1>3. /\ word' \in Word
      /\ word'.locked <=> word.locked
      /\ word'.waiting
      /\ word'.waking <=> word.waiting
      /\ word'.multiple <=> word.multiple \/ word.share > 1
      /\ word'.share = 0 /\ word'.top = t
  BY <1>1, <1>2 DEF PushedWord, Word
<1>4. word.locked /\ (word.waiting \/ want[t] = "Exclusive" \/ word.share = 0)
  BY <1>1, <1>2 DEF MayTake, Modes
<1>5. /\ word.waiting /\ ~word.waking =>
           /\ pc' = [pc EXCEPT ![t] = "Optimize"]
           /\ old' = [old EXCEPT ![t] = word'] /\ cur' = [cur EXCEPT ![t] = t]
      /\ ~word.waiting \/ word.waking =>
           pc' = [pc EXCEPT ![t] = "InitGate"] /\ old' = old /\ cur' = cur
  BY <1>1, <1>3 DEF Push, Walk, Goto
<1>6. /\ \A u \in Thread : u # t =>
           /\ next'[u] = next[u] /\ last'[u] = last[u] /\ previous'[u] = previous[u]
           /\ exclusive'[u] = exclusive[u] /\ shareCount'[u] = shareCount[u]
           /\ spinning'[u] = spinning[u] /\ signaled'[u] = signaled[u]
           /\ pc'[u] = pc[u] /\ old'[u] = old[u] /\ cur'[u] = cur[u]
      /\ next'[t] = word.top /\ previous'[t] = Null
      /\ word.waiting => last'[t] = Null
      /\ ~word.waiting => last'[t] = t
      /\ word.share > 1 => shareCount'[t] = word.share
      /\ exclusive'[t] <=> want[t] = "Exclusive"
      /\ spinning'[t] /\ ~signaled'[t]
      /\ pc'[t] = "Optimize" \/ pc'[t] = "InitGate"
      /\ pc'[t] = "Optimize" <=> word.waiting /\ ~word.waking
      /\ pc'[t] = "Optimize" => old'[t] = word' /\ cur'[t] = t
  <2>1. /\ next \in [Thread -> Thread \union {Null}]
        /\ last \in [Thread -> Thread \union {Null}]
        /\ previous \in [Thread -> Thread \union {Null}]
        /\ shareCount \in [Thread -> Nat]
        /\ exclusive \in [Thread -> BOOLEAN]
        /\ spinning \in [Thread -> BOOLEAN] /\ signaled \in [Thread -> BOOLEAN]
    BY Unpack
  <2>2. pc \in [Thread -> Pc] /\ old \in [Thread -> Word] /\ cur \in [Thread -> Thread \union {Null}]
    BY Unpack
  <2>3. pc'[t] = IF word.waiting /\ ~word.waking THEN "Optimize" ELSE "InitGate"
    BY <1>5, <2>2
  <2>4. /\ pc'[t] = "Optimize" \/ pc'[t] = "InitGate"
        /\ pc'[t] = "Optimize" <=> word.waiting /\ ~word.waking
        /\ pc'[t] = "Optimize" => old'[t] = word' /\ cur'[t] = t
        /\ \A u \in Thread : u # t => pc'[u] = pc[u] /\ old'[u] = old[u] /\ cur'[u] = cur[u]
    BY <1>5, <2>2, <2>3
  <2>5. /\ \A u \in Thread : u # t =>
             /\ next'[u] = next[u] /\ last'[u] = last[u] /\ previous'[u] = previous[u]
             /\ shareCount'[u] = shareCount[u]
        /\ next'[t] = word.top /\ previous'[t] = Null
        /\ word.waiting => last'[t] = Null
        /\ ~word.waiting => last'[t] = t
        /\ word.share > 1 => shareCount'[t] = word.share
    BY <1>1, <2>1
  <2>6. /\ \A u \in Thread : u # t =>
             /\ exclusive'[u] = exclusive[u]
             /\ spinning'[u] = spinning[u] /\ signaled'[u] = signaled[u]
        /\ exclusive'[t] <=> want[t] = "Exclusive"
        /\ spinning'[t] /\ ~signaled'[t]
    BY <1>1, <2>1
  <2> QED  BY <2>4, <2>5, <2>6
<1>7. TypeOK'
  <2>1. pc' \in [Thread -> Pc] /\ old' \in [Thread -> Word] /\ cur' \in [Thread -> Thread \union {Null}]
    <3>1. pc \in [Thread -> Pc] /\ old \in [Thread -> Word] /\ cur \in [Thread -> Thread \union {Null}]
      BY Unpack
    <3> QED  BY <1>3, <1>5, <3>1 DEF Pc
  <2>2. /\ next' \in [Thread -> Thread \union {Null}]
        /\ last' \in [Thread -> Thread \union {Null}]
        /\ previous' \in [Thread -> Thread \union {Null}]
    BY <1>1, <1>2, Unpack
  <2>3. shareCount' \in [Thread -> Nat]
    BY <1>1, <1>2, Unpack
  <2>4. /\ exclusive' \in [Thread -> BOOLEAN]
        /\ spinning' \in [Thread -> BOOLEAN] /\ signaled' \in [Thread -> BOOLEAN]
    BY <1>1, Unpack
  <2> QED  BY <1>1, <1>3, <2>1, <2>2, <2>3, <2>4, Unpack, Typed
<1>8. PcOK'
  <2>1. word'.multiple => word'.locked
    BY <1>3, <1>4
  <2> QED  BY <1>1, <1>2, <1>6, <2>1 DEF Sound, PcOK, Modes, Owns, Releaser
<1>9. /\ \A q \in live : s[q] \in Thread /\ s[q] # t /\ 1 <= q /\ q <= hi
      /\ \A q \in lo..hi : q \in live
      /\ \A u \in Thread : pc[u] = "Signal" => \A q \in at[u]..tp[u] : q \in live
      /\ \A q, r \in live : s[q] = s[r] => q = r
  <2>1. LiveOK(s, lo, hi, at, tp, live)
    BY DEF Sound
  <2>2. \A q \in live : s[q] \in Thread /\ pc[s[q]] \in Waiter
    BY <2>1 DEF LiveOK, Listed
  <2>3. \A q \in live : s[q] # t
    BY <1>1, <2>2 DEF Waiter
  <2>4. /\ \A q \in live : 1 <= q /\ q <= hi
        /\ \A q \in lo..hi : q \in live
        /\ \A q, r \in live : s[q] = s[r] => q = r
    BY <2>1 DEF LiveOK
  <2>5. \A u \in Thread : pc[u] = "Signal" => \A q \in at[u]..tp[u] : q \in live
    BY <2>1 DEF LiveOK
  <2> QED  BY <2>2, <2>3, <2>4, <2>5
<1>10. PICK s1 \in Log : s1[hi + 1] = t /\ \A q \in Nat : q # hi + 1 => s1[q] = s[q]
  <2>1. [s EXCEPT ![hi + 1] = t] \in Log
    BY DEF Log
  <2>2. /\ [s EXCEPT ![hi + 1] = t][hi + 1] = t
        /\ \A q \in Nat : q # hi + 1 => [s EXCEPT ![hi + 1] = t][q] = s[q]
    BY DEF Log
  <2> QED  BY <2>1, <2>2
<1>11. PICK at1 \in [Thread -> Nat] : at1[t] = hi + 1 /\ \A u \in Thread : u # t => at1[u] = at[u]
  BY [at EXCEPT ![t] = hi + 1] \in [Thread -> Nat]
<1>12. PICK tp1 \in [Thread -> Nat] : tp1[t] = hi + 1 /\ \A u \in Thread : u # t => tp1[u] = tp[u]
  BY [tp EXCEPT ![t] = hi + 1] \in [Thread -> Nat]
<1>13. PICK kn1 \in Nat : kn1 = IF word.waiting THEN kn ELSE hi + 1
  OBVIOUS
<1>14. /\ 1 <= lo /\ lo <= hi + 1 /\ (word.waiting <=> lo <= hi)
       /\ ~word.waiting => lo = hi + 1
       /\ lo <= hi => word.top = s[hi]
       /\ \A q \in lo + 1..hi : next[s[q]] = s[q - 1]
  BY DEF Sound, Shape
<1>15. /\ \A q \in lo..hi : s1[q] = s[q] /\ s[q] \in Thread /\ s[q] # t
       /\ \A q \in live : s1[q] = s[q]
  BY <1>9, <1>10
<1>16. LockOK(s1[lo])'
  <2>1. Held'
    BY <1>1, <1>3 DEF Sound, LockOK, Held, Alone
  <2>2. CountInWord'
    BY <1>3 DEF CountInWord
  <2>3. Remaining' = Remaining /\ \A u \in Thread : pc'[u] \in Releaser => pc'[u] = pc[u]
    BY <1>1, <1>6 DEF Remaining, Releaser
  <2>4. /\ \A u \in Thread : Alone(u)' <=> Alone(u)
        /\ \A u \in Thread : pc'[u] \in {"FindEnd", "Decrement", "Unlock"} => pc'[u] = pc[u]
    BY <1>1, <2>3 DEF Alone, Releaser
  <2>5. CASE word.waiting
    <3>1. s1[lo] = s[lo] /\ s[lo] \in Thread /\ s[lo] # t
      BY <1>14, <1>15, <2>5
    <3>2. word.share = 0 /\ (word'.multiple <=> word.multiple)
      BY <1>3, <2>5 DEF Sound, LockOK, CountInBlock
    <3>3. CountInBlock(s[lo])
      BY DEF Sound, LockOK
    <3>4. CountInBlock(s1[lo])'
      BY <1>1, <1>3, <1>6, <2>3, <2>4, <2>5, <3>1, <3>2, <3>3 DEF CountInBlock
    <3> QED  BY <2>1, <2>2, <3>4 DEF LockOK
  <2>6. CASE ~word.waiting
    <3>1. s1[lo] = t
      BY <1>10, <1>14, <2>6
    <3>2. /\ word.share = Cardinality(Sharers) /\ ~word.multiple
          /\ \A u \in Thread : pc[u] \notin Releaser
          /\ \A u \in Thread : holds[u] = "Exclusive" => Alone(u)
      BY <2>6 DEF Sound, LockOK, CountInWord, Held
    <3>3. \A u \in Thread : pc'[u] \notin {"FindEnd", "Decrement", "Unlock"}
      BY <2>3, <3>2 DEF Releaser
    <3>4. ASSUME word.share > 1
          PROVE  /\ exclusive'[t] /\ shareCount'[t] = Cardinality(Remaining)'
                 /\ \A u \in Thread : holds[u] # "Exclusive"
      <4>1. want[t] = "Exclusive"
        BY <1>2, <1>4, <2>6, <3>4
      <4>2. Remaining = Sharers
        BY <3>2 DEF Remaining, Sharers, Releaser
      <4>3. ASSUME NEW u \in Thread, holds[u] = "Exclusive" PROVE FALSE
        <5>1. Sharers = {}
          BY <3>2, <4>3 DEF Sharers, Alone
        <5> QED  BY <1>2, <3>2, <3>4, <5>1, FS_EmptySet
      <4> QED  BY <1>6, <2>3, <3>2, <3>4, <4>1, <4>2, <4>3
    <3>5. ASSUME ~(word.share > 1), NEW u \in Thread, holds[u] # "None" PROVE Alone(u)
      <4>1. CASE holds[u] = "Exclusive"
        BY <3>2, <4>1
      <4>2. CASE holds[u] = "Shared"
        <5>1. u \in Sharers
          BY <4>2 DEF Sharers
        <5>2. Cardinality(Sharers) = 1
          <6>1. Cardinality(Sharers) # 0
            BY <5>1, SharersFinite, FS_EmptySet
          <6> QED  BY <1>2, <3>2, <3>5, <6>1
        <5>3. Sharers = {u}
          BY <5>1, <5>2, SharersFinite, FS_Singleton
        <5>4. ASSUME NEW v \in Thread, holds[v] # "None" PROVE v = u
          <6>1. holds[v] # "Exclusive"
            BY <3>2, <4>2 DEF Alone
          <6>2. holds[v] \in Modes \union {"None"}
            BY Unpack
          <6>3. v \in Sharers
            BY <5>4, <6>1, <6>2 DEF Modes, Sharers
          <6> QED  BY <5>3, <6>3
        <5> QED  BY <5>4 DEF Alone
      <4>3. holds[u] \in Modes \union {"None"}
        BY Unpack
      <4> QED  BY <3>5, <4>1, <4>2, <4>3 DEF Modes
    <3>6. CountInBlock(s1[lo])'
      BY <1>1, <1>3, <1>4, <2>4, <3>1, <3>2, <3>3, <3>4, <3>5 DEF CountInBlock
    <3> QED  BY <2>1, <2>2, <3>6 DEF LockOK
  <2> QED  BY <2>5, <2>6
<1>17. Shape(s1, lo, hi + 1)'
  <2>1. \A q \in lo + 1..hi : next'[s1[q]] = s1[q - 1]
    BY <1>6, <1>14, <1>15
  <2>2. lo <= hi => next'[s1[hi + 1]] = s1[hi]
    BY <1>6, <1>10, <1>14, <1>15
  <2>3. \A q \in lo + 1..hi + 1 : next'[s1[q]] = s1[q - 1]
    BY <1>14, <2>1, <2>2
  <2> QED  BY <1>3, <1>10, <1>14, <2>3 DEF Shape
<1>18. Ends(s1, lo, hi + 1, kn1)'
  <2>1. CASE ~word.waiting
    BY <1>6, <1>10, <1>13, <1>14, <2>1 DEF Ends
  <2>2. CASE word.waiting
    <3>1. /\ lo <= hi /\ lo <= kn /\ kn <= hi /\ kn1 = kn
          /\ last[s[kn]] = s[lo]
          /\ \A q \in kn + 1..hi : last[s[q]] = Null
          /\ \A q \in lo..kn - 1 : previous[s[q]] = s[q + 1]
          /\ \A q \in lo..hi - 1 : previous[s[q]] \in {Null, s[q + 1]}
          /\ previous[s[hi]] = Null
      BY <1>13, <1>14, <2>2 DEF Sound, Ends
    <3>2. last'[s1[kn]] = s1[lo]
      BY <1>6, <1>15, <3>1
    <3>3. \A q \in kn + 1..hi + 1 : last'[s1[q]] = Null
      <4>1. \A q \in kn + 1..hi : last'[s1[q]] = Null
        BY <1>6, <1>15, <3>1
      <4>2. last'[s1[hi + 1]] = Null
        BY <1>6, <1>10, <2>2
      <4> QED  BY <4>1, <4>2
    <3>4. \A q \in lo..kn - 1 : previous'[s1[q]] = s1[q + 1]
      BY <1>6, <1>15, <3>1
    <3>5. \A q \in lo..hi : previous'[s1[q]] \in {Null, s1[q + 1]}
      <4>1. \A q \in lo..hi - 1 : previous'[s1[q]] \in {Null, s1[q + 1]}
        BY <1>6, <1>15, <3>1
      <4>2. previous'[s1[hi]] = Null
        BY <1>6, <1>15, <3>1
      <4> QED  BY <4>1, <4>2
    <3>6. previous'[s1[hi + 1]] = Null
      BY <1>6, <1>10
    <3> QED  BY <3>1, <3>2, <3>3, <3>4, <3>5, <3>6 DEF Ends
  <2> QED  BY <2>1, <2>2
<1>19. OwnersOK(s1, lo, hi + 1, kn1, at1, tp1)'
  <2>1. /\ \A u \in Thread : u # t => (Owns(u)' <=> Owns(u))
        /\ ~Owns(t)
        /\ Owns(t)' <=> word.waiting /\ ~word.waking
    BY <1>1, <1>6 DEF Owns
  <2>2. /\ word.waking <=> \E u \in Thread : Owns(u)
        /\ \A u, v \in Thread : Owns(u) /\ Owns(v) => u = v
        /\ word.waking => word.waiting
    BY DEF Sound, OwnersOK
  <2>3. word'.waking <=> \E u \in Thread : Owns(u)'
    BY <1>3, <2>1, <2>2
  <2>4. \A u, v \in Thread : Owns(u)' /\ Owns(v)' => u = v
    BY <2>1, <2>2
  <2>5. ASSUME NEW u \in Thread, Owns(u)', u # t
        PROVE  /\ lo <= at1[u] /\ at1[u] <= tp1[u] /\ tp1[u] <= hi + 1
               /\ pc'[u] # "StopOptimizing" => kn1 <= at1[u]
               /\ cur'[u] = s1[at1[u]] /\ old'[u].top = s1[tp1[u]]
               /\ previous'[s1[tp1[u]]] = Null
               /\ \A q \in at1[u]..tp1[u] - 1 : previous'[s1[q]] = s1[q + 1]
               /\ word'.multiple => old'[u].multiple
    <3>1. Owns(u) /\ word.waiting
      BY <2>1, <2>2, <2>5
    <3>2. /\ lo <= at[u] /\ at[u] <= tp[u] /\ tp[u] <= hi
          /\ pc[u] # "StopOptimizing" => kn <= at[u]
          /\ cur[u] = s[at[u]] /\ old[u].top = s[tp[u]]
          /\ previous[s[tp[u]]] = Null
          /\ \A q \in at[u]..tp[u] - 1 : previous[s[q]] = s[q + 1]
          /\ word.multiple => old[u].multiple
      BY <3>1 DEF Sound, OwnersOK
    <3>3. at1[u] = at[u] /\ tp1[u] = tp[u] /\ at[u] \in Nat /\ tp[u] \in Nat /\ kn1 = kn
      BY <1>11, <1>12, <1>13, <2>5, <3>1
    <3>4. word'.multiple => word.multiple
      BY <1>3, <3>1 DEF Sound, LockOK, CountInBlock
    <3>5. \A q \in at[u]..tp[u] - 1 : previous'[s1[q]] = s1[q + 1]
      BY <1>6, <1>15, <3>2, <3>3
    <3> QED  BY <1>6, <1>15, <2>5, <3>2, <3>3, <3>4, <3>5
  <2>6. ASSUME Owns(t)'
        PROVE  /\ lo <= at1[t] /\ at1[t] <= tp1[t] /\ tp1[t] <= hi + 1
               /\ pc'[t] # "StopOptimizing" => kn1 <= at1[t]
               /\ cur'[t] = s1[at1[t]] /\ old'[t].top = s1[tp1[t]]
               /\ previous'[s1[tp1[t]]] = Null
               /\ \A q \in at1[t]..tp1[t] - 1 : previous'[s1[q]] = s1[q + 1]
               /\ word'.multiple => old'[t].multiple
    <3>1. word.waiting /\ kn1 = kn /\ kn <= hi
      BY <1>13, <1>14, <2>1, <2>6 DEF Sound, Ends
    <3>2. pc'[t] = "Optimize" /\ old'[t] = word' /\ cur'[t] = t
      BY <1>6, <2>1, <2>6
    <3> QED  BY <1>3, <1>6, <1>10, <1>11, <1>12, <1>14, <3>1, <3>2
  <2> QED  BY <1>3, <2>3, <2>4, <2>5, <2>6 DEF OwnersOK
<1>20. ReadersOK(s1, lo, hi + 1, at1)'
  <2>1. ASSUME NEW u \in Thread, pc'[u] \in {"FindEnd", "Decrement"}
        PROVE  u # t /\ pc'[u] = pc[u] /\ cur'[u] = cur[u] /\ at1[u] = at[u] /\ word.waiting
    <3>1. u # t
      BY <1>6, <2>1
    <3>2. word.multiple
      BY <1>6, <2>1, <3>1 DEF Sound, LockOK, CountInBlock
    <3> QED  BY <1>6, <1>11, <3>1, <3>2 DEF Sound, LockOK, CountInWord
  <2>2. ASSUME NEW u \in Thread, pc'[u] = "FindEnd"
        PROVE  /\ lo <= at1[u] /\ at1[u] <= hi + 1 /\ cur'[u] = s1[at1[u]]
               /\ \E p \in lo..at1[u] : /\ last'[s1[p]] = s1[lo]
                                        /\ \A q \in p + 1..at1[u] : last'[s1[q]] = Null
    <3>1. /\ lo <= at[u] /\ at[u] <= hi /\ cur[u] = s[at[u]]
          /\ \E p \in lo..at[u] : /\ last[s[p]] = s[lo]
                                  /\ \A q \in p + 1..at[u] : last[s[q]] = Null
      BY <2>1, <2>2 DEF Sound, ReadersOK
    <3>2. PICK p \in lo..at[u] : last[s[p]] = s[lo] /\ \A q \in p + 1..at[u] : last[s[q]] = Null
      BY <3>1
    <3>3. last'[s1[p]] = s1[lo] /\ \A q \in p + 1..at[u] : last'[s1[q]] = Null
      BY <1>6, <1>15, <3>1, <3>2
    <3> QED  BY <1>15, <2>1, <2>2, <3>1, <3>3
  <2>3. ASSUME NEW u \in Thread, pc'[u] = "Decrement" PROVE cur'[u] = s1[lo]
    BY <1>14, <1>15, <2>1, <2>3 DEF Sound, ReadersOK
  <2> QED  BY <2>2, <2>3 DEF ReadersOK
<1>21. SignalersOK(s1, lo, at1, tp1)'
  <2>1. ASSUME NEW u \in Thread, pc'[u] = "Signal"
        PROVE  /\ u # t /\ pc[u] = "Signal" /\ cur'[u] = cur[u]
               /\ at1[u] = at[u] /\ tp1[u] = tp[u]
    BY <1>6, <1>11, <1>12, <2>1
  <2>2. ASSUME NEW u \in Thread, pc'[u] = "Signal"
        PROVE  /\ at1[u] <= tp1[u] /\ tp1[u] < lo
               /\ cur'[u] = s1[at1[u]]
               /\ \A q \in at1[u]..tp1[u] - 1 : previous'[s1[q]] = s1[q + 1]
               /\ previous'[s1[tp1[u]]] = Null
    <3>1. /\ at[u] <= tp[u] /\ tp[u] < lo /\ cur[u] = s[at[u]]
          /\ \A q \in at[u]..tp[u] - 1 : previous[s[q]] = s[q + 1]
          /\ previous[s[tp[u]]] = Null
      BY <2>1, <2>2 DEF Sound, SignalersOK
    <3>2. \A q \in at[u]..tp[u] : s1[q] = s[q] /\ s[q] \in Thread /\ s[q] # t
      BY <1>9, <1>15, <2>1, <2>2
    <3>3. \A q \in at[u]..tp[u] - 1 : previous'[s1[q]] = s1[q + 1]
      BY <1>6, <3>1, <3>2
    <3> QED  BY <1>6, <2>1, <2>2, <3>1, <3>2, <3>3
  <2>3. \A u, v \in Thread : pc'[u] = "Signal" /\ pc'[v] = "Signal" /\ u # v =>
          tp1[u] < at1[v] \/ tp1[v] < at1[u]
    BY <2>1 DEF Sound, SignalersOK
  <2> QED  BY <2>2, <2>3 DEF SignalersOK
<1>22. LiveOK(s1, lo, hi + 1, at1, tp1, live \union {hi + 1})'
  <2>1. \A q \in live : Listed(s[q])' /\ s1[q] = s[q] /\ s[q] # t
    <3> SUFFICES ASSUME NEW q \in live PROVE Listed(s[q])' /\ s1[q] = s[q] /\ s[q] # t
      OBVIOUS
    <3>1. s[q] \in Thread /\ s1[q] = s[q] /\ s[q] # t
      BY <1>9, <1>15
    <3>2. Listed(s[q])
      BY DEF Sound, LiveOK
    <3> QED  BY <1>1, <1>6, <3>1, <3>2 DEF Listed
  <2>2. Listed(t)'
    BY <1>1, <1>2, <1>6 DEF Listed, Waiter, Modes
  <2>3. \A q \in live \union {hi + 1} : Listed(s1[q])'
    <3>1. s1[hi + 1] = t
      BY <1>10
    <3> QED  BY <2>1, <2>2, <3>1
  <2>4. \A q, r \in live \union {hi + 1} : s1[q] = s1[r] => q = r
    BY <1>9, <1>10, <2>1
  <2>5. live \union {hi + 1} \subseteq 1..hi + 1 /\ lo..hi + 1 \subseteq live \union {hi + 1}
    BY <1>9, <1>14
  <2>6. \A u \in Thread : pc'[u] = "Signal" => at1[u]..tp1[u] \subseteq live \union {hi + 1}
    BY <1>6, <1>9, <1>11, <1>12
  <2> QED  BY <2>3, <2>4, <2>5, <2>6 DEF LiveOK
<1>23. Tended'
  BY <1>3, <1>4 DEF Tended
<1>24. Sound(s1, lo, hi + 1, kn1, at1, tp1, live \union {hi + 1})'
  BY <1>7, <1>8, <1>16, <1>17, <1>18, <1>19, <1>20, <1>21, <1>22, <1>23 DEF Sound
<1> QED  BY <1>24, Witnessed, hi + 1 \in Nat, live \union {hi + 1} \in SUBSET Nat

-----------------------------------------------------------------------------
(***************************************************************************)
(* The owner of the Waking bit.                                            *)
(***************************************************************************)
(* What the owner t knows of its walk and of the chain. *)
OwnerView(s, lo, hi, kn, at, tp, t) ==
  /\ word.waking /\ word.waiting /\ lo <= hi
  /\ \A u \in Thread : Owns(u) => u = t
  /\ lo <= at[t] /\ at[t] <= tp[t] /\ tp[t] <= hi
  /\ at[t] \in Nat /\ tp[t] \in Nat
  /\ pc[t] # "StopOptimizing" => kn <= at[t]
  /\ cur[t] = s[at[t]] /\ old[t].top = s[tp[t]]
  /\ previous[s[tp[t]]] = Null
  /\ \A q \in at[t]..tp[t] - 1 : previous[s[q]] = s[q + 1]
  /\ word.multiple => old[t].multiple
  /\ word.top = s[hi]

(* The blocks of the chain are those of different threads, also from those *)
(* that are being woken.                                                   *)
Distinct(s, lo, hi, at, tp) ==
  /\ \A q \in lo..hi : s[q] \in Thread /\ s[q] # Null
  /\ \A q, r \in lo..hi : s[q] = s[r] => q = r
  /\ \A u \in Thread : pc[u] = "Signal" =>
       \A q \in at[u]..tp[u] : s[q] \in Thread /\ \A r \in lo..hi : s[q] # s[r]

EndsView(s, lo, hi, kn) ==
  /\ lo <= kn /\ kn <= hi
  /\ last[s[kn]] = s[lo] /\ s[lo] # Null
  /\ \A q \in kn + 1..hi : last[s[q]] = Null
  /\ \A q \in lo..kn - 1 : previous[s[q]] = s[q + 1]
  /\ \A q \in lo..hi - 1 : previous[s[q]] \in {Null, s[q + 1]}
  /\ previous[s[hi]] = Null
  /\ \A q \in lo + 1..hi : next[s[q]] = s[q - 1]

(* The invariant, seen by the owner of the Waking bit. *)
LEMMA OwnerAt ==
  ASSUME NEW s \in Log, NEW lo \in Nat, NEW hi \in Nat, NEW kn \in Nat,
         NEW at \in [Thread -> Nat], NEW tp \in [Thread -> Nat], NEW live \in SUBSET Nat,
         Sound(s, lo, hi, kn, at, tp, live),
         NEW t \in Thread, Owns(t)
  PROVE  /\ OwnerView(s, lo, hi, kn, at, tp, t)
         /\ Distinct(s, lo, hi, at, tp)
         /\ EndsView(s, lo, hi, kn)
<1>1. /\ word.waking /\ word.waiting
      /\ \A u \in Thread : Owns(u) => u = t
      /\ lo <= at[t] /\ at[t] <= tp[t] /\ tp[t] <= hi
      /\ pc[t] # "StopOptimizing" => kn <= at[t]
      /\ cur[t] = s[at[t]] /\ old[t].top = s[tp[t]]
      /\ previous[s[tp[t]]] = Null
      /\ \A q \in at[t]..tp[t] - 1 : previous[s[q]] = s[q + 1]
      /\ word.multiple => old[t].multiple
  BY DEF Sound, OwnersOK
<1>2. lo <= hi /\ word.top = s[hi]
  BY <1>1 DEF Sound, Shape
<1>3. /\ \A q \in live : s[q] \in Thread
      /\ \A q, r \in live : s[q] = s[r] => q = r
      /\ \A q \in lo..hi : q \in live
      /\ \A u \in Thread : pc[u] = "Signal" => \A q \in at[u]..tp[u] : q \in live
  <2>1. LiveOK(s, lo, hi, at, tp, live)
    BY DEF Sound
  <2>2. /\ \A q \in live : s[q] \in Thread
        /\ \A q, r \in live : s[q] = s[r] => q = r
    BY <2>1 DEF LiveOK, Listed
  <2>3. \A q \in lo..hi : q \in live
    BY <2>1 DEF LiveOK
  <2>4. \A u \in Thread : pc[u] = "Signal" => \A q \in at[u]..tp[u] : q \in live
    BY <2>1 DEF LiveOK
  <2> QED  BY <2>2, <2>3, <2>4
<1>4. \A u \in Thread : pc[u] = "Signal" =>
        \A q \in at[u]..tp[u] : s[q] \in Thread /\ \A r \in lo..hi : s[q] # s[r]
  <2> SUFFICES ASSUME NEW u \in Thread, pc[u] = "Signal", NEW q \in at[u]..tp[u]
               PROVE  s[q] \in Thread /\ \A r \in lo..hi : s[q] # s[r]
    OBVIOUS
  <2>1. q \in live /\ at[u] \in Nat /\ tp[u] \in Nat
    BY <1>3
  <2>2. q < lo
    BY <2>1 DEF Sound, SignalersOK
  <2> QED  BY <1>3, <2>1, <2>2
<1>5. OwnerView(s, lo, hi, kn, at, tp, t)
  BY <1>1, <1>2 DEF OwnerView
<1>6. Distinct(s, lo, hi, at, tp)
  BY <1>3, <1>4 DEF Distinct
<1>7. EndsView(s, lo, hi, kn)
  <2>1. s[lo] # Null
    BY <1>2, <1>6 DEF Distinct
  <2> QED  BY <1>2, <2>1 DEF Sound, Ends, Shape, EndsView
<1> QED  BY <1>5, <1>6, <1>7

(* One hop of the owner towards the end: it leaves one previous pointer.   *)
LEMMA HopKeeps ==
  ASSUME NEW s \in Log, NEW lo \in Nat, NEW hi \in Nat, NEW kn \in Nat,
         NEW at \in [Thread -> Nat], NEW tp \in [Thread -> Nat], NEW live \in SUBSET Nat,
         Sound(s, lo, hi, kn, at, tp, live),
         NEW t \in Thread, Owns(t), pc[t] # "StopOptimizing", Hop(t)
  PROVE  Inv'
<1>1. /\ last[cur[t]] = Null
      /\ previous' = [previous EXCEPT ![next[cur[t]]] = cur[t]]
      /\ cur' = [cur EXCEPT ![t] = next[cur[t]]]
      /\ UNCHANGED <<word, next, last, shareCount, exclusive, spinning, signaled, gate,
                     pc, want, holds, old, acquires>>
  BY DEF Hop, wakeVars
<1>a. /\ OwnerView(s, lo, hi, kn, at, tp, t)
      /\ Distinct(s, lo, hi, at, tp)
      /\ EndsView(s, lo, hi, kn)
  BY OwnerAt
<1>2. /\ word.waking /\ word.waiting /\ lo <= hi
      /\ \A u \in Thread : Owns(u) => u = t
      /\ lo <= at[t] /\ at[t] <= tp[t] /\ tp[t] <= hi
      /\ at[t] \in Nat /\ tp[t] \in Nat /\ kn <= at[t]
      /\ cur[t] = s[at[t]] /\ old[t].top = s[tp[t]]
      /\ previous[s[tp[t]]] = Null
      /\ \A q \in at[t]..tp[t] - 1 : previous[s[q]] = s[q + 1]
      /\ word.multiple => old[t].multiple
      /\ \A q \in lo..hi : s[q] \in Thread /\ s[q] # Null
      /\ \A q, r \in lo..hi : s[q] = s[r] => q = r
      /\ \A u \in Thread : pc[u] = "Signal" =>
           \A q \in at[u]..tp[u] : s[q] \in Thread /\ \A r \in lo..hi : s[q] # s[r]
  BY <1>a DEF OwnerView, Distinct
<1>3. /\ lo <= kn /\ kn <= hi
      /\ last[s[kn]] = s[lo] /\ s[lo] # Null
      /\ \A q \in kn + 1..hi : last[s[q]] = Null
      /\ \A q \in lo..kn - 1 : previous[s[q]] = s[q + 1]
      /\ \A q \in lo..hi - 1 : previous[s[q]] \in {Null, s[q + 1]}
      /\ previous[s[hi]] = Null
      /\ \A q \in lo + 1..hi : next[s[q]] = s[q - 1]
  BY <1>a DEF EndsView
<1>4. PICK b \in Nat : b = at[t] - 1 /\ kn <= b
  <2>1. at[t] # kn
    BY <1>1, <1>2, <1>3
  <2> QED  BY <1>2, <2>1
<1>5. /\ next[cur[t]] = s[b] /\ s[b] \in Thread /\ b \in lo..hi - 1 /\ b < tp[t]
      /\ s[at[t]] \in Thread /\ s[at[t]] = s[b + 1]
  BY <1>2, <1>3, <1>4
<1>6. /\ cur'[t] = s[b] /\ \A u \in Thread : u # t => cur'[u] = cur[u]
      /\ previous'[s[b]] = s[b + 1]
      /\ \A u \in Thread : u # s[b] => previous'[u] = previous[u]
  BY ZenonT(60), <1>1, <1>2, <1>5, Unpack
<1>7. PICK at1 \in [Thread -> Nat] : at1[t] = b /\ \A u \in Thread : u # t => at1[u] = at[u]
  BY [at EXCEPT ![t] = b] \in [Thread -> Nat]
<1>8. TypeOK'
  <2>1. previous' \in [Thread -> Thread \union {Null}] /\ cur' \in [Thread -> Thread \union {Null}]
    BY <1>1, <1>2, <1>5, Unpack
  <2> QED  BY <1>1, <2>1, Unpack, Typed
<1>9. PcOK'
  BY <1>1, <1>6 DEF Sound, PcOK, Modes, Owns, Releaser
<1>10. LockOK(s[lo])'
  BY <1>1, LockStays, Unpack DEF Sound
<1>11. Shape(s, lo, hi)'
  BY <1>1, ShapeStays DEF Sound
<1>12. /\ \A q \in lo..hi : q # b => previous'[s[q]] = previous[s[q]]
       /\ \A u \in Thread : pc[u] = "Signal" =>
            \A q \in at[u]..tp[u] : previous'[s[q]] = previous[s[q]]
  BY <1>2, <1>5, <1>6
<1>13. Ends(s, lo, hi, kn)'
  <2>1. \A q \in lo..kn - 1 : previous'[s[q]] = s[q + 1]
    BY <1>3, <1>4, <1>12
  <2>2. \A q \in lo..hi - 1 : previous'[s[q]] \in {Null, s[q + 1]}
    BY <1>3, <1>6, <1>12
  <2>3. previous'[s[hi]] = Null
    BY <1>2, <1>3, <1>5, <1>12
  <2> QED  BY <1>1, <1>3, <2>1, <2>2, <2>3 DEF Ends
<1>14. OwnersOK(s, lo, hi, kn, at1, tp)'
  <2>1. \A u \in Thread : Owns(u)' <=> Owns(u)
    BY <1>1 DEF Owns
  <2>2. previous'[s[tp[t]]] = Null
    BY <1>2, <1>5, <1>12
  <2>3. \A q \in b..tp[t] - 1 : previous'[s[q]] = s[q + 1]
    BY <1>2, <1>4, <1>6, <1>12
  <2>4. word'.waking <=> \E u \in Thread : Owns(u)'
    BY <1>1, <1>2, <2>1 DEF Sound, OwnersOK
  <2> QED  BY <1>1, <1>2, <1>4, <1>5, <1>6, <1>7, <2>1, <2>2, <2>3, <2>4 DEF OwnersOK
<1>15. \A u \in Thread : pc[u] \in {"FindEnd", "Decrement", "Signal"} => u # t
  BY DEF Owns
<1>16. ReadersOK(s, lo, hi, at1)'
  BY <1>1, <1>6, <1>7, <1>15 DEF Sound, ReadersOK
<1>17. SignalersOK(s, lo, at1, tp)'
  <2>1. \A u \in Thread : pc[u] = "Signal" => cur'[u] = cur[u] /\ at1[u] = at[u]
    BY <1>6, <1>7, <1>15
  <2>2. ASSUME NEW u \in Thread, pc[u] = "Signal"
        PROVE  /\ at[u] <= tp[u] /\ tp[u] < lo /\ cur[u] = s[at[u]]
               /\ \A q \in at[u]..tp[u] - 1 : previous'[s[q]] = s[q + 1]
               /\ previous'[s[tp[u]]] = Null
    BY <1>12, <2>2 DEF Sound, SignalersOK
  <2> QED  BY <1>1, <2>1, <2>2 DEF Sound, SignalersOK
<1>18. LiveOK(s, lo, hi, at1, tp, live)'
  <2>1. \A u : Listed(u) => Listed(u)'
    BY <1>1 DEF Listed
  <2> QED  BY <1>1, <1>7, <1>15, <2>1 DEF Sound, LiveOK
<1>19. Tended'
  BY <1>1, TendedStays DEF Sound, WillWake
<1>20. Sound(s, lo, hi, kn, at1, tp, live)'
  BY <1>8, <1>9, <1>10, <1>11, <1>13, <1>14, <1>16, <1>17, <1>18, <1>19 DEF Sound
<1> QED  BY <1>20, Witnessed

(* The walk has reached the end, which the block it started from now knows. *)
LEMMA OptimizeEndKeeps ==
  ASSUME NEW s \in Log, NEW lo \in Nat, NEW hi \in Nat, NEW kn \in Nat,
         NEW at \in [Thread -> Nat], NEW tp \in [Thread -> Nat], NEW live \in SUBSET Nat,
         Sound(s, lo, hi, kn, at, tp, live),
         NEW t \in Thread, pc[t] = "Optimize", old[t].locked, last[cur[t]] # Null,
         last' = [last EXCEPT ![old[t].top] = last[cur[t]]],
         pc' = [pc EXCEPT ![t] = "StopOptimizing"],
         UNCHANGED <<word, next, previous, shareCount, exclusive, spinning, signaled, gate,
                     want, holds, old, cur, acquires>>
  PROVE  Inv'
<1>a. Owns(t)
  BY DEF Owns
<1>b. /\ OwnerView(s, lo, hi, kn, at, tp, t)
      /\ Distinct(s, lo, hi, at, tp)
      /\ EndsView(s, lo, hi, kn)
  BY <1>a, OwnerAt
<1>1. /\ lo <= hi /\ lo <= at[t] /\ at[t] <= tp[t] /\ tp[t] <= hi
      /\ at[t] \in Nat /\ tp[t] \in Nat /\ kn <= at[t]
      /\ cur[t] = s[at[t]] /\ old[t].top = s[tp[t]]
  BY <1>b DEF OwnerView
<1>2. at[t] = kn
  <2>1. last[s[at[t]]] # Null
    BY <1>1
  <2>2. \A q \in kn + 1..hi : last[s[q]] = Null
    BY <1>b DEF EndsView
  <2> QED  BY <1>1, <2>1, <2>2
<1>3. /\ \A q \in lo..hi : s[q] \in Thread
      /\ \A q, r \in lo..hi : s[q] = s[r] => q = r
      /\ s[lo] \in Thread /\ s[lo] # Null
      /\ last[s[kn]] = s[lo]
      /\ \A q \in kn + 1..hi : last[s[q]] = Null
  BY <1>b, <1>1 DEF Distinct, EndsView
<1>4. /\ last'[s[tp[t]]] = s[lo]
      /\ \A u \in Thread : u # s[tp[t]] => last'[u] = last[u]
      /\ \A q \in lo..hi : q # tp[t] => last'[s[q]] = last[s[q]]
  <2>0. last \in [Thread -> Thread \union {Null}]
    BY Unpack
  <2>1. s[tp[t]] \in Thread
    BY <1>1, <1>3
  <2>2. last[cur[t]] = s[lo]
    BY <1>1, <1>2, <1>3
  <2>3. last' = [last EXCEPT ![s[tp[t]]] = s[lo]]
    BY <1>1, <2>2
  <2>4. last'[s[tp[t]]] = s[lo] /\ \A u \in Thread : u # s[tp[t]] => last'[u] = last[u]
    BY <2>0, <2>1, <2>3
  <2>5. tp[t] \in lo..hi
    BY <1>1
  <2> QED  BY <1>3, <2>4, <2>5
<1>5. /\ pc'[t] = "StopOptimizing" /\ \A u \in Thread : u # t => pc'[u] = pc[u]
      /\ \A u \in Thread : Owns(u)' <=> Owns(u)
  BY <1>a, Unpack DEF Owns
<1>6. TypeOK'
  <2>1. last' \in [Thread -> Thread \union {Null}]
    BY <1>1, <1>2, <1>3, Unpack
  <2>2. pc' \in [Thread -> Pc]
    BY Unpack DEF Pc
  <2> QED  BY <2>1, <2>2, Unpack, Typed
<1>7. PcOK'
  BY <1>5 DEF Sound, PcOK, Modes, Owns, Releaser
<1>8. LockOK(s[lo])'
  BY <1>5, LockStays, Unpack DEF Sound, Releaser
<1>9. Shape(s, lo, hi)'
  BY ShapeStays DEF Sound
<1>10. Ends(s, lo, hi, tp[t])'
  <2>1. \A q \in tp[t] + 1..hi : last'[s[q]] = Null
    BY <1>1, <1>3, <1>4
  <2>2. \A q \in lo..tp[t] - 1 : previous[s[q]] = s[q + 1]
    BY <1>b, <1>1, <1>2 DEF OwnerView, EndsView
  <2>3. /\ \A q \in lo..hi - 1 : previous[s[q]] \in {Null, s[q + 1]}
        /\ previous[s[hi]] = Null
    BY <1>b DEF EndsView
  <2> QED  BY <1>1, <1>4, <2>1, <2>2, <2>3 DEF Ends
<1>11. OwnersOK(s, lo, hi, tp[t], at, tp)'
  <2>1. word'.waking <=> \E u \in Thread : Owns(u)'
    BY <1>5 DEF Sound, OwnersOK
  <2>2. \A u \in Thread : Owns(u)' => u = t
    BY <1>b, <1>5 DEF OwnerView
  <2> QED  BY <1>b, <1>5, <2>1, <2>2 DEF OwnersOK, OwnerView
<1>12. ReadersOK(s, lo, hi, at)'
  <2>1. ASSUME NEW u \in Thread, pc'[u] = "FindEnd"
        PROVE  /\ lo <= at[u] /\ at[u] <= hi /\ cur[u] = s[at[u]]
               /\ \E p \in lo..at[u] : /\ last'[s[p]] = s[lo]
                                       /\ \A q \in p + 1..at[u] : last'[s[q]] = Null
    <3>1. pc[u] = "FindEnd" /\ at[u] \in Nat
      BY <1>5, <2>1
    <3>2. lo <= at[u] /\ at[u] <= hi /\ cur[u] = s[at[u]]
      BY <3>1 DEF Sound, ReadersOK
    <3>3. PICK p \in lo..at[u] : last[s[p]] = s[lo] /\ \A q \in p + 1..at[u] : last[s[q]] = Null
      BY <3>1 DEF Sound, ReadersOK
    <3>4. CASE tp[t] \in p + 1..at[u]
      <4>1. \A q \in tp[t] + 1..at[u] : last'[s[q]] = Null
        BY <1>1, <1>4, <3>2, <3>3, <3>4
      <4> QED  BY <1>1, <1>4, <3>2, <3>4, <4>1
    <3>5. CASE tp[t] \notin p + 1..at[u]
      <4>1. \A q \in p + 1..at[u] : last'[s[q]] = Null
        BY <1>1, <1>4, <3>2, <3>3, <3>5
      <4>2. last'[s[p]] = s[lo]
        BY <1>1, <1>4, <3>2, <3>3
      <4> QED  BY <3>2, <4>1, <4>2
    <3> QED  BY <3>4, <3>5
  <2>2. \A u \in Thread : pc'[u] = "Decrement" => cur[u] = s[lo]
    BY <1>5 DEF Sound, ReadersOK
  <2> QED  BY <2>1, <2>2 DEF ReadersOK
<1>13. SignalersOK(s, lo, at, tp)'
  BY <1>5, SignalersStay DEF Sound
<1>14. LiveOK(s, lo, hi, at, tp, live)'
  BY <1>5, LiveStays DEF Sound, Listed, Waiter
<1>15. Tended'
  BY <1>5, TendedStays DEF Sound, WillWake
<1>16. Sound(s, lo, hi, tp[t], at, tp, live)'
  BY <1>6, <1>7, <1>8, <1>9, <1>10, <1>11, <1>12, <1>13, <1>14, <1>15 DEF Sound
<1> QED  BY <1>1, <1>16, Witnessed

LEMMA OptimizeKeeps ==
  ASSUME NEW s \in Log, NEW lo \in Nat, NEW hi \in Nat, NEW kn \in Nat,
         NEW at \in [Thread -> Nat], NEW tp \in [Thread -> Nat], NEW live \in SUBSET Nat,
         Sound(s, lo, hi, kn, at, tp, live),
         NEW t \in Thread, Optimize(t)
  PROVE  Inv'
<1>a. pc[t] = "Optimize" /\ Owns(t)
  BY DEF Optimize, Owns
<1>1. CASE old[t].locked /\ Hop(t)
  BY <1>a, <1>1, HopKeeps
<1>2. CASE /\ old[t].locked /\ last[cur[t]] # Null
           /\ last' = [last EXCEPT ![old[t].top] = last[cur[t]]]
           /\ Goto(t, "StopOptimizing")
           /\ UNCHANGED <<word, next, previous, shareCount, exclusive, wakeVars,
                          want, holds, old, cur, acquires>>
  <2>1. UNCHANGED <<word, next, previous, shareCount, exclusive, spinning, signaled, gate,
                    want, holds, old, cur, acquires>>
    BY <1>2 DEF wakeVars
  <2> QED  BY <1>a, <1>2, <2>1, OptimizeEndKeeps DEF Goto
<1>3. CASE /\ ~old[t].locked /\ Goto(t, "Wake")
           /\ UNCHANGED <<word, chainVars, wakeVars, want, holds, old, cur, acquires>>
  <2>1. /\ pc' = [pc EXCEPT ![t] = "Wake"]
        /\ UNCHANGED <<word, next, last, previous, shareCount, exclusive, spinning,
                       signaled, gate, want, holds, old, cur, acquires>>
    BY <1>3 DEF Goto, chainVars, wakeVars
  <2>2. pc'[t] = "Wake" /\ \A u \in Thread : u # t => pc'[u] = pc[u]
    BY <2>1, Unpack
  <2>3. \A u \in Thread : Owns(u)' <=> Owns(u)
    BY <1>a, <2>2 DEF Owns
  <2>4. TypeOK'
    <3>1. pc' \in [Thread -> Pc]
      BY <2>1, Unpack DEF Pc
    <3> QED  BY <2>1, <3>1, Unpack, Typed
  <2>5. PcOK'
    BY <1>a, <1>3, <2>1, <2>2 DEF Sound, PcOK, Modes, Owns, Releaser
  <2>6. LockOK(s[lo])'
    BY <1>a, <2>1, <2>2, LockStays, Unpack DEF Sound, Releaser
  <2>7. Shape(s, lo, hi)' /\ Ends(s, lo, hi, kn)'
    BY <2>1, ShapeStays, EndsStay DEF Sound
  <2>8. OwnersOK(s, lo, hi, kn, at, tp)'
    <3>1. word'.waking <=> \E u \in Thread : Owns(u)'
      BY <2>1, <2>3 DEF Sound, OwnersOK
    <3>2. \A u \in Thread : Owns(u)' => /\ Owns(u)
                                        /\ pc'[u] # "StopOptimizing" => pc[u] # "StopOptimizing"
      BY <1>a, <2>2, <2>3
    <3> QED  BY <2>1, <3>1, <3>2 DEF Sound, OwnersOK
  <2>9. ReadersOK(s, lo, hi, at)' /\ SignalersOK(s, lo, at, tp)'
    BY <2>1, <2>2, ReadersStay, SignalersStay DEF Sound
  <2>10. LiveOK(s, lo, hi, at, tp, live)'
    BY <1>a, <2>1, <2>2, LiveStays DEF Sound, Listed, Waiter
  <2>11. Tended'
    BY <2>1, <2>2, TendedStays DEF Sound, WillWake
  <2>12. Sound(s, lo, hi, kn, at, tp, live)'
    BY <2>4, <2>5, <2>6, <2>7, <2>8, <2>9, <2>10, <2>11 DEF Sound
  <2> QED  BY <2>12, Witnessed
<1> QED  BY <1>1, <1>2, <1>3 DEF Optimize

(* The compare-exchange of the owner failed: it starts from the new top.   *)
LEMMA RestartKeeps ==
  ASSUME NEW s \in Log, NEW lo \in Nat, NEW hi \in Nat, NEW kn \in Nat,
         NEW at \in [Thread -> Nat], NEW tp \in [Thread -> Nat], NEW live \in SUBSET Nat,
         Sound(s, lo, hi, kn, at, tp, live),
         NEW t \in Thread, Owns(t), NEW where \in {"Optimize", "Wake"},
         where = "Optimize" => want[t] \in Modes,
         where = "Wake" => pc[t] = "Wake",
         pc' = [pc EXCEPT ![t] = where], Walk(t, word),
         UNCHANGED <<word, next, last, previous, shareCount, exclusive, spinning, signaled,
                     gate, want, holds, acquires>>
  PROVE  Inv'
<1>b. /\ OwnerView(s, lo, hi, kn, at, tp, t)
      /\ Distinct(s, lo, hi, at, tp)
      /\ EndsView(s, lo, hi, kn)
  BY OwnerAt
<1>1. /\ old' = [old EXCEPT ![t] = word] /\ cur' = [cur EXCEPT ![t] = word.top]
      /\ word \in Word /\ word.top = s[hi] /\ lo <= hi /\ kn <= hi /\ s[hi] \in Thread
      /\ previous[s[hi]] = Null
  <2>1. old' = [old EXCEPT ![t] = word] /\ cur' = [cur EXCEPT ![t] = word.top]
    BY DEF Walk
  <2>2. word \in Word
    BY Unpack
  <2>3. word.top = s[hi] /\ lo <= hi /\ kn <= hi /\ previous[s[hi]] = Null
    BY <1>b DEF OwnerView, EndsView
  <2>4. s[hi] \in Thread
    BY <1>b, <2>3 DEF Distinct
  <2> QED  BY <2>1, <2>2, <2>3, <2>4
<1>2. /\ pc'[t] = where /\ old'[t] = word /\ cur'[t] = s[hi]
      /\ \A u \in Thread : u # t => pc'[u] = pc[u] /\ old'[u] = old[u] /\ cur'[u] = cur[u]
  BY <1>1, Unpack
<1>3. \A u \in Thread : Owns(u)' <=> Owns(u)
  BY <1>2 DEF Owns
<1>4. PICK at1 \in [Thread -> Nat] : at1[t] = hi /\ \A u \in Thread : u # t => at1[u] = at[u]
  BY [at EXCEPT ![t] = hi] \in [Thread -> Nat]
<1>5. PICK tp1 \in [Thread -> Nat] : tp1[t] = hi /\ \A u \in Thread : u # t => tp1[u] = tp[u]
  BY [tp EXCEPT ![t] = hi] \in [Thread -> Nat]
<1>6. TypeOK'
  <2>1. pc' \in [Thread -> Pc]
    BY Unpack DEF Pc
  <2>2. old' \in [Thread -> Word] /\ cur' \in [Thread -> Thread \union {Null}]
    BY <1>1, Unpack
  <2> QED  BY <2>1, <2>2, Unpack, Typed
<1>7. PcOK'
  <2>1. word.multiple => word.locked
    BY DEF Sound, LockOK, CountInBlock
  <2>2. pc[t] = "Wake" => ~word.multiple
    BY <1>b DEF Sound, PcOK, OwnerView
  <2> QED  BY <1>2, <2>1, <2>2 DEF Sound, PcOK, Modes, Owns, Releaser
<1>8. LockOK(s[lo])'
  BY <1>2, LockStays, Unpack DEF Sound, Releaser, Owns
<1>9. Shape(s, lo, hi)' /\ Ends(s, lo, hi, kn)'
  BY ShapeStays, EndsStay DEF Sound
<1>10. OwnersOK(s, lo, hi, kn, at1, tp1)'
  <2>1. word'.waking <=> \E u \in Thread : Owns(u)'
    BY <1>3 DEF Sound, OwnersOK
  <2>2. \A u \in Thread : Owns(u)' => u = t
    BY <1>b, <1>3 DEF OwnerView
  <2> QED  BY <1>b, <1>1, <1>2, <1>4, <1>5, <2>1, <2>2 DEF OwnersOK, OwnerView
<1>11. \A u \in Thread : pc'[u] \in {"FindEnd", "Decrement", "Signal"} =>
         u # t /\ pc'[u] = pc[u] /\ cur'[u] = cur[u] /\ at1[u] = at[u] /\ tp1[u] = tp[u]
  BY <1>2, <1>4, <1>5
<1>12. ReadersOK(s, lo, hi, at1)'
  BY <1>11 DEF Sound, ReadersOK
<1>13. SignalersOK(s, lo, at1, tp1)'
  BY <1>11 DEF Sound, SignalersOK
<1>14. LiveOK(s, lo, hi, at1, tp1, live)'
  <2>1. \A u : Listed(u) => Listed(u)'
    BY <1>2 DEF Owns, Listed, Waiter
  <2> QED  BY <1>11, <2>1 DEF Sound, LiveOK
<1>15. Tended'
  BY <1>2, TendedStays DEF Sound, WillWake
<1>16. Sound(s, lo, hi, kn, at1, tp1, live)'
  BY <1>6, <1>7, <1>8, <1>9, <1>10, <1>12, <1>13, <1>14, <1>15 DEF Sound
<1> QED  BY <1>16, Witnessed

(* The owner returns the Waking bit while the lock is held. *)
LEMMA GivesBackKeeps ==
  ASSUME NEW s \in Log, NEW lo \in Nat, NEW hi \in Nat, NEW kn \in Nat,
         NEW at \in [Thread -> Nat], NEW tp \in [Thread -> Nat], NEW live \in SUBSET Nat,
         Sound(s, lo, hi, kn, at, tp, live),
         NEW t \in Thread, Owns(t), word.locked,
         NEW where, where = IF want[t] = "None" THEN "Idle" ELSE "InitGate",
         pc' = [pc EXCEPT ![t] = where], word' = [word EXCEPT !.waking = FALSE],
         UNCHANGED <<next, last, previous, shareCount, exclusive, spinning, signaled,
                     gate, want, holds, old, cur, acquires>>
  PROVE  Inv'
<1>b. OwnerView(s, lo, hi, kn, at, tp, t)
  BY OwnerAt
<1>1. /\ pc'[t] = where /\ \A u \in Thread : u # t => pc'[u] = pc[u]
  BY Unpack
<1>2. /\ word \in Word /\ word' \in Word /\ ~word'.waking /\ word'.locked
      /\ word'.waiting <=> word.waiting
      /\ word'.multiple <=> word.multiple
      /\ word'.top = word.top
  <2>1. word \in Word
    BY Unpack
  <2> QED  BY <2>1 DEF Word
<1>3. TypeOK'
  <2>1. pc' \in [Thread -> Pc]
    BY Unpack DEF Pc
  <2> QED  BY <1>2, <2>1, Unpack, Typed
<1>4. PcOK'
  <2>1. want[t] \in Modes \union {"None"}
    BY Unpack
  <2> QED  BY <1>1, <2>1 DEF Sound, PcOK, Modes, Owns, Releaser
<1>5. LockOK(s[lo])'
  <2>1. word' = [word EXCEPT !.waking = word'.waking]
    BY <1>2 DEF Word
  <2> QED  BY <1>1, <1>2, <2>1, LockStays DEF Sound, Releaser, Owns
<1>6. Shape(s, lo, hi)' /\ Ends(s, lo, hi, kn)'
  BY <1>2, ShapeStays, EndsStay DEF Sound
<1>7. OwnersOK(s, lo, hi, kn, at, tp)'
  <2>1. \A u \in Thread : ~Owns(u)'
    BY <1>b, <1>1 DEF OwnerView, Owns
  <2> QED  BY <1>2, <2>1 DEF OwnersOK
<1>8. ReadersOK(s, lo, hi, at)' /\ SignalersOK(s, lo, at, tp)'
  BY <1>1, ReadersStay, SignalersStay DEF Sound
<1>9. LiveOK(s, lo, hi, at, tp, live)'
  BY SMTT(30), <1>1, LiveStays DEF Sound, Listed, Waiter, Owns
<1>10. Tended'
  BY <1>2 DEF Tended
<1>11. Sound(s, lo, hi, kn, at, tp, live)'
  BY <1>3, <1>4, <1>5, <1>6, <1>7, <1>8, <1>9, <1>10 DEF Sound
<1> QED  BY <1>11, Witnessed

LEMMA StopOptimizingKeeps ==
  ASSUME NEW s \in Log, NEW lo \in Nat, NEW hi \in Nat, NEW kn \in Nat,
         NEW at \in [Thread -> Nat], NEW tp \in [Thread -> Nat], NEW live \in SUBSET Nat,
         Sound(s, lo, hi, kn, at, tp, live),
         NEW t \in Thread, StopOptimizing(t)
  PROVE  Inv'
<1>1. /\ pc[t] = "StopOptimizing" /\ Owns(t) /\ old[t].locked /\ want[t] \in Modes
      /\ UNCHANGED <<next, last, previous, shareCount, exclusive, spinning, signaled,
                     gate, want, holds, acquires>>
  BY DEF StopOptimizing, Owns, Sound, PcOK, chainVars, wakeVars
<1>2. CASE word = old[t]
  <2>1. /\ word' = [word EXCEPT !.waking = FALSE] /\ pc' = [pc EXCEPT ![t] = "InitGate"]
        /\ UNCHANGED <<old, cur>>
    BY <1>2 DEF StopOptimizing, Goto
  <2>2. "InitGate" = IF want[t] = "None" THEN "Idle" ELSE "InitGate"
    BY <1>1 DEF Modes
  <2> QED  BY <1>1, <1>2, <2>1, <2>2, GivesBackKeeps
<1>3. CASE word # old[t]
  BY <1>1, <1>3, RestartKeeps DEF StopOptimizing, Goto
<1> QED  BY <1>2, <1>3

LEMMA WakeGivesUpKeeps ==
  ASSUME NEW s \in Log, NEW lo \in Nat, NEW hi \in Nat, NEW kn \in Nat,
         NEW at \in [Thread -> Nat], NEW tp \in [Thread -> Nat], NEW live \in SUBSET Nat,
         Sound(s, lo, hi, kn, at, tp, live),
         NEW t \in Thread, WakeGivesUp(t)
  PROVE  Inv'
<1>1. /\ pc[t] = "Wake" /\ Owns(t) /\ old[t].locked
      /\ UNCHANGED <<next, last, previous, shareCount, exclusive, spinning, signaled,
                     gate, want, holds, acquires>>
  BY DEF WakeGivesUp, Owns, chainVars, wakeVars
<1>2. CASE word = old[t]
  <2>1. /\ word' = [word EXCEPT !.waking = FALSE]
        /\ pc' = [pc EXCEPT ![t] = IF want[t] = "None" THEN "Idle" ELSE "InitGate"]
        /\ UNCHANGED <<old, cur>>
    BY <1>2 DEF WakeGivesUp, WakeDone, Goto
  <2> QED  BY <1>1, <1>2, <2>1, GivesBackKeeps
<1>3. CASE word # old[t]
  <2>1. Walk(t, word) /\ UNCHANGED <<word, pc>>
    BY <1>3 DEF WakeGivesUp
  <2>2. pc' = [pc EXCEPT ![t] = "Wake"]
    BY <1>1, <2>1, Unpack
  <2> QED  BY <1>1, <2>1, <2>2, RestartKeeps
<1> QED  BY <1>2, <1>3

LEMMA WakeHopKeeps ==
  ASSUME NEW s \in Log, NEW lo \in Nat, NEW hi \in Nat, NEW kn \in Nat,
         NEW at \in [Thread -> Nat], NEW tp \in [Thread -> Nat], NEW live \in SUBSET Nat,
         Sound(s, lo, hi, kn, at, tp, live),
         NEW t \in Thread, WakeHop(t)
  PROVE  Inv'
BY HopKeeps DEF WakeHop, Owns

-----------------------------------------------------------------------------
(***************************************************************************)
(* Waking.                                                                 *)
(***************************************************************************)
(* What the owner knows when it has reached the end. *)
EndView(s, lo, kn, at, tp, t) ==
  /\ Owns(t) /\ pc[t] = "Wake" /\ ~old[t].locked /\ ~word.multiple
  /\ at[t] = kn /\ End(t) = s[lo]
  /\ \A q \in lo..tp[t] - 1 : previous[s[q]] = s[q + 1]

(* A block that knows the end is the one at kn: behind it all previous     *)
(* pointers are in place.                                                  *)
LEMMA AtTheEnd ==
  ASSUME NEW s \in Log, NEW lo \in Nat, NEW hi \in Nat, NEW kn \in Nat,
         NEW at \in [Thread -> Nat], NEW tp \in [Thread -> Nat], NEW live \in SUBSET Nat,
         Sound(s, lo, hi, kn, at, tp, live),
         NEW t \in Thread, AtEnd(t)
  PROVE  EndView(s, lo, kn, at, tp, t)
<1>1. Owns(t) /\ pc[t] = "Wake" /\ ~old[t].locked /\ last[cur[t]] # Null
  BY DEF AtEnd, Owns
<1>2. /\ OwnerView(s, lo, hi, kn, at, tp, t)
      /\ Distinct(s, lo, hi, at, tp)
      /\ EndsView(s, lo, hi, kn)
  BY <1>1, OwnerAt
<1>3. ~old[t].multiple /\ ~word.multiple
  BY <1>1, <1>2 DEF Sound, PcOK, OwnerView
<1>4. /\ kn <= at[t] /\ at[t] <= tp[t] /\ tp[t] <= hi /\ at[t] \in Nat /\ tp[t] \in Nat
      /\ last[s[at[t]]] # Null
  BY <1>1, <1>2 DEF OwnerView
<1>5. at[t] = kn
  <2>1. \A q \in kn + 1..hi : last[s[q]] = Null
    BY <1>2 DEF EndsView
  <2> QED  BY <1>4, <2>1
<1>6. End(t) = s[lo]
  BY <1>2, <1>5 DEF End, OwnerView, EndsView
<1>7. \A q \in lo..tp[t] - 1 : previous[s[q]] = s[q + 1]
  <2>1. \A q \in lo..kn - 1 : previous[s[q]] = s[q + 1]
    BY <1>2 DEF EndsView
  <2>2. \A q \in kn..tp[t] - 1 : previous[s[q]] = s[q + 1]
    BY <1>2, <1>5 DEF OwnerView
  <2> QED  BY <1>4, <2>1, <2>2
<1> QED  BY <1>1, <1>3, <1>5, <1>6, <1>7 DEF EndView

(* The block at the end leaves the chain: lo moves up by one.              *)
LEMMA WakeExclusiveKeeps ==
  ASSUME NEW s \in Log, NEW lo \in Nat, NEW hi \in Nat, NEW kn \in Nat,
         NEW at \in [Thread -> Nat], NEW tp \in [Thread -> Nat], NEW live \in SUBSET Nat,
         Sound(s, lo, hi, kn, at, tp, live),
         NEW t \in Thread, WakeExclusive(t)
  PROVE  Inv'
<1>a. /\ Owns(t) /\ pc[t] = "Wake" /\ ~word.multiple /\ at[t] = kn /\ End(t) = s[lo]
      /\ \A q \in lo..tp[t] - 1 : previous[s[q]] = s[q + 1]
  <2>1. AtEnd(t)
    BY DEF WakeExclusive
  <2>2. EndView(s, lo, kn, at, tp, t)
    BY <2>1, AtTheEnd
  <2> QED  BY <2>2 DEF EndView
<1>b. /\ OwnerView(s, lo, hi, kn, at, tp, t)
      /\ Distinct(s, lo, hi, at, tp)
      /\ EndsView(s, lo, hi, kn)
  BY <1>a, OwnerAt
<1>1. /\ word.waiting /\ lo <= hi /\ tp[t] <= hi /\ lo <= tp[t] /\ tp[t] \in Nat
      /\ previous[s[tp[t]]] = Null /\ old[t].top = s[tp[t]]
      /\ \A q \in lo..hi : s[q] \in Thread /\ s[q] # Null
      /\ \A q, r \in lo..hi : s[q] = s[r] => q = r
  BY <1>b DEF OwnerView, Distinct
<1>2. lo < tp[t] /\ previous[s[lo]] = s[lo + 1]
  <2>1. previous[s[lo]] # Null
    BY <1>a DEF WakeExclusive, Splits
  <2> QED  BY <1>a, <1>1, <2>1
<1>3. /\ last' = [last EXCEPT ![s[tp[t]]] = s[lo + 1]]
      /\ previous' = [previous EXCEPT ![s[lo]] = Null]
      /\ word' = [word EXCEPT !.waking = FALSE]
      /\ cur' = [cur EXCEPT ![t] = s[lo]]
      /\ pc' = [pc EXCEPT ![t] = "Signal"]
      /\ UNCHANGED <<next, shareCount, exclusive, spinning, signaled, gate, want, holds,
                     old, acquires>>
  BY <1>a, <1>1, <1>2 DEF WakeExclusive, Goto, wakeVars
<1>4. /\ word \in Word /\ word' \in Word /\ ~word'.waking /\ ~word'.multiple
      /\ word'.waiting /\ word'.top = word.top
      /\ word'.locked <=> word.locked
  <2>1. word \in Word
    BY Unpack
  <2> QED  BY <1>a, <1>1, <1>3, <2>1 DEF Word
<1>5. /\ s[lo] \in Thread /\ s[lo + 1] \in Thread /\ s[tp[t]] \in Thread
      /\ \A q \in lo..hi : q # lo => s[q] # s[lo]
      /\ \A q \in lo..hi : q # tp[t] => s[q] # s[tp[t]]
  <2>1. lo \in lo..hi /\ lo + 1 \in lo..hi /\ tp[t] \in lo..hi
    BY <1>1, <1>2
  <2> QED  BY <1>1, <2>1
<1>6. /\ last'[s[tp[t]]] = s[lo + 1]
      /\ \A u \in Thread : u # s[tp[t]] => last'[u] = last[u]
      /\ previous'[s[lo]] = Null
      /\ \A u \in Thread : u # s[lo] => previous'[u] = previous[u]
  <2>1. /\ last \in [Thread -> Thread \union {Null}]
        /\ previous \in [Thread -> Thread \union {Null}]
    BY Unpack
  <2> QED  BY <1>3, <1>5, <2>1
<1>7. /\ pc'[t] = "Signal" /\ cur'[t] = s[lo]
      /\ \A u \in Thread : u # t => pc'[u] = pc[u] /\ cur'[u] = cur[u]
  BY <1>3, Unpack
<1>8. TypeOK'
  <2>1. /\ last' \in [Thread -> Thread \union {Null}]
        /\ previous' \in [Thread -> Thread \union {Null}]
    BY <1>3, <1>5, Unpack
  <2>2. pc' \in [Thread -> Pc] /\ cur' \in [Thread -> Thread \union {Null}]
    BY <1>3, <1>5, Unpack DEF Pc
  <2> QED  BY <1>3, <1>4, <2>1, <2>2, Unpack, Typed
<1>9. PcOK'
  BY <1>a, <1>3, <1>7 DEF Sound, PcOK, Modes, Owns, Releaser
<1>10. LockOK(s[lo + 1])'
  <2>1. LockOK(s[lo])'
    <3>1. word' = [word EXCEPT !.waking = word'.waking]
      BY <1>3, <1>4 DEF Word
    <3> QED  BY <1>a, <1>3, <1>4, <1>7, <3>1, LockStays DEF Sound, Releaser
  <2> QED  BY <1>4, <2>1 DEF LockOK, CountInBlock
<1>11. PICK at1 \in [Thread -> Nat] : at1[t] = lo /\ \A u \in Thread : u # t => at1[u] = at[u]
  BY [at EXCEPT ![t] = lo] \in [Thread -> Nat]
<1>12. PICK tp1 \in [Thread -> Nat] : tp1[t] = lo /\ \A u \in Thread : u # t => tp1[u] = tp[u]
  BY [tp EXCEPT ![t] = lo] \in [Thread -> Nat]
<1>13. Shape(s, lo + 1, hi)'
  <2>1. /\ 1 <= lo /\ word.top = s[hi]
        /\ \A q \in lo + 1..hi : next[s[q]] = s[q - 1]
    BY <1>1 DEF Sound, Shape
  <2> QED  BY <1>1, <1>2, <1>3, <1>4, <2>1 DEF Shape
<1>14. Ends(s, lo + 1, hi, tp[t])'
  <2>1. \A q \in tp[t] + 1..hi : last'[s[q]] = Null
    <3>1. /\ \A q \in kn + 1..hi : last[s[q]] = Null
          /\ kn <= tp[t] /\ lo <= kn
      BY <1>a, <1>b DEF EndsView, OwnerView
    <3> QED  BY <1>1, <1>5, <1>6, <3>1
  <2>2. \A q \in lo + 1..tp[t] - 1 : previous'[s[q]] = s[q + 1]
    BY <1>a, <1>1, <1>5, <1>6
  <2>3. \A q \in lo + 1..hi - 1 : previous'[s[q]] \in {Null, s[q + 1]}
    BY <1>b, <1>1, <1>5, <1>6 DEF EndsView
  <2>4. previous'[s[hi]] = Null
    BY <1>b, <1>1, <1>2, <1>5, <1>6 DEF EndsView
  <2> QED  BY <1>1, <1>2, <1>6, <2>1, <2>2, <2>3, <2>4 DEF Ends
<1>15. OwnersOK(s, lo + 1, hi, tp[t], at1, tp1)'
  <2>1. \A u \in Thread : ~Owns(u)'
    BY <1>b, <1>7 DEF OwnerView, Owns
  <2> QED  BY <1>4, <2>1 DEF OwnersOK
<1>16. ReadersOK(s, lo + 1, hi, at1)'
  <2>1. \A u \in Thread : pc'[u] \notin {"FindEnd", "Decrement"}
    BY <1>a, <1>7 DEF Sound, LockOK, CountInBlock
  <2> QED  BY <2>1 DEF ReadersOK
<1>17. SignalersOK(s, lo + 1, at1, tp1)'
  <2>1. ASSUME NEW u \in Thread, pc'[u] = "Signal", u # t
        PROVE  /\ at1[u] <= tp1[u] /\ tp1[u] < lo /\ cur'[u] = s[at1[u]]
               /\ \A q \in at1[u]..tp1[u] - 1 : previous'[s[q]] = s[q + 1]
               /\ previous'[s[tp1[u]]] = Null
    <3>1. /\ pc[u] = "Signal" /\ cur'[u] = cur[u] /\ at1[u] = at[u] /\ tp1[u] = tp[u]
          /\ at[u] \in Nat /\ tp[u] \in Nat
      BY <1>7, <1>11, <1>12, <2>1
    <3>2. /\ at[u] <= tp[u] /\ tp[u] < lo /\ cur[u] = s[at[u]]
          /\ \A q \in at[u]..tp[u] - 1 : previous[s[q]] = s[q + 1]
          /\ previous[s[tp[u]]] = Null
      BY <3>1 DEF Sound, SignalersOK
    <3>3. \A q \in at[u]..tp[u] : s[q] \in Thread /\ s[q] # s[lo]
      BY <1>b, <1>1, <3>1 DEF Distinct
    <3>4. \A q \in at[u]..tp[u] : previous'[s[q]] = previous[s[q]]
      BY <1>6, <3>3
    <3> QED  BY <3>1, <3>2, <3>4
  <2>2. /\ at1[t] <= tp1[t] /\ tp1[t] < lo + 1 /\ cur'[t] = s[at1[t]]
        /\ \A q \in at1[t]..tp1[t] - 1 : previous'[s[q]] = s[q + 1]
        /\ previous'[s[tp1[t]]] = Null
    BY <1>6, <1>7, <1>11, <1>12
  <2>3. ASSUME NEW u \in Thread, pc'[u] = "Signal", NEW v \in Thread, pc'[v] = "Signal", u # v
        PROVE  tp1[u] < at1[v] \/ tp1[v] < at1[u]
    <3>1. CASE u = t
      BY <1>11, <2>1, <2>3, <3>1
    <3>2. CASE v = t
      BY <1>11, <2>1, <2>3, <3>2
    <3>3. CASE u # t /\ v # t
      BY <1>7, <1>11, <1>12, <2>3, <3>3 DEF Sound, SignalersOK
    <3> QED  BY <3>1, <3>2, <3>3
  <2>4. ASSUME NEW u \in Thread, pc'[u] = "Signal"
        PROVE  /\ at1[u] <= tp1[u] /\ tp1[u] < lo + 1 /\ cur'[u] = s[at1[u]]
               /\ \A q \in at1[u]..tp1[u] - 1 : previous'[s[q]] = s[q + 1]
               /\ previous'[s[tp1[u]]] = Null
    <3>1. CASE u = t
      BY <2>2, <3>1
    <3>2. CASE u # t
      BY <2>1, <2>4, <3>2
    <3> QED  BY <3>1, <3>2
  <2> QED  BY <2>3, <2>4 DEF SignalersOK
<1>18. LiveOK(s, lo + 1, hi, at1, tp1, live)'
  <2>1. \A u : Listed(u) => Listed(u)'
    BY <1>a, <1>3, <1>7 DEF Listed, Waiter
  <2>2. ASSUME NEW u \in Thread, pc'[u] = "Signal" PROVE at1[u]..tp1[u] \subseteq live
    <3>1. CASE u = t
      BY <1>1, <1>11, <1>12, <3>1 DEF Sound, LiveOK
    <3>2. CASE u # t
      BY <1>7, <1>11, <1>12, <2>2, <3>2 DEF Sound, LiveOK
    <3> QED  BY <3>1, <3>2
  <2>3. /\ live \subseteq 1..hi
        /\ \A q \in live : Listed(s[q])'
        /\ \A q, r \in live : s[q] = s[r] => q = r
        /\ lo + 1..hi \subseteq live
    BY <2>1 DEF Sound, LiveOK
  <2> QED  BY <2>2, <2>3 DEF LiveOK
<1>19. Tended'
  BY <1>7 DEF Tended, WillWake
<1>20. Sound(s, lo + 1, hi, tp[t], at1, tp1, live)'
  BY <1>8, <1>9, <1>10, <1>13, <1>14, <1>15, <1>16, <1>17, <1>18, <1>19 DEF Sound
<1>21. lo + 1 \in Nat
  OBVIOUS
<1> QED  BY <1>1, <1>20, <1>21, Witnessed

(* The whole chain becomes the stretch of the waker; lo moves past hi.     *)
LEMMA WakeAllKeeps ==
  ASSUME NEW s \in Log, NEW lo \in Nat, NEW hi \in Nat, NEW kn \in Nat,
         NEW at \in [Thread -> Nat], NEW tp \in [Thread -> Nat], NEW live \in SUBSET Nat,
         Sound(s, lo, hi, kn, at, tp, live),
         NEW t \in Thread, WakeAll(t)
  PROVE  Inv'
<1>a. /\ Owns(t) /\ pc[t] = "Wake" /\ ~old[t].locked /\ End(t) = s[lo]
      /\ \A q \in lo..tp[t] - 1 : previous[s[q]] = s[q + 1]
  <2>1. AtEnd(t)
    BY DEF WakeAll
  <2>2. EndView(s, lo, kn, at, tp, t)
    BY <2>1, AtTheEnd
  <2> QED  BY <2>2 DEF EndView
<1>b. /\ OwnerView(s, lo, hi, kn, at, tp, t)
      /\ Distinct(s, lo, hi, at, tp)
  BY <1>a, OwnerAt
<1>c. UNCHANGED <<next, last, previous, shareCount, exclusive, spinning, signaled, gate,
                  want, holds, acquires>>
  BY DEF WakeAll, chainVars, wakeVars
<1>1. CASE word # old[t]
  <2>1. Walk(t, word) /\ UNCHANGED <<word, pc>>
    BY <1>1 DEF WakeAll
  <2>2. pc' = [pc EXCEPT ![t] = "Wake"]
    BY <1>a, <2>1, Unpack
  <2> QED  BY <1>a, <1>c, <2>1, <2>2, RestartKeeps
<1>2. CASE word = old[t]
  <2>1. /\ word' = Free /\ cur' = [cur EXCEPT ![t] = s[lo]]
        /\ pc' = [pc EXCEPT ![t] = "Signal"] /\ old' = old
    BY <1>a, <1>2 DEF WakeAll, Goto
  <2>2. /\ pc'[t] = "Signal" /\ cur'[t] = s[lo]
        /\ \A u \in Thread : u # t => pc'[u] = pc[u] /\ cur'[u] = cur[u]
    BY <2>1, Unpack
  <2>3. /\ word' \in Word /\ ~word'.locked /\ ~word'.waiting /\ ~word'.waking
        /\ ~word'.multiple /\ word'.share = 0 /\ word'.top = Null
    BY <2>1 DEF Word, Free
  <2>4. \A u \in Thread : holds[u] = "None" /\ pc[u] \notin Releaser
    BY <1>a, <1>2 DEF Sound, LockOK, Held, PcOK
  <2>5. lo <= hi /\ tp[t] = hi /\ s[lo] \in Thread
    <3>1. /\ lo <= hi /\ lo <= tp[t] /\ tp[t] <= hi /\ tp[t] \in Nat
          /\ s[tp[t]] = old[t].top /\ word.top = s[hi]
      BY <1>b DEF OwnerView
    <3>2. /\ \A q \in lo..hi : s[q] \in Thread
          /\ \A q, r \in lo..hi : s[q] = s[r] => q = r
      BY <1>b DEF Distinct
    <3> QED  BY <1>2, <3>1, <3>2
  <2>6. TypeOK'
    <3>1. pc' \in [Thread -> Pc] /\ cur' \in [Thread -> Thread \union {Null}]
      BY <2>1, <2>5, Unpack DEF Pc
    <3> QED  BY <1>c, <2>1, <2>3, <3>1, Unpack, Typed
  <2>7. PcOK'
    BY <1>a, <1>c, <2>1, <2>2 DEF Sound, PcOK, Modes, Owns, Releaser
  <2>8. LockOK(s[hi + 1])'
    <3>1. \A u \in Thread : pc'[u] \notin Releaser /\ holds'[u] = "None"
      BY <1>c, <2>2, <2>4 DEF Releaser
    <3>2. Sharers' = {}
      BY <3>1 DEF Sharers
    <3>3. CountInWord'
      BY <2>3, <3>1, <3>2, FS_EmptySet DEF CountInWord
    <3> QED  BY <2>3, <3>1, <3>3 DEF LockOK, Held, CountInBlock, Releaser
  <2>9. PICK at1 \in [Thread -> Nat] : at1[t] = lo /\ \A u \in Thread : u # t => at1[u] = at[u]
    BY [at EXCEPT ![t] = lo] \in [Thread -> Nat]
  <2>10. Shape(s, hi + 1, hi)' /\ Ends(s, hi + 1, hi, kn)'
    BY <2>3 DEF Shape, Ends
  <2>11. OwnersOK(s, hi + 1, hi, kn, at1, tp)'
    <3>1. \A u \in Thread : ~Owns(u)'
      BY <1>b, <2>2 DEF OwnerView, Owns
    <3> QED  BY <2>3, <3>1 DEF OwnersOK
  <2>12. ReadersOK(s, hi + 1, hi, at1)'
    BY <2>2, <2>4 DEF ReadersOK, Releaser
  <2>13. SignalersOK(s, hi + 1, at1, tp)'
    <3>1. ASSUME NEW u \in Thread, pc'[u] = "Signal", u # t
          PROVE  /\ at1[u] <= tp[u] /\ tp[u] < lo /\ cur'[u] = s[at1[u]]
                 /\ \A q \in at1[u]..tp[u] - 1 : previous'[s[q]] = s[q + 1]
                 /\ previous'[s[tp[u]]] = Null
      <4>1. pc[u] = "Signal" /\ cur'[u] = cur[u] /\ at1[u] = at[u]
        BY <2>2, <2>9, <3>1
      <4> QED  BY <1>c, <4>1 DEF Sound, SignalersOK
    <3>2. /\ at1[t] <= tp[t] /\ tp[t] < hi + 1 /\ cur'[t] = s[at1[t]]
          /\ \A q \in at1[t]..tp[t] - 1 : previous'[s[q]] = s[q + 1]
          /\ previous'[s[tp[t]]] = Null
      BY <1>a, <1>b, <1>c, <2>2, <2>5, <2>9 DEF OwnerView
    <3>3. ASSUME NEW u \in Thread, pc'[u] = "Signal", NEW v \in Thread, pc'[v] = "Signal", u # v
          PROVE  tp[u] < at1[v] \/ tp[v] < at1[u]
      <4>1. CASE u = t
        BY <2>9, <3>1, <3>3, <4>1
      <4>2. CASE v = t
        BY <2>9, <3>1, <3>3, <4>2
      <4>3. CASE u # t /\ v # t
        BY <2>2, <2>9, <3>3, <4>3 DEF Sound, SignalersOK
      <4> QED  BY <4>1, <4>2, <4>3
    <3>4. ASSUME NEW u \in Thread, pc'[u] = "Signal"
          PROVE  /\ at1[u] <= tp[u] /\ tp[u] < hi + 1 /\ cur'[u] = s[at1[u]]
                 /\ \A q \in at1[u]..tp[u] - 1 : previous'[s[q]] = s[q + 1]
                 /\ previous'[s[tp[u]]] = Null
      <4>1. CASE u = t
        BY <3>2, <4>1
      <4>2. CASE u # t
        BY <2>5, <3>1, <3>4, <4>2
      <4> QED  BY <4>1, <4>2
    <3> QED  BY <3>3, <3>4 DEF SignalersOK
  <2>14. LiveOK(s, hi + 1, hi, at1, tp, live)'
    <3>1. \A u : Listed(u) => Listed(u)'
      BY <1>a, <1>c, <2>2 DEF Listed, Waiter
    <3>2. ASSUME NEW u \in Thread, pc'[u] = "Signal" PROVE at1[u]..tp[u] \subseteq live
      <4>1. CASE u = t
        BY <2>5, <2>9, <4>1 DEF Sound, LiveOK
      <4>2. CASE u # t
        BY <2>2, <2>9, <3>2, <4>2 DEF Sound, LiveOK
      <4> QED  BY <4>1, <4>2
    <3>3. /\ live \subseteq 1..hi
          /\ \A q \in live : Listed(s[q])'
          /\ \A q, r \in live : s[q] = s[r] => q = r
          /\ hi + 1..hi \subseteq live
      BY <3>1 DEF Sound, LiveOK
    <3> QED  BY <3>2, <3>3 DEF LiveOK
  <2>15. Tended'
    BY <2>3 DEF Tended
  <2>16. Sound(s, hi + 1, hi, kn, at1, tp, live)'
    BY <2>6, <2>7, <2>8, <2>10, <2>11, <2>12, <2>13, <2>14, <2>15 DEF Sound
  <2> QED  BY <2>16, Witnessed, hi + 1 \in Nat
<1> QED  BY <1>1, <1>2

(* A signaled block is no longer live, and at moves up by one.             *)
LEMMA SignalKeeps ==
  ASSUME NEW s \in Log, NEW lo \in Nat, NEW hi \in Nat, NEW kn \in Nat,
         NEW at \in [Thread -> Nat], NEW tp \in [Thread -> Nat], NEW live \in SUBSET Nat,
         Sound(s, lo, hi, kn, at, tp, live),
         NEW t \in Thread, Signal(t)
  PROVE  Inv'
<1>1. /\ pc[t] = "Signal"
      /\ at[t] <= tp[t] /\ tp[t] < lo /\ at[t] \in Nat /\ tp[t] \in Nat
      /\ cur[t] = s[at[t]]
      /\ \A q \in at[t]..tp[t] - 1 : previous[s[q]] = s[q + 1]
      /\ previous[s[tp[t]]] = Null
      /\ \A q \in at[t]..tp[t] : q \in live
  BY DEF Signal, Sound, SignalersOK, LiveOK
<1>2. /\ \A q \in live : s[q] \in Thread /\ Listed(s[q])
      /\ \A q, r \in live : s[q] = s[r] => q = r
      /\ \A q \in lo..hi : q \in live
      /\ \A q \in live : 1 <= q /\ q <= hi
      /\ \A u \in Thread : pc[u] = "Signal" => \A q \in at[u]..tp[u] : q \in live
  <2>1. LiveOK(s, lo, hi, at, tp, live)
    BY DEF Sound
  <2>2. /\ \A q \in live : s[q] \in Thread /\ Listed(s[q])
        /\ \A q, r \in live : s[q] = s[r] => q = r
    BY <2>1 DEF LiveOK, Listed
  <2>3. /\ \A q \in lo..hi : q \in live
        /\ \A q \in live : 1 <= q /\ q <= hi
    BY <2>1 DEF LiveOK
  <2>4. \A u \in Thread : pc[u] = "Signal" => \A q \in at[u]..tp[u] : q \in live
    BY <2>1 DEF LiveOK
  <2> QED  BY <2>2, <2>3, <2>4
<1>3. PICK u \in Thread : u = s[at[t]] /\ Listed(u) /\ at[t] \in live
  BY <1>1, <1>2
<1>4. PICK where : where = IF at[t] < tp[t] THEN "Signal"
                           ELSE IF want[t] = "None" THEN "Idle" ELSE "InitGate"
  OBVIOUS
<1>5. previous[u] = IF at[t] < tp[t] THEN s[at[t] + 1] ELSE Null
  BY <1>1, <1>3
<1>6. at[t] < tp[t] => s[at[t] + 1] \in Thread
  BY <1>1, <1>2
<1>7. previous[u] = Null <=> at[t] = tp[t]
  BY <1>1, <1>5, <1>6
<1>8. /\ signaled' = [signaled EXCEPT ![u] = TRUE]
      /\ spinning' = [spinning EXCEPT ![u] = FALSE]
      /\ gate' = [gate EXCEPT ![u] = @ \/ ~spinning[u]]
      /\ cur' = [cur EXCEPT ![t] = previous[u]]
      /\ IF previous[u] = Null THEN WakeDone(t) ELSE UNCHANGED pc
      /\ UNCHANGED <<word, next, last, previous, shareCount, exclusive, want, holds, old, acquires>>
  BY <1>1, <1>3 DEF Signal, chainVars
<1>9. pc' = [pc EXCEPT ![t] = where]
  <2>1. CASE at[t] = tp[t]
    BY <1>4, <1>7, <1>8, <2>1 DEF WakeDone, Goto
  <2>2. CASE at[t] # tp[t]
    <3>1. where = "Signal" /\ pc' = pc
      BY <1>1, <1>4, <1>7, <1>8, <2>2
    <3> QED  BY <1>1, <3>1, Unpack
  <2> QED  BY <2>1, <2>2
<1>10. /\ pc'[t] = where
       /\ \A v \in Thread : v # t => pc'[v] = pc[v] /\ cur'[v] = cur[v]
       /\ at[t] < tp[t] => cur'[t] = s[at[t] + 1]
  BY <1>5, <1>8, <1>9, Unpack
<1>11. /\ signaled'[u] /\ ~spinning'[u]
       /\ gate'[u] <=> gate[u] \/ ~spinning[u]
       /\ \A v \in Thread : v # u => /\ signaled'[v] = signaled[v]
                                     /\ spinning'[v] = spinning[v]
                                     /\ gate'[v] = gate[v]
  <2>1. /\ signaled \in [Thread -> BOOLEAN] /\ spinning \in [Thread -> BOOLEAN]
        /\ gate \in [Thread -> BOOLEAN]
    BY Unpack
  <2> QED  BY <1>8, <2>1
<1>12. where \in {"Signal", "Idle", "InitGate"} /\ (where = "Signal" <=> at[t] < tp[t])
  BY <1>4
<1>13. TypeOK'
  <2>1. /\ signaled' \in [Thread -> BOOLEAN] /\ spinning' \in [Thread -> BOOLEAN]
        /\ gate' \in [Thread -> BOOLEAN]
    <3>1. /\ signaled \in [Thread -> BOOLEAN] /\ spinning \in [Thread -> BOOLEAN]
          /\ gate \in [Thread -> BOOLEAN]
      BY Unpack
    <3> QED  BY <1>8, <3>1
  <2>2. pc' \in [Thread -> Pc]
    BY <1>9, <1>12, Unpack DEF Pc
  <2>3. cur' \in [Thread -> Thread \union {Null}]
    BY <1>5, <1>6, <1>8, Unpack
  <2> QED  BY <1>8, <2>1, <2>2, <2>3, Unpack, Typed
<1>14. PcOK'
  <2>1. want[t] \in Modes \union {"None"}
    BY Unpack
  <2>2. where \in {"Idle", "InitGate"} => where = IF want[t] = "None" THEN "Idle" ELSE "InitGate"
    BY <1>4
  <2>3. holds[t] = "None"
    BY <1>1 DEF Sound, PcOK, Releaser
  <2>4. \A v \in Thread : pc'[v] = "GateWait" => ~spinning'[v]
    BY <1>10, <1>11, <1>12 DEF Sound, PcOK
  <2>5. want[t] # "None" => want[t] \in Modes
    BY <2>1
  <2> QED  BY <1>8, <1>10, <1>12, <2>2, <2>3, <2>4, <2>5 DEF Sound, PcOK, Owns, Releaser
<1>15. LockOK(s[lo])'
  BY <1>1, <1>8, <1>10, <1>12, LockStays, Unpack DEF Sound, Releaser
<1>16. Shape(s, lo, hi)' /\ Ends(s, lo, hi, kn)'
  BY <1>8, ShapeStays, EndsStay DEF Sound
<1>17. PICK at1 \in [Thread -> Nat] : at1[t] = at[t] + 1 /\ \A v \in Thread : v # t => at1[v] = at[v]
  <2>1. at[t] + 1 \in Nat
    BY <1>1
  <2> QED  BY <2>1, [at EXCEPT ![t] = at[t] + 1] \in [Thread -> Nat]
<1>18. /\ \A v \in Thread : Owns(v) => v # t
       /\ \A v \in Thread : Owns(v)' <=> Owns(v)
  BY <1>1, <1>10, <1>12 DEF Owns
<1>19. OwnersOK(s, lo, hi, kn, at1, tp)'
  <2>1. \A v \in Thread : Owns(v) => pc'[v] = pc[v] /\ cur'[v] = cur[v] /\ at1[v] = at[v]
    BY <1>10, <1>17, <1>18
  <2> QED  BY <1>8, <1>18, <2>1 DEF Sound, OwnersOK
<1>20. ReadersOK(s, lo, hi, at1)'
  BY <1>8, <1>10, <1>12, <1>17 DEF Sound, ReadersOK
<1>21. SignalersOK(s, lo, at1, tp)'
  <2>1. ASSUME NEW v \in Thread, pc'[v] = "Signal"
        PROVE  /\ at1[v] <= tp[v] /\ tp[v] < lo /\ cur'[v] = s[at1[v]]
               /\ \A q \in at1[v]..tp[v] - 1 : previous'[s[q]] = s[q + 1]
               /\ previous'[s[tp[v]]] = Null
    <3>1. CASE v = t
      <4>1. at[t] < tp[t]
        BY <1>10, <1>12, <2>1, <3>1
      <4> QED  BY <1>1, <1>8, <1>10, <1>17, <3>1, <4>1
    <3>2. CASE v # t
      <4>1. pc[v] = "Signal" /\ cur'[v] = cur[v] /\ at1[v] = at[v]
        BY <1>10, <1>17, <2>1, <3>2
      <4> QED  BY <1>8, <4>1 DEF Sound, SignalersOK
    <3> QED  BY <3>1, <3>2
  <2>2. ASSUME NEW v \in Thread, pc'[v] = "Signal", NEW x \in Thread, pc'[x] = "Signal", v # x
        PROVE  tp[v] < at1[x] \/ tp[x] < at1[v]
    <3>1. pc[v] = "Signal" /\ pc[x] = "Signal"
      BY <1>1, <1>10, <2>2
    <3>2. tp[v] < at[x] \/ tp[x] < at[v]
      BY <2>2, <3>1 DEF Sound, SignalersOK
    <3>3. at1[v] >= at[v] /\ at1[x] >= at[x] /\ at[v] \in Nat /\ at[x] \in Nat
      BY <1>17
    <3> QED  BY <3>2, <3>3
  <2> QED  BY <2>1, <2>2 DEF SignalersOK
<1>22. LiveOK(s, lo, hi, at1, tp, live \ {at[t]})'
  <2>1. ASSUME NEW q \in live \ {at[t]} PROVE Listed(s[q])'
    <3>1. s[q] \in Thread /\ s[q] # u /\ Listed(s[q])
      BY <1>2, <1>3
    <3>2. s[q] = t => (where = "Idle" => want[t] = "None")
      BY <1>4
    <3>3. want'[s[q]] # "None" /\ ~signaled'[s[q]]
      BY <1>8, <1>11, <3>1 DEF Listed
    <3>4. pc'[s[q]] = pc[s[q]] \/ (s[q] = t /\ pc[t] = "Signal" /\ pc'[t] \in {"Signal", "InitGate"})
      BY <1>1, <1>10, <1>12, <3>1, <3>2 DEF Listed
    <3> QED  BY <1>11, <3>1, <3>3, <3>4 DEF Listed, Waiter
  <2>2. ASSUME NEW v \in Thread, pc'[v] = "Signal" PROVE at1[v]..tp[v] \subseteq live \ {at[t]}
    <3>1. CASE v = t
      BY <1>1, <1>17, <3>1
    <3>2. CASE v # t
      <4>1. pc[v] = "Signal" /\ at1[v] = at[v]
        BY <1>10, <1>17, <2>2, <3>2
      <4>2. tp[v] < at[t] \/ tp[t] < at[v]
        BY <1>1, <3>2, <4>1 DEF Sound, SignalersOK
      <4> QED  BY <1>1, <1>2, <4>1, <4>2
    <3> QED  BY <3>1, <3>2
  <2>3. lo..hi \subseteq live \ {at[t]}
    BY <1>1, <1>2
  <2>4. live \ {at[t]} \subseteq 1..hi
    BY DEF Sound, LiveOK
  <2>5. \A q, r \in live \ {at[t]} : s[q] = s[r] => q = r
    BY <1>2
  <2> QED  BY <2>1, <2>2, <2>3, <2>4, <2>5 DEF LiveOK
<1>23. Tended'
  <2>1. CASE where = "Signal"
    BY <1>10, <2>1 DEF Tended, WillWake
  <2>2. CASE where # "Signal"
    <3>1. /\ u # t => pc'[u] = pc[u]
          /\ u = t => pc'[u] = "InitGate"
      BY <1>3, <1>4, <1>10, <1>12, <2>2 DEF Listed
    <3>2. pc[u] = "GateWait" => gate'[u]
      BY <1>11 DEF Sound, PcOK
    <3>3. pc'[u] \in Waiter
      BY <1>3, <3>1 DEF Listed, Waiter
    <3>4. pc'[u] = "GateWait" => gate'[u]
      BY <3>1, <3>2
    <3>5. WillWake(u)'
      BY <1>11, <3>3, <3>4 DEF WillWake, Waiter
    <3> QED  BY <3>5 DEF Tended
  <2> QED  BY <2>1, <2>2
<1>24. Sound(s, lo, hi, kn, at1, tp, live \ {at[t]})'
  BY <1>13, <1>14, <1>15, <1>16, <1>19, <1>20, <1>21, <1>22, <1>23 DEF Sound
<1> QED  BY <1>24, Witnessed, live \ {at[t]} \in SUBSET Nat

-----------------------------------------------------------------------------
(***************************************************************************)
(* Releasing and converting.                                               *)
(***************************************************************************)
(* A shared owner that is counted as the last one is alone. *)
LEMMA SoleSharer ==
  ASSUME Held, holds \in [Thread -> Modes \union {"None"}],
         NEW t \in Thread, holds[t] = "Shared", Cardinality(Sharers) <= 1
  PROVE  Alone(t) /\ Cardinality(Sharers) = 1
<1>1. t \in Sharers
  BY DEF Sharers
<1>2. Cardinality(Sharers) = 1
  <2>1. Cardinality(Sharers) # 0 /\ Cardinality(Sharers) \in Nat
    BY <1>1, SharersFinite, FS_EmptySet
  <2> QED  BY <2>1
<1>3. Sharers = {t}
  BY <1>1, <1>2, SharersFinite, FS_Singleton
<1>4. ASSUME NEW v \in Thread, holds[v] # "None" PROVE v = t
  <2>1. holds[v] # "Exclusive"
    BY DEF Held, Alone
  <2>2. v \in Sharers
    BY <1>4, <2>1 DEF Modes, Sharers
  <2> QED  BY <1>3, <2>2
<1> QED  BY <1>2, <1>4 DEF Alone

(* Steps of t that only change who holds the lock. *)
LEMMA OthersStay ==
  ASSUME NEW s \in Log, NEW lo \in Nat, NEW hi \in Nat, NEW kn \in Nat,
         NEW at \in [Thread -> Nat], NEW tp \in [Thread -> Nat], NEW live \in SUBSET Nat,
         Sound(s, lo, hi, kn, at, tp, live),
         NEW t \in Thread,
         pc[t] \notin {"Optimize", "StopOptimizing", "Wake"},
         pc'[t] \notin {"Optimize", "StopOptimizing", "Wake", "Signal", "FindEnd", "Decrement"},
         want[t] = "None",
         \A u \in Thread : u # t => pc'[u] = pc[u] /\ cur'[u] = cur[u] /\ old'[u] = old[u],
         UNCHANGED <<next, last, previous, spinning, signaled, gate, want>>,
         word'.waking <=> word.waking, word'.waiting <=> word.waiting,
         word'.multiple => word.multiple, word'.top = word.top
  PROVE  /\ Shape(s, lo, hi)' /\ Ends(s, lo, hi, kn)'
         /\ OwnersOK(s, lo, hi, kn, at, tp)'
         /\ ReadersOK(s, lo, hi, at)' /\ SignalersOK(s, lo, at, tp)'
         /\ LiveOK(s, lo, hi, at, tp, live)'
<1>1. Shape(s, lo, hi)' /\ Ends(s, lo, hi, kn)'
  BY ShapeStays, EndsStay DEF Sound
<1>2. OwnersOK(s, lo, hi, kn, at, tp)'
  BY OwnersStay DEF Sound, Owns
<1>3. ReadersOK(s, lo, hi, at)' /\ SignalersOK(s, lo, at, tp)'
  BY ReadersStay, SignalersStay DEF Sound
<1>4. LiveOK(s, lo, hi, at, tp, live)'
  BY LiveStays DEF Sound, Listed
<1> QED  BY <1>1, <1>2, <1>3, <1>4

LEMMA ReleaseUncontendedKeeps ==
  ASSUME NEW s \in Log, NEW lo \in Nat, NEW hi \in Nat, NEW kn \in Nat,
         NEW at \in [Thread -> Nat], NEW tp \in [Thread -> Nat], NEW live \in SUBSET Nat,
         Sound(s, lo, hi, kn, at, tp, live),
         NEW t \in Thread, ReleaseUncontended(t)
  PROVE  Inv'
<1>1. /\ pc[t] = "Idle" /\ holds[t] = "Shared" /\ ~word.waiting
      /\ word' = IF word.share > 1 THEN [word EXCEPT !.share = @ - 1] ELSE Free
      /\ holds' = [holds EXCEPT ![t] = "None"]
      /\ UNCHANGED <<next, last, previous, shareCount, exclusive, spinning,
                     signaled, gate, pc, want, old, cur, acquires>>
  BY DEF ReleaseUncontended, chainVars, wakeVars
<1>2. /\ holds'[t] = "None" /\ \A u \in Thread : u # t => holds'[u] = holds[u]
      /\ want[t] = "None"
  BY <1>1, Unpack DEF Sound, PcOK
<1>3. /\ word.share = Cardinality(Sharers) /\ ~word.multiple /\ word \in Word
      /\ word.share \in Nat /\ ~word.waking /\ word.top = Null
      /\ \A u \in Thread : pc[u] \notin Releaser
  <2>1. word \in Word
    BY Unpack
  <2>2. ~word.waking
    BY <1>1 DEF Sound, OwnersOK
  <2>3. word.top = Null
    BY <1>1 DEF Sound, Shape
  <2> QED  BY <1>1, <2>1, <2>2, <2>3, WordShare DEF Sound, LockOK, CountInWord
<1>4. Sharers' = Sharers \ {t} /\ t \in Sharers
  BY <1>1, <1>2 DEF Sharers
<1>5. Cardinality(Sharers)' = word.share - 1
  BY <1>3, <1>4, SharersFinite, FS_RemoveElement
<1>a. ~(word.share > 1) => Alone(t) /\ Cardinality(Sharers) = 1
  <2>1. Held /\ holds \in [Thread -> Modes \union {"None"}]
    BY Unpack DEF Sound, LockOK
  <2>2. ~(word.share > 1) => Cardinality(Sharers) <= 1
    BY <1>3
  <2> QED  BY <1>1, <2>1, <2>2, SoleSharer
<1>6. /\ word' \in Word /\ ~word'.waiting /\ ~word'.waking /\ ~word'.multiple
      /\ word'.top = Null
      /\ word'.share = word.share - 1
      /\ word.share > 1 => (word'.locked <=> word.locked)
      /\ ~(word.share > 1) => ~word'.locked
  <2>1. CASE word.share > 1
    BY <1>1, <1>3, <2>1 DEF Word
  <2>2. CASE ~(word.share > 1)
    <3>1. word' = Free
      BY <1>1, <2>2
    <3>2. Cardinality(Sharers) = 1
      BY <1>a, <2>2
    <3> QED  BY <1>3, <2>2, <3>1, <3>2 DEF Word, Free
  <2> QED  BY <2>1, <2>2
<1>7. TypeOK'
  <2>1. holds' \in [Thread -> Modes \union {"None"}]
    BY <1>1, Unpack
  <2> QED  BY <1>1, <1>6, <2>1, Unpack, Typed
<1>8. PcOK'
  BY <1>1, <1>2 DEF Sound, PcOK, Modes, Owns, Releaser
<1>9. LockOK(s[lo])'
  <2>1. word'.locked <=> \E u \in Thread : holds'[u] # "None"
    <3>1. CASE word.share > 1
      <4>1. Sharers' # {}
        BY <1>3, <1>5, <3>1, FS_EmptySet
      <4>2. PICK u \in Thread : holds'[u] = "Shared"
        BY <4>1 DEF Sharers
      <4>3. word.locked
        BY <1>1 DEF Sound, LockOK, Held
      <4> QED  BY <1>6, <3>1, <4>2, <4>3
    <3>2. CASE ~(word.share > 1)
      <4>1. Alone(t)
        BY <1>a, <3>2
      <4>2. \A u \in Thread : holds'[u] = "None"
        BY <1>2, <4>1 DEF Alone
      <4> QED  BY <1>6, <3>2, <4>2
    <3> QED  BY <3>1, <3>2
  <2>2. \A u \in Thread : holds'[u] # "Exclusive"
    BY <1>1, <1>2 DEF Sound, LockOK, Held, Alone
  <2> QED  BY <1>1, <1>3, <1>5, <1>6, <2>1, <2>2 DEF LockOK, Held, CountInWord, CountInBlock, Releaser
<1>10. /\ Shape(s, lo, hi)' /\ Ends(s, lo, hi, kn)'
       /\ OwnersOK(s, lo, hi, kn, at, tp)'
       /\ ReadersOK(s, lo, hi, at)' /\ SignalersOK(s, lo, at, tp)'
       /\ LiveOK(s, lo, hi, at, tp, live)'
  BY ZenonT(60), <1>1, <1>2, <1>3, <1>6, OthersStay
<1>11. Tended'
  BY <1>6 DEF Tended
<1> QED  BY <1>7, <1>8, <1>9, <1>10, <1>11, Witnessed DEF Sound

LEMMA ConvertToSharedKeeps ==
  ASSUME NEW s \in Log, NEW lo \in Nat, NEW hi \in Nat, NEW kn \in Nat,
         NEW at \in [Thread -> Nat], NEW tp \in [Thread -> Nat], NEW live \in SUBSET Nat,
         Sound(s, lo, hi, kn, at, tp, live),
         NEW t \in Thread, ConvertToShared(t)
  PROVE  Inv'
<1>1. /\ pc[t] = "Idle" /\ holds[t] = "Exclusive"
      /\ word' = IF word.waiting THEN word ELSE [word EXCEPT !.share = 1]
      /\ holds' = [holds EXCEPT ![t] = "Shared"]
      /\ UNCHANGED <<next, last, previous, shareCount, exclusive, spinning,
                     signaled, gate, pc, want, old, cur, acquires>>
  BY DEF ConvertToShared, chainVars, wakeVars
<1>2. /\ holds'[t] = "Shared" /\ \A u \in Thread : u # t => holds'[u] = holds[u]
      /\ want[t] = "None"
  BY <1>1, Unpack DEF Sound, PcOK
<1>3. /\ word \in Word /\ word' \in Word
      /\ word'.locked <=> word.locked
      /\ word'.waiting <=> word.waiting
      /\ word'.waking <=> word.waking
      /\ word'.multiple <=> word.multiple
      /\ word'.top = word.top
      /\ word'.share = IF word.waiting THEN word.share ELSE 1
  <2>1. word \in Word
    BY Unpack
  <2> QED  BY <1>1, <2>1 DEF Word
<1>4. /\ \A u \in Thread : holds[u] # "None" => u = t
      /\ word.locked /\ ~word.multiple
  BY <1>1 DEF Sound, LockOK, Held, Alone, CountInBlock
<1>5. TypeOK'
  <2>1. holds' \in [Thread -> Modes \union {"None"}]
    BY <1>1, Unpack DEF Modes
  <2> QED  BY <1>1, <1>3, <2>1, Unpack, Typed
<1>6. PcOK'
  BY <1>1, <1>2 DEF Sound, PcOK, Modes, Owns, Releaser
<1>7. LockOK(s[lo])'
  <2>1. \A u \in Thread : holds'[u] # "None" => u = t
    BY <1>2, <1>4
  <2>2. Held'
    BY <1>2, <1>3, <1>4, <2>1 DEF Held
  <2>3. Sharers' = {t}
    BY <1>2, <2>1 DEF Sharers
  <2>4. CountInWord'
    BY <1>1, <1>3, <1>4, <2>3, FS_Singleton DEF Sound, LockOK, CountInWord
  <2>5. \A u \in Thread : holds'[u] # "None" => Alone(u)'
    BY <2>1 DEF Alone
  <2>6. CountInBlock(s[lo])'
    BY <1>1, <1>3, <1>4, <2>5 DEF Sound, LockOK, CountInBlock
  <2> QED  BY <2>2, <2>4, <2>6 DEF LockOK
<1>8. /\ Shape(s, lo, hi)' /\ Ends(s, lo, hi, kn)'
      /\ OwnersOK(s, lo, hi, kn, at, tp)'
      /\ ReadersOK(s, lo, hi, at)' /\ SignalersOK(s, lo, at, tp)'
      /\ LiveOK(s, lo, hi, at, tp, live)'
  BY ZenonT(60), <1>1, <1>2, <1>3, OthersStay
<1>9. Tended'
  BY <1>3, <1>4 DEF Tended
<1> QED  BY <1>5, <1>6, <1>7, <1>8, <1>9, Witnessed DEF Sound

LEMMA ConvertToExclusiveKeeps ==
  ASSUME NEW s \in Log, NEW lo \in Nat, NEW hi \in Nat, NEW kn \in Nat,
         NEW at \in [Thread -> Nat], NEW tp \in [Thread -> Nat], NEW live \in SUBSET Nat,
         Sound(s, lo, hi, kn, at, tp, live),
         NEW t \in Thread, ConvertToExclusive(t)
  PROVE  Inv'
<1>1. /\ pc[t] = "Idle" /\ holds[t] = "Shared" /\ word.share = 1 /\ ~word.waiting
      /\ word' = [word EXCEPT !.share = 0]
      /\ holds' = [holds EXCEPT ![t] = "Exclusive"]
      /\ UNCHANGED <<next, last, previous, shareCount, exclusive, spinning,
                     signaled, gate, pc, want, old, cur, acquires>>
  BY DEF ConvertToExclusive, chainVars, wakeVars
<1>2. /\ holds'[t] = "Exclusive" /\ \A u \in Thread : u # t => holds'[u] = holds[u]
      /\ want[t] = "None"
  BY <1>1, Unpack DEF Sound, PcOK
<1>3. /\ word \in Word /\ word' \in Word
      /\ word'.locked <=> word.locked
      /\ word'.waiting <=> word.waiting
      /\ word'.waking <=> word.waking
      /\ word'.multiple <=> word.multiple
      /\ word'.top = word.top
      /\ word'.share = 0
  <2>1. word \in Word
    BY Unpack
  <2> QED  BY <1>1, <2>1 DEF Word
<1>4. /\ \A u \in Thread : holds[u] # "None" => u = t
      /\ word.locked /\ ~word.multiple
      /\ \A u \in Thread : pc[u] \notin Releaser
  <2>1. /\ word.share = Cardinality(Sharers) /\ ~word.multiple
        /\ \A u \in Thread : pc[u] \notin Releaser
    BY <1>1 DEF Sound, LockOK, CountInWord
  <2>2. Alone(t)
    <3>1. Held /\ holds \in [Thread -> Modes \union {"None"}]
      BY Unpack DEF Sound, LockOK
    <3>2. Cardinality(Sharers) <= 1
      BY <1>1, <2>1
    <3> QED  BY <1>1, <3>1, <3>2, SoleSharer
  <2>3. word.locked
    BY <1>1 DEF Sound, LockOK, Held
  <2> QED  BY <2>1, <2>2, <2>3 DEF Alone
<1>5. TypeOK'
  <2>1. holds' \in [Thread -> Modes \union {"None"}]
    BY <1>1, Unpack DEF Modes
  <2> QED  BY <1>1, <1>3, <2>1, Unpack, Typed
<1>6. PcOK'
  BY <1>1, <1>2 DEF Sound, PcOK, Modes, Owns, Releaser
<1>7. LockOK(s[lo])'
  <2>1. \A u \in Thread : holds'[u] # "None" => u = t
    BY <1>2, <1>4
  <2>2. Held'
    BY <1>2, <1>3, <1>4, <2>1 DEF Held, Alone
  <2>3. Sharers' = {}
    BY <1>2, <2>1 DEF Sharers
  <2>4. CountInWord'
    BY <1>1, <1>3, <1>4, <2>3, FS_EmptySet DEF CountInWord
  <2>5. CountInBlock(s[lo])'
    BY <1>1, <1>3, <1>4 DEF CountInBlock, Releaser
  <2> QED  BY <2>2, <2>4, <2>5 DEF LockOK
<1>8. /\ Shape(s, lo, hi)' /\ Ends(s, lo, hi, kn)'
      /\ OwnersOK(s, lo, hi, kn, at, tp)'
      /\ ReadersOK(s, lo, hi, at)' /\ SignalersOK(s, lo, at, tp)'
      /\ LiveOK(s, lo, hi, at, tp, live)'
  BY <1>1, <1>2, <1>3, OthersStay
<1>9. Tended'
  BY <1>3, <1>4 DEF Tended
<1> QED  BY <1>5, <1>6, <1>7, <1>8, <1>9, Witnessed DEF Sound

LEMMA BeginReleaseKeeps ==
  ASSUME NEW s \in Log, NEW lo \in Nat, NEW hi \in Nat, NEW kn \in Nat,
         NEW at \in [Thread -> Nat], NEW tp \in [Thread -> Nat], NEW live \in SUBSET Nat,
         Sound(s, lo, hi, kn, at, tp, live),
         NEW t \in Thread, BeginRelease(t)
  PROVE  Inv'
<1>1. /\ pc[t] = "Idle" /\ holds[t] = "Shared" /\ word.waiting
      /\ pc' = [pc EXCEPT ![t] = IF word.multiple THEN "FindEnd" ELSE "Unlock"]
      /\ old' = [old EXCEPT ![t] = word] /\ cur' = [cur EXCEPT ![t] = word.top]
      /\ UNCHANGED <<word, next, last, previous, shareCount, exclusive, spinning,
                     signaled, gate, want, holds, acquires>>
  BY DEF BeginRelease, Goto, Walk, chainVars, wakeVars
<1>2. /\ word.multiple => pc'[t] = "FindEnd"
      /\ ~word.multiple => pc'[t] = "Unlock"
      /\ cur'[t] = word.top
      /\ \A u \in Thread : u # t => pc'[u] = pc[u] /\ cur'[u] = cur[u] /\ old'[u] = old[u]
      /\ want[t] = "None"
  BY ZenonT(60), <1>1, Unpack DEF Sound, PcOK
<1>3. word \in Word /\ word.top \in Thread \union {Null}
  BY Unpack DEF Word
<1>4. TypeOK'
  <2>1. pc' \in [Thread -> Pc]
    BY <1>1, Unpack DEF Pc
  <2>2. old' \in [Thread -> Word] /\ cur' \in [Thread -> Thread \union {Null}]
    BY <1>1, <1>3, Unpack
  <2> QED  BY <1>1, <2>1, <2>2, Unpack, Typed
<1>5. PcOK'
  BY <1>1, <1>2 DEF Sound, PcOK, Modes, Owns, Releaser
<1>6. LockOK(s[lo])'
  <2>1. Held' /\ CountInWord'
    BY <1>1 DEF Sound, LockOK, Held, Alone, CountInWord
  <2>2. word.multiple => Remaining' = Remaining
    BY <1>1, <1>2 DEF Remaining
  <2>3. \A u \in Thread : Alone(u)' <=> Alone(u)
    BY <1>1 DEF Alone
  <2>4. /\ word.multiple => \A u \in Thread : pc'[u] = "Unlock" => pc[u] = "Unlock"
        /\ \A u \in Thread : pc'[u] \in {"FindEnd", "Decrement"} =>
             word.multiple \/ pc[u] \in {"FindEnd", "Decrement"}
    BY <1>2
  <2>5. CountInBlock(s[lo])'
    BY <1>1, <2>2, <2>3, <2>4 DEF Sound, LockOK, CountInBlock
  <2> QED  BY <2>1, <2>5 DEF LockOK
<1>7. PICK at1 \in [Thread -> Nat] : at1[t] = hi /\ \A u \in Thread : u # t => at1[u] = at[u]
  BY [at EXCEPT ![t] = hi] \in [Thread -> Nat]
<1>8. Shape(s, lo, hi)' /\ Ends(s, lo, hi, kn)'
  BY <1>1, ShapeStays, EndsStay DEF Sound
<1>9. \A u \in Thread : Owns(u)' \/ Owns(u) => u # t
  BY <1>1, <1>2 DEF Owns
<1>10. OwnersOK(s, lo, hi, kn, at1, tp)'
  <2>1. \A u \in Thread : Owns(u)' <=> Owns(u)
    BY <1>2, <1>9 DEF Owns
  <2>2. \A u \in Thread : Owns(u) => /\ pc'[u] = pc[u] /\ cur'[u] = cur[u] /\ old'[u] = old[u]
                                     /\ at1[u] = at[u]
    BY <1>2, <1>7, <1>9
  <2> QED  BY <1>1, <2>1, <2>2 DEF Sound, OwnersOK
<1>11. ReadersOK(s, lo, hi, at1)'
  <2>1. lo <= hi /\ word.top = s[hi]
    BY <1>1 DEF Sound, Shape
  <2>2. /\ kn \in lo..hi /\ last[s[kn]] = s[lo]
        /\ \A q \in kn + 1..hi : last[s[q]] = Null
    BY <2>1 DEF Sound, Ends
  <2>3. ASSUME NEW u \in Thread, u # t
        PROVE  /\ pc'[u] = "FindEnd" =>
                    /\ lo <= at1[u] /\ at1[u] <= hi /\ cur'[u] = s[at1[u]]
                    /\ \E p \in lo..at1[u] : /\ last'[s[p]] = s[lo]
                                             /\ \A q \in p + 1..at1[u] : last'[s[q]] = Null
               /\ pc'[u] = "Decrement" => cur'[u] = s[lo]
    BY <1>1, <1>2, <1>7, <2>3 DEF Sound, ReadersOK
  <2>4. /\ lo <= at1[t] /\ at1[t] <= hi /\ cur'[t] = s[at1[t]]
        /\ \E p \in lo..at1[t] : /\ last'[s[p]] = s[lo]
                                 /\ \A q \in p + 1..at1[t] : last'[s[q]] = Null
    BY <1>1, <1>2, <1>7, <2>1, <2>2
  <2>5. pc'[t] # "Decrement"
    BY <1>2
  <2> QED  BY <2>3, <2>4, <2>5 DEF ReadersOK
<1>12. SignalersOK(s, lo, at1, tp)'
  BY <1>1, <1>2, <1>7 DEF Sound, SignalersOK
<1>13. LiveOK(s, lo, hi, at1, tp, live)'
  <2>1. \A u : Listed(u) => Listed(u)'
    BY <1>1, <1>2 DEF Listed
  <2>2. \A u \in Thread : pc'[u] = "Signal" => pc[u] = "Signal" /\ at1[u] = at[u]
    BY <1>2, <1>7
  <2> QED  BY <2>1, <2>2 DEF Sound, LiveOK
<1>14. Tended'
  BY <1>1, <1>2, TendedStays DEF Sound, WillWake
<1>15. Sound(s, lo, hi, kn, at1, tp, live)'
  BY <1>4, <1>5, <1>6, <1>8, <1>10, <1>11, <1>12, <1>13, <1>14 DEF Sound
<1> QED  BY <1>15, Witnessed

(* The search goes down the chain, and not below the block whose last      *)
(* pointer leads to the end.                                               *)
LEMMA FindEndKeeps ==
  ASSUME NEW s \in Log, NEW lo \in Nat, NEW hi \in Nat, NEW kn \in Nat,
         NEW at \in [Thread -> Nat], NEW tp \in [Thread -> Nat], NEW live \in SUBSET Nat,
         Sound(s, lo, hi, kn, at, tp, live),
         NEW t \in Thread, FindEnd(t)
  PROVE  Inv'
<1>1. /\ pc[t] = "FindEnd"
      /\ UNCHANGED <<word, next, last, previous, shareCount, exclusive, spinning,
                     signaled, gate, want, holds, old, acquires>>
  BY DEF FindEnd, chainVars, wakeVars
<1>2. /\ lo <= at[t] /\ at[t] <= hi /\ at[t] \in Nat /\ cur[t] = s[at[t]]
      /\ \E p \in lo..at[t] : /\ last[s[p]] = s[lo]
                              /\ \A q \in p + 1..at[t] : last[s[q]] = Null
  BY <1>1 DEF Sound, ReadersOK
<1>3. PICK p \in lo..at[t] : last[s[p]] = s[lo] /\ \A q \in p + 1..at[t] : last[s[q]] = Null
  BY <1>2
<1>4. /\ \A q \in lo..hi : s[q] \in Thread
      /\ \A q \in lo + 1..hi : next[s[q]] = s[q - 1]
  <2>1. LiveOK(s, lo, hi, at, tp, live)
    BY DEF Sound
  <2>2. \A q \in lo..hi : s[q] \in Thread
    BY <2>1 DEF LiveOK, Listed
  <2> QED  BY <2>2 DEF Sound, Shape
<1>5. s[lo] \in Thread /\ want[t] = "None" /\ holds[t] = "Shared" /\ word.multiple
  BY <1>1, <1>2, <1>4 DEF Sound, PcOK, Releaser, LockOK, CountInBlock
<1>6. PICK where \in {"FindEnd", "Decrement"} :
        where = IF last[cur[t]] # Null THEN "Decrement" ELSE "FindEnd"
  OBVIOUS
<1>7. /\ pc' = [pc EXCEPT ![t] = where]
      /\ last[cur[t]] # Null => where = "Decrement" /\ cur' = [cur EXCEPT ![t] = s[lo]]
      /\ last[cur[t]] = Null => where = "FindEnd" /\ cur' = [cur EXCEPT ![t] = s[at[t] - 1]] /\ p < at[t]
  <2>1. CASE last[cur[t]] # Null
    <3>1. p = at[t]
      BY <1>2, <1>3, <2>1
    <3> QED  BY <1>2, <1>3, <1>6, <2>1, <3>1 DEF FindEnd, Goto
  <2>2. CASE last[cur[t]] = Null
    <3>1. p < at[t]
      BY <1>2, <1>3, <1>5, <2>2
    <3>2. next[cur[t]] = s[at[t] - 1]
      BY <1>2, <1>3, <1>4, <3>1
    <3>3. pc' = pc /\ cur' = [cur EXCEPT ![t] = next[cur[t]]] /\ where = "FindEnd"
      BY <1>6, <2>2 DEF FindEnd
    <3>4. pc' = [pc EXCEPT ![t] = where]
      BY <1>1, <3>3, Unpack
    <3> QED  BY <2>2, <3>1, <3>2, <3>3, <3>4
  <2> QED  BY <2>1, <2>2
<1>8. PICK b \in Nat : last[cur[t]] = Null => b = at[t] - 1 /\ b >= lo /\ b >= p
  <2>1. CASE last[cur[t]] = Null
    BY <1>2, <1>3, <1>7, <2>1
  <2>2. CASE last[cur[t]] # Null
    BY <2>2
  <2> QED  BY <2>1, <2>2
<1>9. /\ pc'[t] = where
      /\ where = "FindEnd" => cur'[t] = s[b] /\ b = at[t] - 1 /\ lo <= b /\ p <= b
      /\ where = "Decrement" => cur'[t] = s[lo]
      /\ \A u \in Thread : u # t => pc'[u] = pc[u] /\ cur'[u] = cur[u]
  <2>1. pc \in [Thread -> Pc] /\ cur \in [Thread -> Thread \union {Null}]
    BY Unpack
  <2>2. where = "FindEnd" => last[cur[t]] = Null
    BY <1>6
  <2>3. where = "Decrement" => last[cur[t]] # Null
    BY <1>6
  <2> QED  BY <1>7, <1>8, <2>1, <2>2, <2>3
<1>10. PICK at1 \in [Thread -> Nat] : at1[t] = b /\ \A u \in Thread : u # t => at1[u] = at[u]
  BY [at EXCEPT ![t] = b] \in [Thread -> Nat]
<1>11. TypeOK'
  <2>1. pc' \in [Thread -> Pc]
    BY <1>7, Unpack DEF Pc
  <2>2. cur' \in [Thread -> Thread \union {Null}]
    <3>1. cur \in [Thread -> Thread \union {Null}]
      BY Unpack
    <3>2. last[cur[t]] = Null => s[at[t] - 1] \in Thread
      BY <1>2, <1>4, <1>8
    <3> QED  BY <1>5, <1>7, <3>1, <3>2
  <2> QED  BY <1>1, <2>1, <2>2, Unpack, Typed
<1>12. PcOK'
  BY <1>1, <1>5, <1>9 DEF Sound, PcOK, Modes, Owns, Releaser
<1>13. LockOK(s[lo])'
  <2>1. Held' /\ CountInWord'
    BY <1>1, <1>5 DEF Sound, LockOK, Held, Alone, CountInWord
  <2>2. Remaining' = Remaining
    BY <1>1, <1>9 DEF Remaining
  <2>3. \A u \in Thread : Alone(u)' <=> Alone(u)
    BY <1>1 DEF Alone
  <2>4. \A u \in Thread : pc'[u] = "Unlock" => pc[u] = "Unlock"
    BY <1>9
  <2>5. CountInBlock(s[lo])'
    BY <1>1, <1>5, <2>2, <2>3, <2>4 DEF Sound, LockOK, CountInBlock
  <2> QED  BY <2>1, <2>5 DEF LockOK
<1>14. Shape(s, lo, hi)' /\ Ends(s, lo, hi, kn)'
  BY <1>1, ShapeStays, EndsStay DEF Sound
<1>15. OwnersOK(s, lo, hi, kn, at1, tp)'
  <2>1. \A u \in Thread : Owns(u) \/ Owns(u)' => u # t
    BY <1>1, <1>9 DEF Owns
  <2>2. \A u \in Thread : Owns(u)' <=> Owns(u)
    BY <1>9, <2>1 DEF Owns
  <2>3. \A u \in Thread : Owns(u) => pc'[u] = pc[u] /\ cur'[u] = cur[u] /\ at1[u] = at[u]
    BY <1>9, <1>10, <2>1
  <2> QED  BY <1>1, <2>2, <2>3 DEF Sound, OwnersOK
<1>16. ReadersOK(s, lo, hi, at1)'
  <2>1. ASSUME NEW u \in Thread, u # t
        PROVE  /\ pc'[u] = "FindEnd" =>
                    /\ lo <= at1[u] /\ at1[u] <= hi /\ cur'[u] = s[at1[u]]
                    /\ \E x \in lo..at1[u] : /\ last'[s[x]] = s[lo]
                                             /\ \A q \in x + 1..at1[u] : last'[s[q]] = Null
               /\ pc'[u] = "Decrement" => cur'[u] = s[lo]
    BY <1>1, <1>9, <1>10, <2>1 DEF Sound, ReadersOK
  <2>2. ASSUME pc'[t] = "FindEnd"
        PROVE  /\ lo <= at1[t] /\ at1[t] <= hi /\ cur'[t] = s[at1[t]]
               /\ \E x \in lo..at1[t] : /\ last'[s[x]] = s[lo]
                                        /\ \A q \in x + 1..at1[t] : last'[s[q]] = Null
    <3>1. cur'[t] = s[b] /\ b = at[t] - 1 /\ lo <= b /\ p <= b
      BY <1>9, <2>2
    <3>2. p \in lo..at1[t] /\ last'[s[p]] = s[lo] /\ \A q \in p + 1..at1[t] : last'[s[q]] = Null
      BY <1>1, <1>2, <1>3, <1>10, <3>1
    <3> QED  BY <1>2, <1>10, <3>1, <3>2
  <2>3. pc'[t] = "Decrement" => cur'[t] = s[lo]
    BY <1>9
  <2> QED  BY <2>1, <2>2, <2>3 DEF ReadersOK
<1>17. SignalersOK(s, lo, at1, tp)'
  <2>1. \A u \in Thread : pc'[u] = "Signal" => pc[u] = "Signal" /\ cur'[u] = cur[u] /\ at1[u] = at[u]
    BY <1>9, <1>10
  <2> QED  BY <1>1, <2>1 DEF Sound, SignalersOK
<1>18. LiveOK(s, lo, hi, at1, tp, live)'
  <2>1. \A u : Listed(u) => Listed(u)'
    BY <1>1, <1>5, <1>9 DEF Listed
  <2>2. \A u \in Thread : pc'[u] = "Signal" => pc[u] = "Signal" /\ at1[u] = at[u]
    BY <1>9, <1>10
  <2> QED  BY <2>1, <2>2 DEF Sound, LiveOK
<1>19. Tended'
  BY <1>1, <1>9, TendedStays DEF Sound, WillWake
<1>20. Sound(s, lo, hi, kn, at1, tp, live)'
  BY <1>11, <1>12, <1>13, <1>14, <1>15, <1>16, <1>17, <1>18, <1>19 DEF Sound
<1> QED  BY <1>20, Witnessed

(* The count in the block follows the shared owners that are still to give *)
(* up their part of it.                                                    *)
LEMMA DecrementKeeps ==
  ASSUME NEW s \in Log, NEW lo \in Nat, NEW hi \in Nat, NEW kn \in Nat,
         NEW at \in [Thread -> Nat], NEW tp \in [Thread -> Nat], NEW live \in SUBSET Nat,
         Sound(s, lo, hi, kn, at, tp, live),
         NEW t \in Thread, Decrement(t)
  PROVE  Inv'
<1>1. /\ pc[t] = "Decrement"
      /\ shareCount' = [shareCount EXCEPT ![cur[t]] = @ - 1]
      /\ IF shareCount[cur[t]] - 1 > 0
         THEN pc' = [pc EXCEPT ![t] = "Idle"] /\ holds' = [holds EXCEPT ![t] = "None"]
         ELSE pc' = [pc EXCEPT ![t] = "Unlock"] /\ holds' = holds
      /\ UNCHANGED <<word, next, last, previous, exclusive, spinning, signaled, gate,
                     want, old, cur, acquires>>
  BY DEF Decrement, Goto, wakeVars
<1>2. /\ cur[t] = s[lo] /\ word.multiple /\ want[t] = "None" /\ holds[t] = "Shared"
      /\ word.waiting /\ word.locked /\ exclusive[s[lo]]
      /\ shareCount[s[lo]] = Cardinality(Remaining)
      /\ \A u \in Thread : holds[u] # "Exclusive"
      /\ \A u \in Thread : pc[u] = "Unlock" => Alone(u)
  BY <1>1 DEF Sound, ReadersOK, LockOK, CountInBlock, CountInWord, PcOK, Releaser
<1>3. s[lo] \in Thread
  <2>1. LiveOK(s, lo, hi, at, tp, live) /\ lo <= hi
    BY <1>2 DEF Sound, Shape
  <2>2. \A q \in live : s[q] \in Thread
    BY <2>1 DEF LiveOK, Listed
  <2>3. lo \in live
    BY <2>1 DEF LiveOK
  <2> QED  BY <2>2, <2>3
<1>4. t \in Remaining /\ Cardinality(Remaining) \in Nat /\ Cardinality(Remaining) >= 1
  <2>1. t \in Remaining
    BY <1>1, <1>2 DEF Remaining
  <2>2. Cardinality(Remaining) # 0
    BY <2>1, SharersFinite, FS_EmptySet
  <2> QED  BY <2>1, <2>2, SharersFinite
<1>5. PICK n \in Nat : n = Cardinality(Remaining) - 1
  BY <1>4
<1>6. /\ shareCount' = [shareCount EXCEPT ![s[lo]] = n] /\ shareCount'[s[lo]] = n
      /\ n > 0 => pc' = [pc EXCEPT ![t] = "Idle"] /\ holds' = [holds EXCEPT ![t] = "None"]
      /\ n = 0 => pc' = [pc EXCEPT ![t] = "Unlock"] /\ holds' = holds
  <2>1. shareCount \in [Thread -> Nat]
    BY Unpack
  <2>2. shareCount[cur[t]] - 1 = n
    BY <1>2, <1>5
  <2>3. shareCount' = [shareCount EXCEPT ![s[lo]] = n]
    BY <1>1, <1>2, <2>2
  <2>4. shareCount'[s[lo]] = n
    BY <1>3, <2>1, <2>3
  <2>5. n > 0 => pc' = [pc EXCEPT ![t] = "Idle"] /\ holds' = [holds EXCEPT ![t] = "None"]
    BY <1>1, <2>2
  <2>6. n = 0 => pc' = [pc EXCEPT ![t] = "Unlock"] /\ holds' = holds
    BY <1>1, <2>2
  <2> QED  BY <2>3, <2>4, <2>5, <2>6
<1>7. /\ n > 0 => pc'[t] = "Idle" /\ holds'[t] = "None"
      /\ n = 0 => pc'[t] = "Unlock" /\ holds'[t] = "Shared"
      /\ \A u \in Thread : u # t => pc'[u] = pc[u] /\ holds'[u] = holds[u]
  <2>1. pc \in [Thread -> Pc] /\ holds \in [Thread -> Modes \union {"None"}]
    BY Unpack
  <2>2. n > 0 \/ n = 0
    OBVIOUS
  <2> QED  BY <1>2, <1>6, <2>1, <2>2
<1>8. TypeOK'
  <2>1. shareCount' \in [Thread -> Nat]
    BY <1>3, <1>6, Unpack
  <2>2. pc' \in [Thread -> Pc] /\ holds' \in [Thread -> Modes \union {"None"}]
    <3>1. pc \in [Thread -> Pc] /\ holds \in [Thread -> Modes \union {"None"}]
      BY Unpack
    <3>2. n > 0 \/ n = 0
      OBVIOUS
    <3> QED  BY <1>6, <3>1, <3>2 DEF Pc
  <2> QED  BY <1>1, <2>1, <2>2, Unpack, Typed
<1>9. PcOK'
  <2>1. n > 0 \/ n = 0
    OBVIOUS
  <2> QED  BY <1>1, <1>2, <1>7, <2>1 DEF Sound, PcOK, Modes, Owns, Releaser
<1>10. Remaining' = Remaining \ {t} /\ Cardinality(Remaining)' = n
  <2>1. n > 0 \/ n = 0
    OBVIOUS
  <2>2. Remaining' = Remaining \ {t}
    BY <1>7, <2>1 DEF Remaining
  <2> QED  BY <1>4, <1>5, <2>2, SharersFinite, FS_RemoveElement
<1>11. LockOK(s[lo])'
  <2>1. \A u \in Thread : holds'[u] # "Exclusive" /\ (holds'[u] # "None" => holds[u] # "None")
    <3>1. n > 0 \/ n = 0
      OBVIOUS
    <3> QED  BY <1>2, <1>7, <3>1
  <2>2. \E u \in Thread : holds'[u] # "None"
    <3>1. CASE n = 0
      BY <1>7, <3>1
    <3>2. CASE n > 0
      <4>1. Remaining' # {}
        BY SMTT(30), <1>10, <3>2, FS_EmptySet
      <4> QED  BY <4>1 DEF Remaining
    <3> QED  BY <3>1, <3>2
  <2>3. ASSUME NEW u \in Thread, pc'[u] = "Unlock" PROVE Alone(u)'
    <3>1. CASE u = t
      <4>1. n = 0
        BY <1>7, <2>3, <3>1
      <4>2. Remaining' = {}
        BY <1>10, <4>1, SharersFinite, FS_RemoveElement, FS_EmptySet
      <4>3. ASSUME NEW v \in Thread, holds'[v] # "None", v # t PROVE FALSE
        <5>1. holds[v] # "None" /\ holds'[v] \in Modes \union {"None"}
          BY <1>8, <2>1, <4>3 DEF TypeOK
        <5>2. holds'[v] = "Shared"
          BY <2>1, <4>3, <5>1 DEF Modes
        <5>3. pc'[v] = "Unlock"
          BY <4>2, <5>2 DEF Remaining
        <5>4. Alone(v)
          BY <1>2, <1>7, <4>3, <5>3
        <5> QED  BY <1>2, <4>3, <5>4 DEF Alone
      <4> QED  BY <3>1, <4>3 DEF Alone
    <3>2. CASE u # t
      <4>1. Alone(u)
        BY <1>2, <1>7, <2>3, <3>2
      <4> QED  BY <2>1, <4>1 DEF Alone
    <3> QED  BY <3>1, <3>2
  <2>4. Held' /\ CountInWord'
    BY <1>1, <1>2, <2>1, <2>2 DEF Held, CountInWord
  <2>5. word.share = 0
    BY <1>2 DEF Sound, LockOK, CountInBlock
  <2>6. CountInBlock(s[lo])'
    BY <1>1, <1>2, <1>6, <1>10, <2>1, <2>3, <2>5 DEF CountInBlock
  <2> QED  BY <2>4, <2>6 DEF LockOK
<1>12. /\ Shape(s, lo, hi)' /\ Ends(s, lo, hi, kn)'
       /\ OwnersOK(s, lo, hi, kn, at, tp)'
       /\ ReadersOK(s, lo, hi, at)' /\ SignalersOK(s, lo, at, tp)'
       /\ LiveOK(s, lo, hi, at, tp, live)'
  <2>1. pc'[t] \in {"Idle", "Unlock"}
    <3>1. n > 0 \/ n = 0
      OBVIOUS
    <3> QED  BY <1>7, <3>1
  <2> QED  BY ZenonT(60), <1>1, <1>2, <1>7, <2>1, OthersStay
<1>13. Tended'
  BY <1>1, <1>2 DEF Tended
<1> QED  BY <1>8, <1>9, <1>11, <1>12, <1>13, Witnessed DEF Sound

(* Whoever takes the Waking bit becomes its owner, at the top of the chain. *)
LEMMA NewOwner ==
  ASSUME NEW s \in Log, NEW lo \in Nat, NEW hi \in Nat, NEW kn \in Nat,
         NEW at \in [Thread -> Nat], NEW tp \in [Thread -> Nat], NEW live \in SUBSET Nat,
         Sound(s, lo, hi, kn, at, tp, live),
         NEW t \in Thread, pc[t] \notin {"Optimize", "StopOptimizing", "Wake"},
         ~word.waking, word.waiting, word'.waking, word'.waiting, ~word'.multiple,
         word'.top = word.top,
         pc'[t] = "Wake", cur'[t] = word.top, old'[t].top = word.top,
         want[t] = "None",
         \A u \in Thread : u # t => pc'[u] = pc[u] /\ cur'[u] = cur[u] /\ old'[u] = old[u],
         UNCHANGED <<next, last, previous, spinning, signaled, gate, want>>,
         TypeOK', PcOK', LockOK(s[lo])'
  PROVE  Inv'
<1>1. /\ lo <= hi /\ word.top = s[hi] /\ kn <= hi /\ previous[s[hi]] = Null
  BY DEF Sound, Shape, Ends
<1>2. PICK at1 \in [Thread -> Nat] : at1[t] = hi /\ \A u \in Thread : u # t => at1[u] = at[u]
  BY [at EXCEPT ![t] = hi] \in [Thread -> Nat]
<1>3. PICK tp1 \in [Thread -> Nat] : tp1[t] = hi /\ \A u \in Thread : u # t => tp1[u] = tp[u]
  BY [tp EXCEPT ![t] = hi] \in [Thread -> Nat]
<1>4. Shape(s, lo, hi)' /\ Ends(s, lo, hi, kn)'
  BY ShapeStays, EndsStay DEF Sound
<1>5. OwnersOK(s, lo, hi, kn, at1, tp1)'
  <2>1. \A u \in Thread : Owns(u)' <=> u = t
    BY DEF Sound, OwnersOK, Owns
  <2> QED  BY <1>1, <1>2, <1>3, <2>1 DEF OwnersOK
<1>6. \A u \in Thread : pc'[u] \in {"FindEnd", "Decrement", "Signal"} =>
        u # t /\ pc'[u] = pc[u] /\ cur'[u] = cur[u] /\ at1[u] = at[u] /\ tp1[u] = tp[u]
  BY <1>2, <1>3
<1>7. ReadersOK(s, lo, hi, at1)' /\ SignalersOK(s, lo, at1, tp1)'
  BY <1>6 DEF Sound, ReadersOK, SignalersOK
<1>8. LiveOK(s, lo, hi, at1, tp1, live)'
  <2>1. \A u : Listed(u) => Listed(u)'
    BY DEF Listed
  <2> QED  BY <1>6, <2>1 DEF Sound, LiveOK
<1>9. Tended'
  BY DEF Tended, WillWake
<1>10. Sound(s, lo, hi, kn, at1, tp1, live)'
  BY <1>4, <1>5, <1>7, <1>8, <1>9 DEF Sound
<1> QED  BY <1>10, Witnessed

(* The last owner of the lock has gone. *)
LEMMA Unheld ==
  ASSUME NEW s \in Log, NEW lo \in Nat, NEW hi \in Nat, NEW kn \in Nat,
         NEW at \in [Thread -> Nat], NEW tp \in [Thread -> Nat], NEW live \in SUBSET Nat,
         Sound(s, lo, hi, kn, at, tp, live),
         NEW t \in Thread, Alone(t), holds' = [holds EXCEPT ![t] = "None"],
         holds[t] = "Exclusive" \/ word.waiting,
         ~word'.locked, ~word'.multiple, word'.share = word.share,
         word'.waiting <=> word.waiting,
         \A u \in Thread : u # t => pc'[u] = pc[u],
         pc'[t] \notin Releaser
  PROVE  LockOK(s[lo])' /\ \A u \in Thread : pc'[u] \notin Releaser
<1>1. holds'[t] = "None" /\ \A u \in Thread : holds'[u] = "None"
  BY Unpack DEF Alone
<1>2. \A u \in Thread : pc'[u] \notin Releaser
  BY <1>1, Unpack DEF Alone, Sound, PcOK
<1>3. Held'
  BY <1>1 DEF Held
<1>4. CountInWord'
  <2> SUFFICES ASSUME ~word.waiting PROVE word'.share = Cardinality(Sharers)'
    BY <1>2 DEF CountInWord
  <2>1. Sharers = {} /\ Sharers' = {}
    BY <1>1 DEF Sharers, Alone
  <2> QED  BY <2>1 DEF Sound, LockOK, CountInWord
<1>5. CountInBlock(s[lo])'
  <2>1. word'.waiting => word'.share = 0
    BY DEF Sound, LockOK, CountInBlock
  <2> QED  BY <1>1, <1>2, <2>1 DEF CountInBlock, Releaser
<1> QED  BY <1>2, <1>3, <1>4, <1>5 DEF LockOK

(* The last owner of the lock leaves, and takes the Waking bit if there    *)
(* are waiters whom nobody else wakes.                                     *)
LEMMA UnlockKeeps ==
  ASSUME NEW s \in Log, NEW lo \in Nat, NEW hi \in Nat, NEW kn \in Nat,
         NEW at \in [Thread -> Nat], NEW tp \in [Thread -> Nat], NEW live \in SUBSET Nat,
         Sound(s, lo, hi, kn, at, tp, live),
         NEW t \in Thread, Unlock(t)
  PROVE  Inv'
<1>1. /\ pc[t] = "Unlock" \/ (pc[t] = "Idle" /\ holds[t] = "Exclusive")
      /\ word' = [word EXCEPT !.locked = FALSE, !.multiple = FALSE, !.waking = word.waiting]
      /\ holds' = [holds EXCEPT ![t] = "None"]
      /\ word.waiting /\ ~word.waking =>
           /\ pc' = [pc EXCEPT ![t] = "Wake"]
           /\ old' = [old EXCEPT ![t] = word'] /\ cur' = [cur EXCEPT ![t] = word'.top]
      /\ ~word.waiting \/ word.waking =>
           pc' = [pc EXCEPT ![t] = "Idle"] /\ old' = old /\ cur' = cur
      /\ UNCHANGED <<next, last, previous, shareCount, exclusive, spinning,
                     signaled, gate, want, acquires>>
  BY DEF Unlock, Goto, Walk, chainVars, wakeVars
<1>2. /\ word \in Word /\ word' \in Word /\ ~word'.locked /\ ~word'.multiple
      /\ word'.waiting <=> word.waiting
      /\ word'.waking <=> word.waiting
      /\ word'.top = word.top /\ word'.share = word.share
      /\ word.top \in Thread \union {Null}
  <2>1. word \in Word
    BY Unpack
  <2> QED  BY <1>1, <2>1 DEF Word
<1>3. /\ word.waiting /\ ~word.waking => pc'[t] = "Wake" /\ old'[t] = word' /\ cur'[t] = word.top
      /\ ~word.waiting \/ word.waking => pc'[t] = "Idle"
      /\ \A u \in Thread : u # t => /\ pc'[u] = pc[u] /\ cur'[u] = cur[u] /\ old'[u] = old[u]
                                    /\ holds'[u] = holds[u]
      /\ holds'[t] = "None"
  <2>1. /\ pc \in [Thread -> Pc] /\ old \in [Thread -> Word]
        /\ cur \in [Thread -> Thread \union {Null}]
        /\ holds \in [Thread -> Modes \union {"None"}]
    BY Unpack
  <2>2. (word.waiting /\ ~word.waking) \/ (~word.waiting \/ word.waking)
    OBVIOUS
  <2> QED  BY <1>1, <1>2, <2>1, <2>2
<1>4. want[t] = "None" /\ Alone(t) /\ (holds[t] = "Exclusive" \/ word.waiting)
  <2>1. CASE holds[t] = "Exclusive"
    BY <1>1, <2>1 DEF Sound, PcOK, Releaser, LockOK, Held
  <2>2. CASE pc[t] = "Unlock"
    <3>1. word.waiting /\ want[t] = "None" /\ holds[t] = "Shared"
      BY <2>2 DEF Sound, PcOK, Releaser, LockOK, CountInWord
    <3>2. Alone(t)
      BY <2>2, <3>1 DEF Sound, LockOK, CountInBlock
    <3> QED  BY <3>1, <3>2
  <2> QED  BY <1>1, <2>1, <2>2
<1>5. pc'[t] \in {"Wake", "Idle"}
  BY <1>3
<1>6. TypeOK'
  <2>1. /\ pc' \in [Thread -> Pc] /\ old' \in [Thread -> Word]
        /\ cur' \in [Thread -> Thread \union {Null}]
    <3>1. /\ pc \in [Thread -> Pc] /\ old \in [Thread -> Word]
          /\ cur \in [Thread -> Thread \union {Null}]
      BY Unpack
    <3>2. (word.waiting /\ ~word.waking) \/ (~word.waiting \/ word.waking)
      OBVIOUS
    <3> QED  BY <1>1, <1>2, <3>1, <3>2 DEF Pc
  <2>2. holds' \in [Thread -> Modes \union {"None"}]
    BY <1>1, Unpack
  <2> QED  BY <1>1, <1>2, <2>1, <2>2, Unpack, Typed
<1>7. PcOK'
  <2>1. pc'[t] = "Wake" => ~old'[t].multiple
    BY <1>2, <1>3
  <2>2. want' = want /\ spinning' = spinning
    BY <1>1
  <2> QED  BY <1>3, <1>4, <1>5, <2>1, <2>2 DEF Sound, PcOK, Owns, Releaser
<1>8. LockOK(s[lo])'
  BY ZenonT(60), <1>1, <1>2, <1>3, <1>4, <1>5, Unheld DEF Releaser
<1>9. CASE word.waiting /\ ~word.waking
  <2>1. pc[t] \notin {"Optimize", "StopOptimizing", "Wake"}
    BY <1>1
  <2>2. /\ pc'[t] = "Wake" /\ cur'[t] = word.top /\ old'[t].top = word.top
        /\ word'.waking /\ word'.waiting /\ ~word'.multiple /\ word'.top = word.top
    BY <1>2, <1>3, <1>9
  <2>3. UNCHANGED <<next, last, previous, spinning, signaled, gate, want>>
    BY <1>1
  <2> QED  BY ZenonT(60), <1>3, <1>4, <1>6, <1>7, <1>8, <1>9, <2>1, <2>2, <2>3, NewOwner
<1>10. CASE ~word.waiting \/ word.waking
  <2>1. word'.waking <=> word.waking
    BY <1>2, <1>10 DEF Sound, OwnersOK
  <2>2. /\ Shape(s, lo, hi)' /\ Ends(s, lo, hi, kn)'
        /\ OwnersOK(s, lo, hi, kn, at, tp)'
        /\ ReadersOK(s, lo, hi, at)' /\ SignalersOK(s, lo, at, tp)'
        /\ LiveOK(s, lo, hi, at, tp, live)'
    BY ZenonT(60), <1>1, <1>2, <1>3, <1>4, <1>10, <2>1, OthersStay
  <2>3. Tended'
    <3>1. CASE ~word.waiting
      BY <1>2, <3>1 DEF Tended
    <3>2. CASE word.waking
      BY <1>2, <2>1, <2>2, <3>2 DEF OwnersOK, Owns, Tended, WillWake
    <3> QED  BY <1>10, <3>1, <3>2
  <2> QED  BY <1>6, <1>7, <1>8, <2>2, <2>3, Witnessed DEF Sound
<1> QED  BY <1>9, <1>10

LEMMA UnlockInlineKeeps ==
  ASSUME NEW s \in Log, NEW lo \in Nat, NEW hi \in Nat, NEW kn \in Nat,
         NEW at \in [Thread -> Nat], NEW tp \in [Thread -> Nat], NEW live \in SUBSET Nat,
         Sound(s, lo, hi, kn, at, tp, live),
         NEW t \in Thread, UnlockInline(t)
  PROVE  Inv'
<1>1. /\ pc[t] = "Idle" /\ holds[t] = "Exclusive"
      /\ word' = [word EXCEPT !.locked = FALSE]
      /\ holds' = [holds EXCEPT ![t] = "None"]
      /\ pc' = [pc EXCEPT ![t] = IF word.waiting /\ ~word.waking THEN "TryToWake" ELSE "Idle"]
      /\ UNCHANGED <<next, last, previous, shareCount, exclusive, spinning,
                     signaled, gate, want, old, cur, acquires>>
  BY DEF UnlockInline, Goto, chainVars, wakeVars
<1>2. /\ word \in Word /\ word' \in Word /\ ~word'.locked
      /\ word'.waiting <=> word.waiting
      /\ word'.waking <=> word.waking
      /\ word'.multiple <=> word.multiple
      /\ word'.top = word.top /\ word'.share = word.share
  <2>1. word \in Word
    BY Unpack
  <2> QED  BY <1>1, <2>1 DEF Word
<1>3. /\ word.waiting /\ ~word.waking => pc'[t] = "TryToWake"
      /\ ~word.waiting \/ word.waking => pc'[t] = "Idle"
      /\ \A u \in Thread : u # t => pc'[u] = pc[u] /\ holds'[u] = holds[u]
      /\ holds'[t] = "None"
  BY <1>1, Unpack
<1>4. want[t] = "None" /\ Alone(t) /\ ~word.multiple
  BY <1>1 DEF Sound, PcOK, LockOK, Held, CountInBlock
<1>5. pc'[t] \in {"TryToWake", "Idle"}
  BY <1>3
<1>6. TypeOK'
  <2>1. pc' \in [Thread -> Pc]
    BY <1>1, Unpack DEF Pc
  <2>2. holds' \in [Thread -> Modes \union {"None"}]
    BY <1>1, Unpack
  <2> QED  BY <1>1, <1>2, <2>1, <2>2, Unpack, Typed
<1>7. PcOK'
  BY <1>1, <1>3, <1>4, <1>5 DEF Sound, PcOK, Owns, Releaser
<1>8. LockOK(s[lo])'
  BY <1>1, <1>2, <1>3, <1>4, <1>5, Unheld DEF Releaser
<1>9. /\ Shape(s, lo, hi)' /\ Ends(s, lo, hi, kn)'
      /\ OwnersOK(s, lo, hi, kn, at, tp)'
      /\ ReadersOK(s, lo, hi, at)' /\ SignalersOK(s, lo, at, tp)'
      /\ LiveOK(s, lo, hi, at, tp, live)'
  BY ZenonT(60), <1>1, <1>2, <1>3, <1>4, <1>5, OthersStay
<1>10. Tended'
  <2>1. CASE word.waiting /\ ~word.waking
    BY <1>3, <2>1 DEF Tended, WillWake
  <2>2. CASE ~word.waiting
    BY <1>2, <2>2 DEF Tended
  <2>3. CASE word.waking
    BY <1>2, <1>9, <2>3 DEF OwnersOK, Owns, Tended, WillWake
  <2> QED  BY <2>1, <2>2, <2>3
<1> QED  BY <1>6, <1>7, <1>8, <1>9, <1>10, Witnessed DEF Sound

LEMMA TryToWakeKeeps ==
  ASSUME NEW s \in Log, NEW lo \in Nat, NEW hi \in Nat, NEW kn \in Nat,
         NEW at \in [Thread -> Nat], NEW tp \in [Thread -> Nat], NEW live \in SUBSET Nat,
         Sound(s, lo, hi, kn, at, tp, live),
         NEW t \in Thread, TryToWake(t)
  PROVE  Inv'
<1>1. /\ pc[t] = "TryToWake"
      /\ UNCHANGED <<word, next, last, previous, shareCount, exclusive, spinning,
                     signaled, gate, want, holds, acquires>>
  BY DEF TryToWake, chainVars, wakeVars
<1>2. PICK w \in Word : w = [word EXCEPT !.waking = TRUE]
  <2>1. word \in Word
    BY Unpack
  <2> QED  BY <2>1 DEF Word
<1>3. /\ w.top = word.top /\ word.top \in Thread \union {Null}
      /\ w.multiple <=> word.multiple
      /\ w.waiting <=> word.waiting
  <2>1. word \in Word
    BY Unpack
  <2> QED  BY <1>2, <2>1 DEF Word
<1>4. /\ word.waking \/ word.locked \/ ~word.waiting =>
           pc' = [pc EXCEPT ![t] = "Idle"] /\ old' = old /\ cur' = cur
      /\ ~(word.waking \/ word.locked \/ ~word.waiting) =>
           /\ pc' = [pc EXCEPT ![t] = "SetWaking"]
           /\ old' = [old EXCEPT ![t] = w] /\ cur' = [cur EXCEPT ![t] = word.top]
  BY <1>2, <1>3 DEF TryToWake, Goto, Walk
<1>5. /\ word.waking \/ word.locked \/ ~word.waiting => pc'[t] = "Idle"
      /\ ~(word.waking \/ word.locked \/ ~word.waiting) =>
           pc'[t] = "SetWaking" /\ old'[t] = w /\ cur'[t] = word.top
      /\ \A u \in Thread : u # t => pc'[u] = pc[u] /\ cur'[u] = cur[u] /\ old'[u] = old[u]
  <2>1. /\ pc \in [Thread -> Pc] /\ old \in [Thread -> Word]
        /\ cur \in [Thread -> Thread \union {Null}]
    BY Unpack
  <2> QED  BY <1>4, <2>1
<1>6. want[t] = "None" /\ holds[t] = "None" /\ pc'[t] \in {"Idle", "SetWaking"}
  BY <1>1, <1>5 DEF Sound, PcOK, Releaser
<1>7. TypeOK'
  <2>1. /\ pc \in [Thread -> Pc] /\ old \in [Thread -> Word]
        /\ cur \in [Thread -> Thread \union {Null}]
    BY Unpack
  <2>2. /\ pc' \in [Thread -> Pc] /\ old' \in [Thread -> Word]
        /\ cur' \in [Thread -> Thread \union {Null}]
    BY <1>3, <1>4, <2>1 DEF Pc
  <2> QED  BY <1>1, <2>2, Unpack, Typed
<1>8. PcOK'
  <2>1. pc'[t] = "SetWaking" =>
          ~old'[t].multiple /\ cur'[t] = old'[t].top /\ old'[t].waiting
    <3>1. word.multiple => word.locked
      BY DEF Sound, LockOK, CountInBlock
    <3> QED  BY <1>3, <1>5, <3>1
  <2> QED  BY <1>1, <1>5, <1>6, <2>1 DEF Sound, PcOK, Owns, Releaser
<1>9. LockOK(s[lo])'
  BY <1>1, <1>5, <1>6, LockStays, Unpack DEF Sound, Releaser
<1>10. /\ Shape(s, lo, hi)' /\ Ends(s, lo, hi, kn)'
       /\ OwnersOK(s, lo, hi, kn, at, tp)'
       /\ ReadersOK(s, lo, hi, at)' /\ SignalersOK(s, lo, at, tp)'
       /\ LiveOK(s, lo, hi, at, tp, live)'
  BY <1>1, <1>5, <1>6, OthersStay
<1>11. Tended'
  <2>1. CASE word.locked \/ ~word.waiting
    BY <1>1, <2>1 DEF Tended
  <2>2. CASE word.waking
    BY <1>1, <1>10, <2>2 DEF OwnersOK, Owns, Tended, WillWake
  <2>3. CASE ~(word.waking \/ word.locked \/ ~word.waiting)
    BY <1>1, <1>2, <1>5, <2>3 DEF Tended, WillWake
  <2> QED  BY <2>1, <2>2, <2>3
<1> QED  BY <1>7, <1>8, <1>9, <1>10, <1>11, Witnessed DEF Sound

(* The one compare-exchange fails only when another thread has changed the *)
(* word, and with it taken over the duty to wake.                          *)
LEMMA SetWakingKeeps ==
  ASSUME NEW s \in Log, NEW lo \in Nat, NEW hi \in Nat, NEW kn \in Nat,
         NEW at \in [Thread -> Nat], NEW tp \in [Thread -> Nat], NEW live \in SUBSET Nat,
         Sound(s, lo, hi, kn, at, tp, live),
         NEW t \in Thread, SetWaking(t)
  PROVE  Inv'
<1>1. /\ pc[t] = "SetWaking"
      /\ UNCHANGED <<next, last, previous, shareCount, exclusive, spinning,
                     signaled, gate, want, holds, old, cur, acquires>>
  BY DEF SetWaking, chainVars, wakeVars
<1>2. /\ want[t] = "None" /\ holds[t] = "None" /\ ~old[t].multiple /\ cur[t] = old[t].top
      /\ word \in Word
  BY <1>1, Unpack DEF Sound, PcOK, Releaser
<1>3. CASE [word EXCEPT !.waking = TRUE] = old[t] /\ ~word.waking
  <2>1. word' = [word EXCEPT !.waking = TRUE] /\ word' = old[t] /\ pc' = [pc EXCEPT ![t] = "Wake"]
    BY <1>3 DEF SetWaking, Goto
  <2>2. /\ word' \in Word /\ word'.waking
        /\ word'.locked <=> word.locked
        /\ word'.waiting <=> word.waiting
        /\ word'.multiple <=> word.multiple
        /\ word'.top = word.top
    BY <1>2, <2>1 DEF Word
  <2>3. pc'[t] = "Wake" /\ \A u \in Thread : u # t => pc'[u] = pc[u]
    BY <2>1, Unpack
  <2>4. TypeOK'
    <3>1. pc' \in [Thread -> Pc]
      BY <2>1, Unpack DEF Pc
    <3> QED  BY <1>1, <2>2, <3>1, Unpack, Typed
  <2>5. PcOK'
    BY <1>1, <1>2, <2>3 DEF Sound, PcOK, Owns, Releaser
  <2>6. LockOK(s[lo])'
    <3>1. word' = [word EXCEPT !.waking = word'.waking]
      BY <2>1, <2>2, <1>2 DEF Word
    <3> QED  BY <1>1, <1>2, <2>3, <3>1, LockStays DEF Sound, Releaser
  <2>7. word.waiting
    <3>1. old[t].waiting
      BY <1>1 DEF Sound, PcOK
    <3> QED  BY <2>1, <2>2, <3>1
  <2>8. ~word'.multiple /\ cur'[t] = word.top /\ old'[t].top = word.top
    BY <1>1, <1>2, <2>1, <2>2
  <2> QED  BY ZenonT(60), <1>1, <1>2, <1>3, <2>2, <2>3, <2>4, <2>5, <2>6, <2>7, <2>8, NewOwner
<1>4. CASE ~([word EXCEPT !.waking = TRUE] = old[t] /\ ~word.waking)
  <2>1. word' = word /\ pc' = [pc EXCEPT ![t] = "Idle"]
    BY <1>4 DEF SetWaking, Goto
  <2>2. pc'[t] = "Idle" /\ \A u \in Thread : u # t => pc'[u] = pc[u]
    BY <2>1, Unpack
  <2>3. TypeOK'
    <3>1. pc' \in [Thread -> Pc]
      BY <2>1, Unpack DEF Pc
    <3> QED  BY <1>1, <2>1, <3>1, Unpack, Typed
  <2>4. PcOK'
    BY <1>1, <1>2, <2>2 DEF Sound, PcOK, Owns, Releaser
  <2>5. LockOK(s[lo])'
    BY <1>1, <1>2, <2>1, <2>2, LockStays DEF Sound, Releaser
  <2>6. /\ Shape(s, lo, hi)' /\ Ends(s, lo, hi, kn)'
        /\ OwnersOK(s, lo, hi, kn, at, tp)'
        /\ ReadersOK(s, lo, hi, at)' /\ SignalersOK(s, lo, at, tp)'
        /\ LiveOK(s, lo, hi, at, tp, live)'
    BY <1>1, <1>2, <2>1, <2>2, OthersStay
  <2>7. Tended'
    <3>1. CASE word.waking
      BY <2>1, <2>6, <3>1 DEF OwnersOK, Owns, Tended, WillWake
    <3>2. CASE [word EXCEPT !.waking = TRUE] # old[t]
      <4>1. ~WillWake(t)
        BY <1>1, <3>2 DEF WillWake
      <4>2. \A u \in Thread : WillWake(u) => WillWake(u)'
        BY <1>1, <2>1, <2>2, <4>1 DEF WillWake
      <4> QED  BY <2>1, <4>2, TendedStays DEF Sound
    <3> QED  BY <1>4, <3>1, <3>2
  <2> QED  BY <2>3, <2>4, <2>5, <2>6, <2>7, Witnessed DEF Sound
<1> QED  BY <1>3, <1>4

-----------------------------------------------------------------------------
(***************************************************************************)
(* The invariant of the push lock.                                         *)
(***************************************************************************)
LEMMA InitInv == Init => Inv
<1> SUFFICES ASSUME Init PROVE Inv
  OBVIOUS
<1> DEFINE s == [n \in Nat |-> Null]
           z == [t \in Thread |-> 0]
<1>1. s \in Log /\ z \in [Thread -> Nat]
  BY DEF Log
<1>2. /\ \A t \in Thread : pc[t] = "Idle" /\ want[t] = "None" /\ holds[t] = "None"
      /\ word = Free /\ word \in Word /\ acquires \in [Thread -> Nat]
  BY DEF Init, Free, Word
<1>3. TypeOK
  <2>1. \A t \in Thread : acquires[t] <= MaxAcquires[t]
    BY DEF Init
  <2> QED  BY <1>2, <2>1 DEF Init, TypeOK, Modes, Free, Word
<1>4. PcOK
  BY <1>2 DEF PcOK, Owns, Releaser
<1>5. LockOK(s[1])
  <2>1. Sharers = {}
    BY <1>2 DEF Sharers
  <2>2. Cardinality(Sharers) = 0
    BY <2>1, FS_EmptySet
  <2>3. ~word.locked /\ ~word.waiting /\ ~word.multiple /\ word.share = 0
    BY <1>2 DEF Free
  <2> QED  BY <1>2, <2>2, <2>3 DEF LockOK, Held, CountInWord, CountInBlock, Releaser
<1>6. Shape(s, 1, 0) /\ Ends(s, 1, 0, 0)
  BY <1>2 DEF Shape, Ends, Free
<1>7. OwnersOK(s, 1, 0, 0, z, z) /\ ReadersOK(s, 1, 0, z) /\ SignalersOK(s, 1, z, z)
  BY <1>2 DEF OwnersOK, ReadersOK, SignalersOK, Owns, Free
<1>8. LiveOK(s, 1, 0, z, z, {})
  BY <1>2 DEF LiveOK
<1>9. Tended
  BY <1>2 DEF Tended, Free
<1>10. Sound(s, 1, 0, 0, z, z, {})
  BY <1>3, <1>4, <1>5, <1>6, <1>7, <1>8, <1>9 DEF Sound
<1> QED  BY <1>1, <1>10 DEF Inv

LEMMA IdleKeeps ==
  ASSUME NEW s \in Log, NEW lo \in Nat, NEW hi \in Nat, NEW kn \in Nat,
         NEW at \in [Thread -> Nat], NEW tp \in [Thread -> Nat], NEW live \in SUBSET Nat,
         Sound(s, lo, hi, kn, at, tp, live),
         UNCHANGED vars
  PROVE  Inv'
<1>1. /\ UNCHANGED <<word, next, last, previous, shareCount, exclusive, spinning, signaled, gate>>
      /\ UNCHANGED <<pc, want, holds, old, cur, acquires>>
  BY DEF vars, chainVars, wakeVars, threadVars
<1>2. TypeOK' /\ PcOK'
  BY <1>1 DEF Sound, TypeOK, PcOK, Owns
<1>3. LockOK(s[lo])'
  BY <1>1, LockStays, Unpack DEF Sound
<1>4. Shape(s, lo, hi)' /\ Ends(s, lo, hi, kn)'
  BY <1>1, ShapeStays, EndsStay DEF Sound
<1>5. OwnersOK(s, lo, hi, kn, at, tp)'
  BY <1>1, OwnersStay DEF Sound
<1>6. ReadersOK(s, lo, hi, at)' /\ SignalersOK(s, lo, at, tp)'
  BY <1>1, ReadersStay, SignalersStay DEF Sound
<1>7. LiveOK(s, lo, hi, at, tp, live)'
  <2>1. \A u : Listed(u) => Listed(u)'
    BY <1>1 DEF Listed
  <2> QED  BY <1>1, <2>1, LiveStays DEF Sound
<1>8. Tended'
  <2>1. \A u \in Thread : WillWake(u) => WillWake(u)'
    BY <1>1 DEF WillWake
  <2> QED  BY <1>1, <2>1, TendedStays DEF Sound
<1> QED  BY <1>2, <1>3, <1>4, <1>5, <1>6, <1>7, <1>8, Witnessed DEF Sound

LEMMA NextKeeps == Inv /\ [Next]_vars => Inv'
<1> SUFFICES ASSUME Inv, [Next]_vars PROVE Inv'
  OBVIOUS
<1>1. PICK s \in Log, lo \in Nat, hi \in Nat, kn \in Nat,
           at \in [Thread -> Nat], tp \in [Thread -> Nat], live \in SUBSET Nat :
        Sound(s, lo, hi, kn, at, tp, live)
  BY ZenonT(60) DEF Inv
<1>2. ASSUME NEW t \in Thread, NEW m \in Modes, Call(t, m) PROVE Inv'
  BY <1>1, <1>2, CallKeeps
<1>3. ASSUME NEW t \in Thread, Acquiring(t) PROVE Inv'
  BY <1>1, <1>3, TakeKeeps, PushKeeps, InitGateKeeps, StopSpinningKeeps, GateWaitKeeps
     DEF Acquiring
<1>4. ASSUME NEW t \in Thread, Waking(t) PROVE Inv'
  BY <1>1, <1>4, OptimizeKeeps, StopOptimizingKeeps, WakeGivesUpKeeps, WakeHopKeeps,
     WakeExclusiveKeeps, WakeAllKeeps, SignalKeeps DEF Waking
<1>5. ASSUME NEW t \in Thread, Releasing(t) PROVE Inv'
  BY <1>1, <1>5, ReleaseUncontendedKeeps, BeginReleaseKeeps, FindEndKeeps, DecrementKeeps,
     UnlockKeeps, UnlockInlineKeeps, TryToWakeKeeps, SetWakingKeeps DEF Releasing
<1>6. ASSUME NEW t \in Thread, Converting(t) PROVE Inv'
  BY <1>1, <1>6, ConvertToSharedKeeps, ConvertToExclusiveKeeps DEF Converting
<1>7. ASSUME UNCHANGED vars PROVE Inv'
  BY <1>1, <1>7, IdleKeeps
<1> QED  BY <1>2, <1>3, <1>4, <1>5, <1>6, <1>7 DEF Next, Finished

(* What the invariant implies. *)
LEMMA InvExcludes == Inv => MutualExclusion
BY DEF Inv, Sound, LockOK, Held, Alone, MutualExclusion

LEMMA InvTends == Inv => NoForgottenWaiters
<1>1. ASSUME Tended PROVE NoForgottenWaiters
  BY <1>1 DEF Tended, WillWake, NoForgottenWaiters, OnItsWay
<1> QED  BY <1>1 DEF Inv, Sound

LEMMA SoundChains ==
  ASSUME NEW s \in Log, NEW lo \in Nat, NEW hi \in Nat, NEW kn \in Nat,
         NEW at \in [Thread -> Nat], NEW tp \in [Thread -> Nat], NEW live \in SUBSET Nat,
         Sound(s, lo, hi, kn, at, tp, live)
  PROVE  ChainIsSafe
<1>1. /\ \A q \in live : s[q] \in Thread /\ Listed(s[q])
      /\ \A q \in lo..hi : q \in live
      /\ \A t \in Thread : pc[t] = "Signal" => \A q \in at[t]..tp[t] : q \in live
  <2>1. LiveOK(s, lo, hi, at, tp, live)
    BY DEF Sound
  <2>2. \A q \in live : s[q] \in Thread /\ Listed(s[q])
    BY <2>1 DEF LiveOK, Listed
  <2>3. \A q \in lo..hi : q \in live
    BY <2>1 DEF LiveOK
  <2>4. \A t \in Thread : pc[t] = "Signal" => \A q \in at[t]..tp[t] : q \in live
    BY <2>1 DEF LiveOK
  <2> QED  BY <2>2, <2>3, <2>4
<1>2. \A q \in live : s[q] # Null /\ ~signaled[s[q]]
  BY <1>1 DEF Listed
<1>3. NoDanglingBlock
  <2>1. word.waiting => word.top # Null /\ ~signaled[word.top]
    <3>1. word.waiting => lo <= hi /\ word.top = s[hi]
      BY DEF Sound, Shape
    <3>2. lo <= hi => hi \in live
      BY <1>1
    <3> QED  BY <1>2, <3>1, <3>2
  <2>2. ASSUME NEW t \in Thread,
               pc[t] \in {"Optimize", "StopOptimizing", "Wake", "Signal", "FindEnd", "Decrement"}
        PROVE  cur[t] # Null /\ ~signaled[cur[t]]
    <3>1. CASE Owns(t)
      <4>1. at[t] \in lo..hi /\ cur[t] = s[at[t]]
        BY <3>1 DEF Sound, OwnersOK
      <4> QED  BY <1>1, <1>2, <4>1
    <3>2. CASE pc[t] = "Signal"
      <4>1. at[t] \in at[t]..tp[t] /\ cur[t] = s[at[t]]
        BY <3>2 DEF Sound, SignalersOK
      <4> QED  BY <1>1, <1>2, <3>2, <4>1
    <3>3. CASE pc[t] = "FindEnd"
      <4>1. at[t] \in lo..hi /\ cur[t] = s[at[t]]
        BY <3>3 DEF Sound, ReadersOK
      <4> QED  BY <1>1, <1>2, <4>1
    <3>4. CASE pc[t] = "Decrement"
      <4>1. cur[t] = s[lo] /\ word.multiple
        BY <3>4 DEF Sound, ReadersOK, LockOK, CountInBlock
      <4>2. word.waiting
        BY <4>1 DEF Sound, LockOK, CountInWord
      <4>3. lo \in lo..hi
        BY <4>2 DEF Sound, Shape
      <4> QED  BY <1>1, <1>2, <4>1, <4>3
    <3> QED  BY <2>2, <3>1, <3>2, <3>3, <3>4 DEF Owns
  <2> QED  BY <2>1, <2>2 DEF NoDanglingBlock
<1>4. ChainDiscipline
  <2>1. ASSUME NEW t \in Thread, NEW u \in Thread,
               {pc[t], pc[u]} \subseteq {"Optimize", "StopOptimizing", "Wake"}
        PROVE  t = u
    <3>1. Owns(t) /\ Owns(u)
      BY <2>1 DEF Owns
    <3> QED  BY <3>1 DEF Sound, OwnersOK
  <2>2. ASSUME NEW t \in Thread, pc[t] = "Wake"
        PROVE  ~old[t].multiple /\ word.waking
    <3>1. Owns(t)
      BY <2>2 DEF Owns
    <3> QED  BY <2>2, <3>1 DEF Sound, PcOK, OwnersOK
  <2>3. ASSUME NEW t \in Thread, pc[t] = "Decrement"
        PROVE  shareCount[cur[t]] > 0 /\ exclusive[cur[t]]
    <3>1. cur[t] = s[lo] /\ word.multiple
      BY <2>3 DEF Sound, ReadersOK, LockOK, CountInBlock
    <3>2. exclusive[s[lo]] /\ shareCount[s[lo]] = Cardinality(Remaining)
      BY <3>1 DEF Sound, LockOK, CountInBlock
    <3>3. t \in Remaining
      BY <2>3 DEF Sound, PcOK, Remaining, Releaser
    <3>4. Cardinality(Remaining) # 0
      BY <3>3, SharersFinite, FS_EmptySet
    <3> QED  BY <3>1, <3>2, <3>4, SharersFinite
  <2> QED  BY <2>1, <2>2, <2>3 DEF ChainDiscipline
<1> QED  BY <1>3, <1>4 DEF ChainIsSafe, Sound

LEMMA InvChains == Inv => ChainIsSafe
<1> SUFFICES ASSUME Inv PROVE ChainIsSafe
  OBVIOUS
<1>1. PICK s \in Log, lo \in Nat, hi \in Nat, kn \in Nat,
           at \in [Thread -> Nat], tp \in [Thread -> Nat], live \in SUBSET Nat :
        Sound(s, lo, hi, kn, at, tp, live)
  BY ZenonT(60) DEF Inv
<1> QED  BY <1>1, SoundChains

(* An exclusive owner of the push lock is alone: whatever becomes of the   *)
(* share count as it moves between the word and the block at the end of    *)
(* the chain, no acquire succeeds next to it.                              *)
THEOREM Exclusion == Spec => []MutualExclusion
<1> QED  BY InitInv, NextKeeps, InvExcludes, PTL DEF Spec

(* Nobody follows a pointer to the stack of a thread that has been woken,  *)
(* one thread at a time rearranges the chain, and a shared owner that      *)
(* gives up its part of the count finds the count where it looks for it.   *)
THEOREM ChainSafe == Spec => []ChainIsSafe
<1> QED  BY InitInv, NextKeeps, InvChains, PTL DEF Spec

(* When the lock is free and has waiters, some thread is about to take the *)
(* lock or to wake them: no release drops its duty to wake.                *)
THEOREM WaitersTended == Spec => []NoForgottenWaiters
<1> QED  BY InitInv, NextKeeps, InvTends, PTL DEF Spec
=============================================================================
