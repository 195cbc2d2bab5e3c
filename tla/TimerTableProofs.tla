-------------------------- MODULE TimerTableProofs --------------------------
(***************************************************************************)
(* The timer table, for any threads and timers, any wheel and tick, and    *)
(* any number of clock interrupts and calls.                               *)
(***************************************************************************)
EXTENDS TimerTable, TLAPS

(* Where an actor is while it holds the dispatcher lock, while it sets a   *)
(* timer (and then before the timer is Inserted), and while it holds the   *)
(* lock of the hand of its timer.                                          *)
Holding == {"SetRemove", "CancelRemove", "SetCompute", "SetPast", "SetLockHand",
            "Reinsert", "ReinsertInsert", "ReinsertCheck", "Scan"}
Setting == {"SetCompute", "SetPast", "SetLockHand", "SetInsert", "SetCheck",
            "Reinsert", "ReinsertInsert", "ReinsertCheck"}
Outside == {"SetCompute", "SetPast", "Reinsert"}
InHand  == {"SetInsert", "SetCheck", "ReinsertCheck"}

PcOK ==
  /\ pc \in [Actor -> Holding \union Setting \union
              {"Idle", "SetComplete", "Capture", "Lock", "TryLockScan", "TryLockNext"}]
  /\ \A a \in Actor :
       pc[a] \in Setting \union {"SetRemove", "CancelRemove", "SetComplete"} => timer[a] \in Timer

DispatcherHeld == \A a \in Actor : pc[a] \in Holding => dispatcherLock = a

(* What an actor that sets a timer knows of it; nobody else sets it. *)
Knows(a, where, t) ==
  /\ t \in Timer
  /\ where \in InHand => tableLock[HandOf(due[t])] = a
  /\ inserted[t] <=> where \notin Outside
  /\ place[t] = IF where \in {"SetCheck", "ReinsertCheck"} THEN "Table" ELSE "None"
  /\ where = "SetPast" => due[t] <= now
SettersKnow ==
  \A a \in Actor : pc[a] \in Setting =>
    /\ Knows(a, pc[a], timer[a])
    /\ \A b \in Actor : pc[b] \in Setting /\ timer[a] = timer[b] => a = b

(* A timer that is on a list is Inserted; on a dummy list, it is due. *)
ListedAreInserted ==
  \A t \in Timer : place[t] # "None" => inserted[t] /\ (place[t] \in Thread => due[t] <= now)

TimePasses == now' \in Nat /\ now' >= now

ClockOK == ticks # 0 /\ scan.current <= now

Inv ==
  /\ TypeOK /\ PcOK /\ DispatcherHeld /\ SettersKnow /\ ListedAreInserted
  /\ TimeCoversList /\ ClockOK
-----------------------------------------------------------------------------
LEMMA HandOfIsHand == \A n \in Nat : HandOf(n) \in Hand
<1> SUFFICES ASSUME NEW n \in Nat PROVE HandOf(n) \in Hand
  OBVIOUS
<1>1. n \div TickLength \in Nat
  BY TimerTableAssumption
<1>2. \A m \in Nat : m % TableSize \in 0..TableSize - 1
  BY TimerTableAssumption
<1>3. QED BY <1>1, <1>2 DEF HandOf, Hand

(* The places of a timer, and actors, are told apart. *)
LEMMA Names ==
  /\ Expiration \in Actor /\ \A b \in Thread : b \in Actor
  /\ Nobody \notin Actor /\ \A b \in Thread : b # "None" /\ b # "Table" /\ b # Expiration
  /\ "None" # "Table"
BY TimerTableAssumption DEF Actor

(* Only one actor acts, on a timer that nobody else sets. *)
LEMMA OneActs ==
  ASSUME Inv, NEW a \in Actor, NEW t \in Timer,
         \A b \in Actor \ {a} : /\ pc'[b] = pc[b] /\ timer'[b] = timer[b]
                                /\ ~(pc[b] \in Setting /\ timer[b] = t)
                                /\ dispatcherLock = b => dispatcherLock' = b
                                /\ \A h \in Hand : tableLock[h] = b => tableLock'[h] = b,
         \A u \in Timer \ {t} : /\ inserted'[u] <=> inserted[u]
                                /\ place'[u] = place[u] /\ due'[u] = due[u],
         TimePasses,
         pc'[a] \in Holding => dispatcherLock' = a,
         pc'[a] \in Setting => timer'[a] = t /\ Knows(a, pc[a], t)'
  PROVE  DispatcherHeld' /\ SettersKnow'
<1>1. DispatcherHeld'
  BY DEF Inv, DispatcherHeld
<1>2. ASSUME NEW b \in Actor \ {a}, pc'[b] \in Setting
      PROVE  timer'[b] # t /\ Knows(b, pc[b], timer[b])'
  <2>1. /\ pc[b] \in Setting /\ timer'[b] = timer[b] /\ timer[b] # t
        /\ Knows(b, pc[b], timer[b]) /\ timer[b] \in Timer
    BY <1>2 DEF Inv, SettersKnow, Knows
  <2>2. HandOf(due[timer[b]]) \in Hand
    BY <2>1, HandOfIsHand DEF Inv, TypeOK
  <2>3. due[timer[b]] \in Nat /\ now \in Nat /\ now' \in Nat /\ now' >= now
    BY <2>1 DEF Inv, TypeOK, TimePasses
  <2>4. QED BY <1>2, <2>1, <2>2, <2>3 DEF Knows
<1>3. SettersKnow'
  <2>1. \A b, c \in Actor \ {a} :
          pc'[b] \in Setting /\ pc'[c] \in Setting /\ timer'[b] = timer'[c] => b = c
    BY DEF Inv, SettersKnow
  <2>2. QED BY <1>2, <2>1 DEF SettersKnow
<1>4. QED BY <1>1, <1>3

(* Steps that touch no timer. *)
LEMMA NoneActs ==
  ASSUME Inv, NEW a \in Actor,
         \A b \in Actor \ {a} : /\ pc'[b] = pc[b] /\ timer'[b] = timer[b]
                                /\ dispatcherLock = b => dispatcherLock' = b,
         UNCHANGED <<tableLock, inserted, place, due>>, TimePasses,
         pc'[a] \in Holding => dispatcherLock' = a,
         pc'[a] \notin Setting
  PROVE  DispatcherHeld' /\ SettersKnow'
<1>1. DispatcherHeld'
  BY DEF Inv, DispatcherHeld
<1>2. ASSUME NEW b \in Actor \ {a}, pc'[b] \in Setting
      PROVE  Knows(b, pc[b], timer[b])'
  <2>1. pc[b] \in Setting /\ Knows(b, pc[b], timer[b]) /\ timer[b] \in Timer
    BY <1>2 DEF Inv, SettersKnow, Knows
  <2>2. due[timer[b]] \in Nat /\ now \in Nat
    BY <2>1 DEF Inv, TypeOK
  <2>3. QED BY <2>1, <2>2 DEF Knows, TimePasses
<1>3. SettersKnow'
  <2>1. \A b, c \in Actor \ {a} :
          pc'[b] \in Setting /\ pc'[c] \in Setting /\ timer'[b] = timer'[c] => b = c
    BY DEF Inv, SettersKnow
  <2>2. QED BY <1>2, <2>1 DEF SettersKnow
<1>4. QED BY <1>1, <1>3

(* Nobody else sets a timer that an actor sets, that it may take out of    *)
(* the table, or that is on a dummy list while nobody has the dispatcher   *)
(* lock.                                                                   *)
LEMMA NobodyElse ==
  ASSUME Inv, NEW a \in Actor, NEW t \in Timer,
         \/ pc[a] \in Setting /\ timer[a] = t
         \/ /\ dispatcherLock = a
            /\ inserted[t] => tableLock[HandOf(due[t])] = Nobody
         \/ dispatcherLock = Nobody /\ place[t] \in Thread
  PROVE  \A b \in Actor \ {a} : ~(pc[b] \in Setting /\ timer[b] = t)
<1> SUFFICES ASSUME NEW b \in Actor \ {a}, pc[b] \in Setting, timer[b] = t PROVE FALSE
  OBVIOUS
<1>1. /\ Knows(b, pc[b], t)
      /\ \A c \in Actor : pc[c] \in Setting /\ timer[c] = t => c = b
  BY DEF Inv, SettersKnow
<1>2. CASE pc[a] \in Setting /\ timer[a] = t
  BY <1>1, <1>2
<1>3. CASE dispatcherLock # b
  <2>1. pc[b] \in {"SetInsert", "SetCheck"}
    BY <1>3 DEF Inv, DispatcherHeld, Holding, Setting
  <2>2. inserted[t] /\ tableLock[HandOf(due[t])] = b /\ place[t] \in {"None", "Table"}
    BY <1>1, <2>1 DEF Knows, InHand, Outside
  <2>3. QED BY <1>2, <2>2, Names
<1>4. QED BY <1>2, <1>3, Names

(* The due time of a hand and the timers of its list. *)
LEMMA Removed ==
  ASSUME Inv, NEW t \in Timer, NEW list \in Thread \union {"None"},
         RemoveEntryTimer(t, list), UNCHANGED due, TimePasses,
         \A u \in Timer \ {t} : inserted'[u] <=> inserted[u],
         list # "None" => inserted'[t] /\ due[t] <= now'
  PROVE  /\ TimeCoversList' /\ ListedAreInserted'
         /\ time' \in [Hand -> Nat \union {Never}]
         /\ place' \in [Timer -> {"None", "Table"} \union Thread]
         /\ place'[t] = list /\ \A u \in Timer \ {t} : place'[u] = place[u]
<1>1. /\ place' = [place EXCEPT ![t] = list]
      /\ time' = [time EXCEPT ![HandOf(due[t])] = IF InTable(HandOf(due[t])) \subseteq {t}
                                                  THEN Never ELSE @]
      /\ due \in [Timer -> Nat] /\ HandOf(due[t]) \in Hand
      /\ time \in [Hand -> Nat \union {Never}]
      /\ place \in [Timer -> {"None", "Table"} \union Thread]
  BY HandOfIsHand DEF Inv, TypeOK, RemoveEntryTimer
<1>2. place'[t] = list /\ list # "Table" /\ \A u \in Timer \ {t} : place'[u] = place[u]
  BY <1>1, Names
<1>3. time' \in [Hand -> Nat \union {Never}]
  BY <1>1
<1>4. place' \in [Timer -> {"None", "Table"} \union Thread]
  BY <1>1
<1>5. ASSUME NEW u \in Timer, place'[u] = "Table"
      PROVE  /\ inserted'[u]
             /\ time'[HandOf(due'[u])] # Never /\ time'[HandOf(due'[u])] <= due'[u]
  <2>1. u # t /\ place[u] = "Table" /\ inserted'[u] /\ due'[u] = due[u]
    BY <1>2, <1>5 DEF Inv, TimeCoversList
  <2>2. time[HandOf(due[u])] # Never /\ time[HandOf(due[u])] <= due[u]
    BY <2>1 DEF Inv, TimeCoversList
  <2>3. HandOf(due[u]) \in Hand /\ u \in InTable(HandOf(due[u]))
    BY <1>1, <2>1, HandOfIsHand DEF InTable
  <2>4. time'[HandOf(due[u])] = time[HandOf(due[u])]
    <3>1. CASE HandOf(due[u]) = HandOf(due[t])
      <4>1. ~(InTable(HandOf(due[t])) \subseteq {t})
        BY <2>1, <2>3, <3>1
      <4>2. QED BY <1>1, <3>1, <4>1
    <3>2. CASE HandOf(due[u]) # HandOf(due[t])
      BY <1>1, <2>3, <3>2
    <3>3. QED BY <3>1, <3>2
  <2>5. QED BY <2>1, <2>2, <2>4
<1>6. TimeCoversList'
  BY <1>5 DEF TimeCoversList
<1>7. ListedAreInserted'
  <2>1. ASSUME NEW u \in Timer \ {t}, place'[u] # "None"
        PROVE  inserted'[u] /\ (place'[u] \in Thread => due'[u] <= now')
    <3>1. inserted[u] /\ (place[u] \in Thread => due[u] <= now)
      BY <1>2, <2>1 DEF Inv, ListedAreInserted
    <3>2. due[u] \in Nat /\ now \in Nat
      BY DEF Inv, TypeOK
    <3>3. QED BY <1>2, <3>1, <3>2 DEF TimePasses
  <2>2. place'[t] # "None" => inserted'[t] /\ (place'[t] \in Thread => due'[t] <= now')
    BY <1>2
  <2>3. QED BY <2>1, <2>2 DEF ListedAreInserted
<1>8. QED BY <1>2, <1>3, <1>4, <1>6, <1>7

LEMMA InsertedInTable ==
  ASSUME Inv, NEW t \in Timer, InsertTimerTable(t), UNCHANGED <<due, inserted>>,
         TimePasses, inserted[t]
  PROVE  /\ TimeCoversList' /\ ListedAreInserted'
         /\ time' \in [Hand -> Nat \union {Never}]
         /\ place' \in [Timer -> {"None", "Table"} \union Thread]
         /\ signaled' \in [Timer -> BOOLEAN]
         /\ place'[t] = "Table" /\ \A u \in Timer \ {t} : place'[u] = place[u]
<1> DEFINE h == HandOf(due[t])
<1>1. /\ place' = [place EXCEPT ![t] = "Table"]
      /\ time' = [time EXCEPT ![h] = IF IsFirst(t) THEN due[t] ELSE @]
      /\ due \in [Timer -> Nat] /\ h \in Hand
      /\ time \in [Hand -> Nat \union {Never}]
      /\ place \in [Timer -> {"None", "Table"} \union Thread]
  BY HandOfIsHand DEF Inv, TypeOK, InsertTimerTable
<1>2. place'[t] = "Table" /\ \A u \in Timer \ {t} : place'[u] = place[u]
  BY <1>1
<1>3. time' \in [Hand -> Nat \union {Never}]
  BY <1>1
<1>4. place' \in [Timer -> {"None", "Table"} \union Thread]
  BY <1>1
<1>5. signaled' \in [Timer -> BOOLEAN]
  BY DEF Inv, TypeOK, InsertTimerTable
<1>6. \A g \in Hand : g # h => time'[g] = time[g]
  BY <1>1
<1>7. time'[h] = IF IsFirst(t) THEN due[t] ELSE time[h]
  BY <1>1
<1>8. \A u \in InTable(h) : time[h] # Never /\ time[h] <= due[u] /\ time[h] \in Nat /\ due[u] \in Nat
  BY <1>1 DEF Inv, TimeCoversList, InTable
<1>9. due[t] \in Nat /\ due[t] # Never
  BY <1>1, TimerTableAssumption
<1>10. time'[h] # Never /\ time'[h] <= due[t]
  <2>1. CASE IsFirst(t)
    BY <1>7, <1>9, <2>1
  <2>2. CASE ~IsFirst(t)
    <3>1. PICK u \in InTable(h) : ~(due[t] < due[u])
      BY <2>2 DEF IsFirst
    <3>2. time'[h] = time[h]
      BY <1>7, <2>2
    <3>3. QED BY <1>8, <1>9, <3>1, <3>2
  <2>3. QED BY <2>1, <2>2
<1>11. \A u \in InTable(h) : time'[h] # Never /\ time'[h] <= due[u]
  <2>1. CASE IsFirst(t)
    <3>1. \A u \in InTable(h) : due[t] < due[u] /\ due[u] \in Nat
      BY <1>8, <2>1 DEF IsFirst
    <3>2. QED BY <1>7, <1>9, <2>1, <3>1
  <2>2. CASE ~IsFirst(t)
    BY <1>7, <1>8, <2>2
  <2>3. QED BY <2>1, <2>2
<1> HIDE DEF h
<1>12. ASSUME NEW u \in Timer, place'[u] = "Table"
       PROVE  /\ inserted'[u]
              /\ time'[HandOf(due'[u])] # Never /\ time'[HandOf(due'[u])] <= due'[u]
  <2>1. due'[u] = due[u] /\ (inserted'[u] <=> inserted[u])
    OBVIOUS
  <2>2. CASE u = t
    BY <1>10, <2>1, <2>2 DEF h
  <2>3. CASE u # t
    <3>1. place[u] = "Table" /\ inserted[u] /\ time[HandOf(due[u])] # Never /\ time[HandOf(due[u])] <= due[u]
      BY <1>2, <1>12, <2>3 DEF Inv, TimeCoversList
    <3>2. CASE HandOf(due[u]) = h
      <4>1. u \in InTable(h)
        BY <3>1, <3>2 DEF InTable
      <4>2. QED BY <1>11, <2>1, <3>1, <3>2, <4>1
    <3>3. CASE HandOf(due[u]) # h
      <4>1. HandOf(due[u]) \in Hand
        BY <1>1, HandOfIsHand
      <4>2. QED BY <1>6, <2>1, <3>1, <3>3, <4>1
    <3>4. QED BY <3>2, <3>3
  <2>4. QED BY <2>2, <2>3
<1>13. TimeCoversList'
  BY <1>12 DEF TimeCoversList
<1>14. ListedAreInserted'
  <2>1. ASSUME NEW u \in Timer \ {t}, place'[u] # "None"
        PROVE  inserted'[u] /\ (place'[u] \in Thread => due'[u] <= now')
    <3>1. inserted[u] /\ (place[u] \in Thread => due[u] <= now)
      BY <1>2, <2>1 DEF Inv, ListedAreInserted
    <3>2. due[u] \in Nat /\ now \in Nat
      BY DEF Inv, TypeOK
    <3>3. QED BY <1>2, <3>1, <3>2 DEF TimePasses
  <2>2. QED BY <1>2, <2>1, Names DEF ListedAreInserted
<1>15. QED BY <1>2, <1>3, <1>4, <1>5, <1>13, <1>14

LEMMA SameTable ==
  ASSUME Inv, UNCHANGED time, TimePasses,
         \A u \in Timer : place'[u] # "None" => /\ place'[u] = place[u]
                                                /\ inserted'[u] <=> inserted[u]
                                                /\ due'[u] = due[u]
  PROVE  TimeCoversList' /\ ListedAreInserted'
<1>1. TimeCoversList'
  BY Names DEF Inv, TimeCoversList
<1>2. ListedAreInserted'
  <2>1. ASSUME NEW u \in Timer, place'[u] # "None"
        PROVE  inserted'[u] /\ (place'[u] \in Thread => due'[u] <= now')
    <3>1. inserted[u] /\ (place[u] \in Thread => due[u] <= now)
      BY <2>1 DEF Inv, ListedAreInserted
    <3>2. due[u] \in Nat /\ now \in Nat
      BY DEF Inv, TypeOK
    <3>3. QED BY <2>1, <3>1, <3>2 DEF TimePasses
  <2>2. QED BY <2>1 DEF ListedAreInserted
<1>3. QED BY <1>1, <1>2
-----------------------------------------------------------------------------
LEMMA BeginCallKeeps ==
  ASSUME Inv, NEW a \in Thread, NEW t \in Timer,
         NEW where \in {"SetRemove", "CancelRemove"}, BeginCall(a, t, where)
  PROVE  Inv'
<1>1. /\ dispatcherLock = Nobody /\ dispatcherLock' = a /\ a \in Actor
      /\ pc' = [pc EXCEPT ![a] = where] /\ timer' = [timer EXCEPT ![a] = t]
      /\ UNCHANGED <<now, ticks, isr, request, tableLock, time, inserted, place, due, signaled, scan>>
  BY Names DEF BeginCall, TakeDispatcherLock, Goto, clock, timers
<1>2. /\ pc'[a] = where /\ timer'[a] = t
      /\ \A b \in Actor \ {a} : pc'[b] = pc[b] /\ timer'[b] = timer[b]
  BY <1>1 DEF Inv, TypeOK, PcOK
<1>3. TypeOK'
  BY <1>1 DEF Inv, TypeOK, BeginCall
<1>4. PcOK'
  BY <1>1, <1>2 DEF Inv, PcOK, Holding
<1>5. DispatcherHeld' /\ SettersKnow'
  BY <1>1, <1>2, Names, NoneActs DEF Inv, TypeOK, TimePasses, Holding, Setting
<1>6. TimeCoversList' /\ ListedAreInserted'
  BY <1>1, SameTable DEF Inv, TypeOK, TimePasses
<1>7. ClockOK'
  BY <1>1 DEF Inv, ClockOK
<1>8. QED BY <1>3, <1>4, <1>5, <1>6, <1>7 DEF Inv

LEMMA ClearTimerKeeps ==
  ASSUME Inv, NEW a \in Thread, NEW t \in Timer, ClearTimer(a, t)
  PROVE  Inv'
<1>1. UNCHANGED <<now, ticks, isr, request, dispatcherLock, tableLock, time, inserted, place, due,
                  pc, timer, scan>>
  BY DEF ClearTimer, clock, locks
<1>2. TypeOK'
  BY <1>1 DEF Inv, TypeOK, ClearTimer
<1>3. PcOK' /\ DispatcherHeld' /\ SettersKnow'
  BY <1>1 DEF Inv, PcOK, DispatcherHeld, SettersKnow, Knows
<1>4. TimeCoversList' /\ ListedAreInserted' /\ ClockOK'
  BY <1>1 DEF Inv, TimeCoversList, ListedAreInserted, ClockOK
<1>5. QED BY <1>2, <1>3, <1>4 DEF Inv

(* The hand's lock is free, or the timer was not in the table. *)
LEMMA RemoveTreeTimerKeeps ==
  ASSUME Inv, NEW a \in Thread, RemoveTreeTimer(a)
  PROVE  Inv'
<1>0. PICK t \in Timer : t = timer[a]
  BY Names DEF Inv, PcOK, RemoveTreeTimer
<1>1. /\ a \in Actor /\ dispatcherLock = a /\ pc[a] \in {"SetRemove", "CancelRemove"}
      /\ UNCHANGED <<now, ticks, isr, request, tableLock, due, signaled, timer, scan, calls>>
  BY Names DEF Inv, DispatcherHeld, RemoveTreeTimer, Holding, clock
<1>2. \/ pc' = [pc EXCEPT ![a] = "SetCompute"] /\ UNCHANGED dispatcherLock
      \/ pc' = [pc EXCEPT ![a] = "Idle"] /\ dispatcherLock' = Nobody
  BY DEF RemoveTreeTimer, Goto, ReleaseDispatcherLock
<1>3. /\ \/ pc'[a] = "SetCompute" /\ dispatcherLock' = a
         \/ pc'[a] = "Idle" /\ dispatcherLock' = Nobody
      /\ \A b \in Actor \ {a} : pc'[b] = pc[b] /\ timer'[b] = timer[b]
  BY <1>1, <1>2 DEF Inv, PcOK
<1>4. /\ inserted[t] => tableLock[HandOf(due[t])] = Nobody
      /\ IF inserted[t]
         THEN inserted' = [inserted EXCEPT ![t] = FALSE] /\ RemoveEntryTimer(t, "None")
         ELSE UNCHANGED <<inserted, place, time>>
  BY <1>0 DEF RemoveTreeTimer
<1>5. /\ ~inserted'[t] /\ place'[t] = "None"
      /\ \A u \in Timer \ {t} : (inserted'[u] <=> inserted[u]) /\ place'[u] = place[u]
      /\ TimeCoversList' /\ ListedAreInserted'
      /\ inserted' \in [Timer -> BOOLEAN]
      /\ time' \in [Hand -> Nat \union {Never}]
      /\ place' \in [Timer -> {"None", "Table"} \union Thread]
  <2>1. CASE inserted[t]
    <3>1. /\ ~inserted'[t] /\ inserted' \in [Timer -> BOOLEAN]
          /\ \A u \in Timer \ {t} : inserted'[u] <=> inserted[u]
      BY <1>4, <2>1 DEF Inv, TypeOK
    <3>2. QED BY <1>1, <1>4, <2>1, <3>1, Removed DEF Inv, TypeOK, TimePasses
  <2>2. CASE ~inserted[t]
    <3>1. place[t] = "None"
      BY <2>2 DEF Inv, ListedAreInserted
    <3>2. TimeCoversList' /\ ListedAreInserted'
      BY <1>1, <1>4, <2>2, SameTable DEF Inv, TypeOK, TimePasses
    <3>3. QED BY <1>4, <2>2, <3>1, <3>2 DEF Inv, TypeOK
  <2>3. QED BY <2>1, <2>2
<1>6. TypeOK'
  BY <1>1, <1>3, <1>5 DEF Inv, TypeOK
<1>7. PcOK'
  BY <1>0, <1>1, <1>2, <1>3 DEF Inv, PcOK, Setting
<1>8. DispatcherHeld' /\ SettersKnow'
  <2>1. \A b \in Actor \ {a} : ~(pc[b] \in Setting /\ timer[b] = t)
    BY <1>1, <1>4, NobodyElse
  <2>2. \A b \in Actor \ {a} : dispatcherLock = b => dispatcherLock' = b
    BY <1>1
  <2>3. pc'[a] \in Holding => dispatcherLock' = a
    BY <1>3 DEF Holding
  <2>4. pc'[a] \in Setting => timer'[a] = t /\ Knows(a, pc[a], t)'
    BY <1>0, <1>1, <1>3, <1>5 DEF Setting, Knows, InHand, Outside
  <2>5. QED BY <1>1, <1>3, <1>5, <2>1, <2>2, <2>3, <2>4, OneActs DEF Inv, TypeOK, TimePasses
<1>9. ClockOK'
  BY <1>1 DEF Inv, ClockOK
<1>10. QED BY <1>5, <1>6, <1>7, <1>8, <1>9 DEF Inv

LEMMA ComputeDueTimeKeeps ==
  ASSUME Inv, NEW a \in Thread, NEW d \in Nat, ComputeDueTime(a, d)
  PROVE  Inv'
<1>0. PICK t \in Timer : t = timer[a]
  BY Names DEF Inv, PcOK, ComputeDueTime, Setting
<1>1. /\ a \in Actor /\ pc[a] = "SetCompute" /\ dispatcherLock = a
      /\ ~inserted[t] /\ place[t] = "None"
      /\ UNCHANGED <<now, ticks, isr, request, dispatcherLock, tableLock, time, place, timer, scan, calls>>
      /\ due' = [due EXCEPT ![t] = d]
  BY <1>0, Names DEF Inv, DispatcherHeld, SettersKnow, Knows, ComputeDueTime, Setting, Holding,
                     Outside, clock, locks
<1>2. \/ /\ pc' = [pc EXCEPT ![a] = "SetPast"] /\ d = 0 /\ UNCHANGED <<inserted, signaled>>
      \/ /\ pc' = [pc EXCEPT ![a] = "SetLockHand"]
         /\ inserted' = [inserted EXCEPT ![t] = TRUE]
         /\ signaled' = [signaled EXCEPT ![t] = FALSE]
  BY <1>0 DEF ComputeDueTime, Goto
<1>3. /\ \/ pc'[a] = "SetPast" /\ d = 0 /\ ~inserted'[t]
         \/ pc'[a] = "SetLockHand" /\ inserted'[t]
      /\ \A b \in Actor \ {a} : pc'[b] = pc[b] /\ timer'[b] = timer[b]
      /\ due'[t] = d
      /\ \A u \in Timer \ {t} : (inserted'[u] <=> inserted[u]) /\ due'[u] = due[u]
  BY <1>1, <1>2 DEF Inv, PcOK, TypeOK
<1>4. TypeOK'
  BY <1>1, <1>2 DEF Inv, TypeOK
<1>5. PcOK'
  BY <1>0, <1>1, <1>2 DEF Inv, PcOK, Setting
<1>6. DispatcherHeld' /\ SettersKnow'
  <2>1. \A b \in Actor \ {a} : ~(pc[b] \in Setting /\ timer[b] = t)
    BY <1>0, <1>1, NobodyElse DEF Setting
  <2>2. timer'[a] = t /\ Knows(a, pc[a], t)'
    BY <1>0, <1>1, <1>3 DEF Inv, TypeOK, Knows, InHand, Outside
  <2>3. QED BY <1>1, <1>3, <2>1, <2>2, OneActs DEF Inv, TypeOK, TimePasses
<1>7. TimeCoversList' /\ ListedAreInserted'
  BY <1>1, <1>3, SameTable DEF Inv, TypeOK, TimePasses
<1>8. ClockOK'
  BY <1>1 DEF Inv, ClockOK
<1>9. QED BY <1>4, <1>5, <1>6, <1>7, <1>8 DEF Inv

LEMMA LockHandKeeps ==
  ASSUME Inv, NEW a \in Thread, LockHand(a)
  PROVE  Inv'
<1>0. PICK t \in Timer : t = timer[a]
  BY Names DEF Inv, PcOK, LockHand, Setting
<1>1. /\ a \in Actor /\ pc[a] = "SetLockHand" /\ dispatcherLock = a
      /\ inserted[t] /\ place[t] = "None" /\ tableLock[HandOf(due[t])] = Nobody
      /\ dispatcherLock' = Nobody /\ tableLock' = [tableLock EXCEPT ![HandOf(due[t])] = a]
      /\ pc' = [pc EXCEPT ![a] = "SetInsert"]
      /\ UNCHANGED <<now, ticks, isr, request, time, inserted, place, due, signaled, timer, scan, calls>>
  BY <1>0, Names DEF Inv, DispatcherHeld, SettersKnow, Knows, LockHand, Setting, Holding,
                     Outside, clock, timers, Goto, ReleaseDispatcherLock
<1>2. /\ pc'[a] = "SetInsert"
      /\ \A b \in Actor \ {a} : pc'[b] = pc[b] /\ timer'[b] = timer[b]
  BY <1>1 DEF Inv, PcOK
<1>3. /\ tableLock'[HandOf(due[t])] = a
      /\ \A h \in Hand : tableLock[h] # Nobody => tableLock'[h] = tableLock[h]
  BY <1>1, HandOfIsHand DEF Inv, TypeOK
<1>4. TypeOK'
  BY <1>1 DEF Inv, TypeOK
<1>5. PcOK'
  BY <1>1, <1>2, <1>0 DEF Inv, PcOK, Setting
<1>6. DispatcherHeld' /\ SettersKnow'
  <2>1. \A b \in Actor \ {a} : ~(pc[b] \in Setting /\ timer[b] = t)
    BY <1>0, <1>1, NobodyElse DEF Setting
  <2>2. timer'[a] = t /\ Knows(a, pc[a], t)'
    BY <1>0, <1>1, <1>2, <1>3 DEF Knows, InHand, Outside
  <2>3. pc'[a] \notin Holding
    BY <1>2 DEF Holding
  <2>4. QED BY <1>1, <1>2, <1>3, <2>1, <2>2, <2>3, Names, OneActs DEF Inv, TypeOK, TimePasses
<1>7. TimeCoversList' /\ ListedAreInserted'
  BY <1>1, SameTable DEF Inv, TypeOK, TimePasses
<1>8. ClockOK'
  BY <1>1 DEF Inv, ClockOK
<1>9. QED BY <1>4, <1>5, <1>6, <1>7, <1>8 DEF Inv

LEMMA InsertKeeps ==
  ASSUME Inv, NEW a \in Thread, Insert(a)
  PROVE  Inv'
<1>0. PICK t \in Timer : t = timer[a]
  BY Names DEF Inv, PcOK, Insert, Setting
<1>1. /\ a \in Actor /\ pc[a] = "SetInsert"
      /\ inserted[t] /\ place[t] = "None" /\ tableLock[HandOf(due[t])] = a
      /\ InsertTimerTable(t)
      /\ UNCHANGED <<now, ticks, isr, request, dispatcherLock, inserted, due, timer, scan, calls>>
  BY <1>0, Names DEF Inv, SettersKnow, Knows, Insert, Setting, Outside, InHand, clock
<1>2. \/ pc' = [pc EXCEPT ![a] = "SetCheck"] /\ UNCHANGED tableLock
      \/ /\ pc' = [pc EXCEPT ![a] = "Idle"]
         /\ tableLock' = [tableLock EXCEPT ![HandOf(due[t])] = Nobody]
  BY <1>0 DEF Insert, Goto
<1>3. /\ \/ pc'[a] = "SetCheck" /\ UNCHANGED tableLock
         \/ pc'[a] = "Idle"
      /\ \A b \in Actor \ {a} : pc'[b] = pc[b] /\ timer'[b] = timer[b]
  BY <1>1, <1>2 DEF Inv, PcOK
<1>4. /\ tableLock' \in [Hand -> Actor \union {Nobody}]
      /\ \A h \in Hand : tableLock[h] # a => tableLock'[h] = tableLock[h]
  BY <1>1, <1>2, HandOfIsHand DEF Inv, TypeOK
<1>5. /\ TimeCoversList' /\ ListedAreInserted'
      /\ time' \in [Hand -> Nat \union {Never}]
      /\ place' \in [Timer -> {"None", "Table"} \union Thread]
      /\ signaled' \in [Timer -> BOOLEAN]
      /\ place'[t] = "Table" /\ \A u \in Timer \ {t} : place'[u] = place[u]
  BY <1>1, InsertedInTable DEF Inv, TypeOK, TimePasses
<1>6. TypeOK'
  BY <1>1, <1>4, <1>5 DEF Inv, TypeOK
<1>7. PcOK'
  BY <1>0, <1>1, <1>2 DEF Inv, PcOK, Setting
<1>8. DispatcherHeld' /\ SettersKnow'
  <2>1. \A b \in Actor \ {a} : ~(pc[b] \in Setting /\ timer[b] = t)
    BY <1>0, <1>1, NobodyElse DEF Setting
  <2>2. pc'[a] \in Setting => timer'[a] = t /\ Knows(a, pc[a], t)'
    BY <1>0, <1>1, <1>3, <1>5 DEF Setting, Knows, InHand, Outside
  <2>3. pc'[a] \notin Holding
    BY <1>3 DEF Holding
  <2>4. QED BY <1>1, <1>3, <1>4, <1>5, <2>1, <2>2, <2>3, OneActs DEF Inv, TypeOK, TimePasses
<1>9. ClockOK'
  BY <1>1 DEF Inv, ClockOK
<1>10. QED BY <1>5, <1>6, <1>7, <1>8, <1>9 DEF Inv

LEMMA CheckKeeps ==
  ASSUME Inv, NEW a \in Thread, Check(a)
  PROVE  Inv'
<1>0. PICK t \in Timer : t = timer[a]
  BY Names DEF Inv, PcOK, Check, Setting
<1>1. /\ a \in Actor /\ pc[a] = "SetCheck"
      /\ inserted[t] /\ place[t] = "Table" /\ tableLock[HandOf(due[t])] = a
      /\ tableLock' = [tableLock EXCEPT ![HandOf(due[t])] = Nobody]
      /\ UNCHANGED <<now, ticks, isr, request, dispatcherLock, inserted, due, signaled, timer, scan, calls>>
  BY <1>0, Names DEF Inv, SettersKnow, Knows, Check, Setting, Outside, InHand, clock
<1>2. \/ due[t] <= now /\ RemoveEntryTimer(t, a) /\ pc' = [pc EXCEPT ![a] = "SetComplete"]
      \/ pc' = [pc EXCEPT ![a] = "Idle"] /\ UNCHANGED <<place, time>>
  BY <1>0 DEF Check, Goto
<1>3. /\ pc'[a] \in {"SetComplete", "Idle"}
      /\ \A b \in Actor \ {a} : pc'[b] = pc[b] /\ timer'[b] = timer[b]
  BY <1>1, <1>2 DEF Inv, PcOK
<1>4. /\ tableLock' \in [Hand -> Actor \union {Nobody}]
      /\ \A h \in Hand : tableLock[h] # a => tableLock'[h] = tableLock[h]
  BY <1>1, HandOfIsHand DEF Inv, TypeOK
<1>5. /\ TimeCoversList' /\ ListedAreInserted'
      /\ time' \in [Hand -> Nat \union {Never}]
      /\ place' \in [Timer -> {"None", "Table"} \union Thread]
      /\ \A u \in Timer \ {t} : place'[u] = place[u]
  <2>1. CASE due[t] <= now /\ RemoveEntryTimer(t, a)
    BY <1>1, <2>1, Removed DEF Inv, TypeOK, TimePasses
  <2>2. CASE UNCHANGED <<place, time>>
    BY <1>1, <2>2, SameTable DEF Inv, TypeOK, TimePasses
  <2>3. QED BY <1>2, <2>1, <2>2
<1>6. TypeOK'
  BY <1>1, <1>4, <1>5 DEF Inv, TypeOK
<1>7. PcOK'
  BY <1>0, <1>1, <1>2 DEF Inv, PcOK, Setting
<1>8. DispatcherHeld' /\ SettersKnow'
  <2>1. \A b \in Actor \ {a} : ~(pc[b] \in Setting /\ timer[b] = t)
    BY <1>0, <1>1, NobodyElse DEF Setting
  <2>2. pc'[a] \notin Holding /\ pc'[a] \notin Setting
    BY <1>3 DEF Holding, Setting
  <2>3. QED BY <1>1, <1>3, <1>4, <1>5, <2>1, <2>2, OneActs DEF Inv, TypeOK, TimePasses
<1>9. ClockOK'
  BY <1>1 DEF Inv, ClockOK
<1>10. QED BY <1>5, <1>6, <1>7, <1>8, <1>9 DEF Inv

(* KiSignalTimer, of a timer that nobody else sets. *)
LEMMA SignalKeeps ==
  ASSUME Inv, NEW a \in Thread, timer[a] \in Timer, Signal(a),
         dispatcherLock \in {a, Nobody},
         \A b \in Actor \ {a} : ~(pc[b] \in Setting /\ timer[b] = timer[a]),
         UNCHANGED <<clock, request, tableLock, time, due, timer, scan, calls>>
  PROVE  Inv'
<1>0. PICK t \in Timer : t = timer[a]
  OBVIOUS
<1>1. /\ a \in Actor /\ timer'[a] = t
      /\ inserted' = [inserted EXCEPT ![t] = FALSE]
      /\ signaled' = [signaled EXCEPT ![t] = TRUE]
      /\ place' = [place EXCEPT ![t] = "None"]
      /\ UNCHANGED <<now, ticks, isr>>
  BY <1>0, Names DEF Signal, clock
<1>2. \/ pc' = [pc EXCEPT ![a] = "Reinsert"] /\ dispatcherLock' = a
      \/ pc' = [pc EXCEPT ![a] = "Idle"] /\ dispatcherLock' = Nobody
  BY <1>0 DEF Signal, Goto, ReleaseDispatcherLock
<1>3. /\ \/ pc'[a] = "Reinsert" /\ dispatcherLock' = a
         \/ pc'[a] = "Idle"
      /\ \A b \in Actor \ {a} : pc'[b] = pc[b]
      /\ ~inserted'[t] /\ place'[t] = "None"
      /\ \A u \in Timer \ {t} : (inserted'[u] <=> inserted[u]) /\ place'[u] = place[u]
  BY <1>1, <1>2 DEF Inv, PcOK, TypeOK
<1>4. TypeOK'
  BY <1>1, <1>2 DEF Inv, TypeOK
<1>5. PcOK'
  BY <1>0, <1>1, <1>2 DEF Inv, PcOK, Setting
<1>6. DispatcherHeld' /\ SettersKnow'
  <2>1. pc'[a] \in Setting => Knows(a, pc[a], t)'
    BY <1>3 DEF Setting, Knows, InHand, Outside
  <2>2. pc'[a] \in Holding => dispatcherLock' = a
    BY <1>3 DEF Holding
  <2>3. QED BY <1>0, <1>1, <1>3, <2>1, <2>2, Names, OneActs DEF Inv, TypeOK, TimePasses
<1>7. TimeCoversList' /\ ListedAreInserted'
  BY <1>1, <1>3, SameTable DEF Inv, TypeOK, TimePasses
<1>8. ClockOK'
  BY <1>1 DEF Inv, ClockOK
<1>9. QED BY <1>4, <1>5, <1>6, <1>7, <1>8 DEF Inv

LEMMA SignalPastKeeps ==
  ASSUME Inv, NEW a \in Thread, SignalPast(a)
  PROVE  Inv'
<1>1. a \in Actor /\ pc[a] = "SetPast" /\ dispatcherLock = a /\ timer[a] \in Timer
  BY Names DEF Inv, PcOK, DispatcherHeld, SignalPast, Holding, Setting
<1>2. \A b \in Actor \ {a} : ~(pc[b] \in Setting /\ timer[b] = timer[a])
  BY <1>1, NobodyElse DEF Setting
<1>3. QED BY <1>1, <1>2, SignalKeeps DEF SignalPast

(* The timer may have left the dummy list; then it is not touched. *)
LEMMA CompleteKeeps ==
  ASSUME Inv, NEW a \in Thread, Complete(a)
  PROVE  Inv'
<1>1. a \in Actor /\ pc[a] = "SetComplete" /\ dispatcherLock = Nobody /\ timer[a] \in Timer
  BY Names DEF Inv, PcOK, Complete
<1>2. CASE StillOnDummy(a)
  <2>1. \A b \in Actor \ {a} : ~(pc[b] \in Setting /\ timer[b] = timer[a])
    BY <1>1, <1>2, NobodyElse DEF StillOnDummy
  <2>2. QED BY <1>1, <1>2, <2>1, SignalKeeps DEF Complete
<1>3. CASE ~StillOnDummy(a)
  <2>1. /\ pc' = [pc EXCEPT ![a] = "Idle"]
        /\ UNCHANGED <<now, ticks, isr, request, dispatcherLock, tableLock, time, inserted, place,
                       due, signaled, timer, scan, calls>>
    BY <1>3 DEF Complete, Goto, clock
  <2>2. pc'[a] = "Idle" /\ \A b \in Actor \ {a} : pc'[b] = pc[b]
    BY <1>1, <2>1 DEF Inv, PcOK
  <2>3. TypeOK'
    BY <2>1 DEF Inv, TypeOK
  <2>4. PcOK'
    BY <2>1, <2>2 DEF Inv, PcOK, Setting
  <2>5. DispatcherHeld' /\ SettersKnow'
    BY <1>1, <2>1, <2>2, NoneActs DEF Inv, TypeOK, TimePasses, Holding, Setting
  <2>6. TimeCoversList' /\ ListedAreInserted' /\ ClockOK'
    BY <2>1, SameTable DEF Inv, TypeOK, TimePasses, ClockOK
  <2>7. QED BY <2>3, <2>4, <2>5, <2>6 DEF Inv
<1>4. QED BY <1>2, <1>3
-----------------------------------------------------------------------------
LEMMA ReinsertKeeps ==
  ASSUME Inv, NEW a \in Actor, Reinsert(a)
  PROVE  Inv'
<1>0. PICK t \in Timer : t = timer[a]
  BY DEF Inv, PcOK, Reinsert, Setting
<1>1. /\ pc[a] = "Reinsert" /\ dispatcherLock = a /\ ~inserted[t] /\ place[t] = "None"
      /\ due' = [due EXCEPT ![t] = now + Period[t]]
      /\ inserted' = [inserted EXCEPT ![t] = TRUE]
      /\ pc' = [pc EXCEPT ![a] = "ReinsertInsert"]
      /\ UNCHANGED <<now, ticks, isr, request, dispatcherLock, tableLock, time, place, signaled,
                     timer, scan, calls>>
  BY <1>0 DEF Inv, DispatcherHeld, SettersKnow, Knows, Reinsert, Setting, Holding, Outside,
              clock, locks, Goto
<1>2. now + Period[t] \in Nat
  BY TimerTableAssumption DEF Inv, TypeOK
<1>3. /\ pc'[a] = "ReinsertInsert" /\ \A b \in Actor \ {a} : pc'[b] = pc[b]
      /\ inserted'[t]
      /\ \A u \in Timer \ {t} : (inserted'[u] <=> inserted[u]) /\ due'[u] = due[u]
  BY <1>1 DEF Inv, PcOK, TypeOK
<1>4. TypeOK'
  BY <1>1, <1>2 DEF Inv, TypeOK
<1>5. PcOK'
  BY <1>0, <1>1 DEF Inv, PcOK, Setting
<1>6. DispatcherHeld' /\ SettersKnow'
  <2>1. \A b \in Actor \ {a} : ~(pc[b] \in Setting /\ timer[b] = t)
    BY <1>0, <1>1, NobodyElse DEF Setting
  <2>2. timer'[a] = t /\ Knows(a, pc[a], t)'
    BY <1>0, <1>1, <1>3 DEF Knows, InHand, Outside
  <2>3. QED BY <1>1, <1>3, <2>1, <2>2, OneActs DEF Inv, TypeOK, TimePasses
<1>7. TimeCoversList' /\ ListedAreInserted'
  BY <1>1, <1>3, SameTable DEF Inv, TypeOK, TimePasses
<1>8. ClockOK'
  BY <1>1 DEF Inv, ClockOK
<1>9. QED BY <1>4, <1>5, <1>6, <1>7, <1>8 DEF Inv

(* An actor that is done with a timer keeps the dispatcher lock or gives   *)
(* it up.                                                                  *)
LEMMA ReinsertedGives ==
  ASSUME NEW a \in Actor, dispatcherLock = a, Reinserted(a)
  PROVE  \E where \in {"Scan", "TryLockScan", "Idle"} :
           /\ pc' = [pc EXCEPT ![a] = where]
           /\ dispatcherLock' \in {a, Nobody}
           /\ where = "Scan" => dispatcherLock' = a
BY DEF Reinserted, Processed, Goto, ReleaseDispatcherLock

LEMMA ReinsertInsertKeeps ==
  ASSUME Inv, NEW a \in Actor, ReinsertInsert(a)
  PROVE  Inv'
<1>0. PICK t \in Timer : t = timer[a]
  BY DEF Inv, PcOK, ReinsertInsert, Setting
<1>1. /\ pc[a] = "ReinsertInsert" /\ dispatcherLock = a /\ inserted[t] /\ place[t] = "None"
      /\ tableLock[HandOf(due[t])] = Nobody
      /\ InsertTimerTable(t)
      /\ UNCHANGED <<now, ticks, isr, request, inserted, due, timer, scan, calls>>
  BY <1>0 DEF Inv, DispatcherHeld, SettersKnow, Knows, ReinsertInsert, Setting, Holding, Outside,
              clock
<1>2. \/ /\ pc' = [pc EXCEPT ![a] = "ReinsertCheck"] /\ UNCHANGED dispatcherLock
         /\ tableLock' = [tableLock EXCEPT ![HandOf(due[t])] = a]
      \/ /\ UNCHANGED tableLock
         /\ \E where \in {"Scan", "TryLockScan", "Idle"} :
              /\ pc' = [pc EXCEPT ![a] = where]
              /\ dispatcherLock' \in {a, Nobody}
              /\ where = "Scan" => dispatcherLock' = a
  BY <1>0, <1>1, ReinsertedGives DEF ReinsertInsert, Goto
<1>3. /\ \/ pc'[a] = "ReinsertCheck" /\ dispatcherLock' = a
         \/ pc'[a] = "Scan" /\ dispatcherLock' = a
         \/ pc'[a] \in {"TryLockScan", "Idle"}
      /\ dispatcherLock' \in {a, Nobody}
      /\ \A b \in Actor \ {a} : pc'[b] = pc[b]
  BY <1>1, <1>2 DEF Inv, PcOK
<1>4. /\ tableLock' \in [Hand -> Actor \union {Nobody}]
      /\ \A h \in Hand : tableLock[h] # Nobody => tableLock'[h] = tableLock[h]
      /\ pc'[a] = "ReinsertCheck" => tableLock'[HandOf(due[t])] = a
  BY <1>1, <1>2, HandOfIsHand DEF Inv, TypeOK, PcOK
<1>5. /\ TimeCoversList' /\ ListedAreInserted'
      /\ time' \in [Hand -> Nat \union {Never}]
      /\ place' \in [Timer -> {"None", "Table"} \union Thread]
      /\ signaled' \in [Timer -> BOOLEAN]
      /\ place'[t] = "Table" /\ \A u \in Timer \ {t} : place'[u] = place[u]
  BY <1>1, InsertedInTable DEF Inv, TypeOK, TimePasses
<1>6. TypeOK'
  BY <1>1, <1>3, <1>4, <1>5 DEF Inv, TypeOK
<1>7. PcOK'
  BY <1>0, <1>1, <1>2 DEF Inv, PcOK, Holding, Setting
<1>8. DispatcherHeld' /\ SettersKnow'
  <2>1. \A b \in Actor \ {a} : ~(pc[b] \in Setting /\ timer[b] = t)
    BY <1>0, <1>1, NobodyElse DEF Setting
  <2>2. pc'[a] \in Setting => timer'[a] = t /\ Knows(a, pc[a], t)'
    BY <1>0, <1>1, <1>3, <1>4, <1>5 DEF Setting, Knows, InHand, Outside
  <2>3. pc'[a] \in Holding => dispatcherLock' = a
    BY <1>3 DEF Holding
  <2>4. QED BY SMTT(30), <1>1, <1>3, <1>4, <1>5, <2>1, <2>2, <2>3, Names, OneActs
              DEF Inv, TypeOK, TimePasses
<1>9. ClockOK'
  BY <1>1 DEF Inv, ClockOK
<1>10. QED BY <1>5, <1>6, <1>7, <1>8, <1>9 DEF Inv

LEMMA ReinsertCheckKeeps ==
  ASSUME Inv, NEW a \in Actor, ReinsertCheck(a)
  PROVE  Inv'
<1>0. PICK t \in Timer : t = timer[a]
  BY DEF Inv, PcOK, ReinsertCheck, Setting
<1>1. /\ pc[a] = "ReinsertCheck" /\ dispatcherLock = a /\ inserted[t] /\ place[t] = "Table"
      /\ tableLock[HandOf(due[t])] = a
      /\ tableLock' = [tableLock EXCEPT ![HandOf(due[t])] = Nobody]
      /\ UNCHANGED <<now, ticks, isr, request, due, signaled, timer, scan, calls>>
  BY <1>0 DEF Inv, DispatcherHeld, SettersKnow, Knows, ReinsertCheck, Setting, Holding, Outside,
              InHand, clock
<1>2. \/ /\ RemoveEntryTimer(t, "None") /\ inserted' = [inserted EXCEPT ![t] = FALSE]
         /\ pc' = [pc EXCEPT ![a] = "Reinsert"] /\ UNCHANGED dispatcherLock
      \/ /\ UNCHANGED <<place, time, inserted>>
         /\ \E where \in {"Scan", "TryLockScan", "Idle"} :
              /\ pc' = [pc EXCEPT ![a] = where]
              /\ dispatcherLock' \in {a, Nobody}
              /\ where = "Scan" => dispatcherLock' = a
  BY <1>0, <1>1, ReinsertedGives DEF ReinsertCheck, Goto
<1>3. /\ \/ pc'[a] = "Reinsert" /\ dispatcherLock' = a
         \/ pc'[a] = "Scan" /\ dispatcherLock' = a
         \/ pc'[a] \in {"TryLockScan", "Idle"}
      /\ dispatcherLock' \in {a, Nobody}
      /\ \A b \in Actor \ {a} : pc'[b] = pc[b]
  BY <1>1, <1>2 DEF Inv, PcOK
<1>4. /\ tableLock' \in [Hand -> Actor \union {Nobody}]
      /\ \A h \in Hand : tableLock[h] # a => tableLock'[h] = tableLock[h]
  BY <1>1, HandOfIsHand DEF Inv, TypeOK
<1>5. /\ TimeCoversList' /\ ListedAreInserted'
      /\ time' \in [Hand -> Nat \union {Never}]
      /\ place' \in [Timer -> {"None", "Table"} \union Thread]
      /\ inserted' \in [Timer -> BOOLEAN]
      /\ \A u \in Timer \ {t} : place'[u] = place[u] /\ (inserted'[u] <=> inserted[u])
      /\ pc'[a] = "Reinsert" => ~inserted'[t] /\ place'[t] = "None"
  <2>1. CASE RemoveEntryTimer(t, "None") /\ inserted' = [inserted EXCEPT ![t] = FALSE]
    <3>1. /\ inserted' \in [Timer -> BOOLEAN] /\ ~inserted'[t]
          /\ \A u \in Timer \ {t} : inserted'[u] <=> inserted[u]
      BY <2>1 DEF Inv, TypeOK
    <3>2. QED BY <1>1, <2>1, <3>1, Removed DEF Inv, TypeOK, TimePasses
  <2>2. CASE UNCHANGED <<place, time, inserted>> /\ pc'[a] # "Reinsert"
    BY <1>1, <2>2, SameTable DEF Inv, TypeOK, TimePasses
  <2>3. QED BY <1>1, <1>2, <2>1, <2>2 DEF Inv, PcOK
<1>6. TypeOK'
  BY <1>1, <1>3, <1>4, <1>5 DEF Inv, TypeOK
<1>7. PcOK'
  BY <1>0, <1>1, <1>2 DEF Inv, PcOK, Holding, Setting
<1>8. DispatcherHeld' /\ SettersKnow'
  <2>1. \A b \in Actor \ {a} : ~(pc[b] \in Setting /\ timer[b] = t)
    BY <1>0, <1>1, NobodyElse DEF Setting
  <2>2. pc'[a] \in Setting => timer'[a] = t /\ Knows(a, pc[a], t)'
    BY <1>0, <1>1, <1>3, <1>5 DEF Setting, Knows, InHand, Outside
  <2>3. pc'[a] \in Holding => dispatcherLock' = a
    BY <1>3 DEF Holding
  <2>4. QED BY SMTT(30), <1>1, <1>3, <1>4, <1>5, <2>1, <2>2, <2>3, Names, OneActs
              DEF Inv, TypeOK, TimePasses
<1>9. ClockOK'
  BY <1>1 DEF Inv, ClockOK
<1>10. QED BY <1>5, <1>6, <1>7, <1>8, <1>9 DEF Inv
-----------------------------------------------------------------------------
(* The clock interrupt touches no timer. *)
LEMMA ClockKeeps ==
  ASSUME Inv, ClockInterrupt \/ CompareOldHand \/ CompareHand
  PROVE  Inv'
<1>1. /\ UNCHANGED <<dispatcherLock, tableLock, time, inserted, place, due, signaled, pc, timer,
                     scan, calls>>
      /\ now' \in Nat /\ now' >= now /\ ticks' \in Nat /\ ticks' # 0
      /\ isr' \in {"Idle", "OldHand", "Hand"} /\ request' \in Nat \union {Never}
  <2> USE DEF Inv, TypeOK, ClockOK, locks, timers
  <2>1. CASE ClockInterrupt
    BY <2>1 DEF ClockInterrupt
  <2>2. CASE CompareOldHand
    <3>1. ticks - 1 \in Nat
      OBVIOUS
    <3>2. QED BY <2>2, <3>1 DEF CompareOldHand, RequestExpiration
  <2>3. CASE CompareHand
    BY <2>3 DEF CompareHand, RequestExpiration
  <2>4. QED BY <2>1, <2>2, <2>3
<1>2. now \in Nat /\ scan.current \in Nat /\ \A t \in Timer : due[t] \in Nat
  BY DEF Inv, TypeOK
<1>3. TypeOK' /\ PcOK' /\ ClockOK'
  BY <1>1, <1>2 DEF Inv, TypeOK, PcOK, ClockOK
<1>4. DispatcherHeld' /\ SettersKnow'
  <2>1. \A a \in Actor, t \in Timer, where \in Setting :
          Knows(a, where, t) => Knows(a, where, t)'
    BY <1>1, <1>2 DEF Knows
  <2>2. \A a \in Actor : pc[a] \in Setting => timer[a] \in Timer /\ Knows(a, pc[a], timer[a])
    BY DEF Inv, SettersKnow, Knows
  <2>3. QED BY <1>1, <2>1, <2>2 DEF Inv, DispatcherHeld, SettersKnow
<1>5. TimeCoversList' /\ ListedAreInserted'
  BY <1>1, SameTable DEF TimePasses
<1>6. QED BY <1>3, <1>4, <1>5 DEF Inv

(* Hand and tick arithmetic of the expiration. *)
LEMMA HandArithmetic ==
  ASSUME NEW n \in Nat
  PROVE  n % TableSize \in Hand /\ (n + TableSize - 1) % TableSize \in Hand
BY TimerTableAssumption DEF Hand

LEMMA LimitIsHand ==
  ASSUME Inv, NEW n \in Nat PROVE LimitOf(n) \in Hand
BY HandArithmetic DEF Inv, TypeOK, LimitOf

(* The expiration goes on to the next hand, or ends. *)
LEMMA NextHandGives ==
  ASSUME Inv, NextHand
  PROVE  /\ scan' \in [index : Nat, limit : Hand, current : Nat] /\ scan'.current = scan.current
         /\ \/ pc' = [pc EXCEPT ![Expiration] = "Idle"] /\ dispatcherLock' = Nobody
            \/ pc' = [pc EXCEPT ![Expiration] = "Scan"] /\ UNCHANGED dispatcherLock
<1>1. scan \in [index : Nat, limit : Hand, current : Nat]
  BY DEF Inv, TypeOK
<1>2. (scan.index + 1) % TableSize \in Nat
  BY <1>1, TimerTableAssumption
<1>3. CASE scan.index = scan.limit
  BY <1>1, <1>3 DEF NextHand, Goto, ReleaseDispatcherLock
<1>4. CASE scan.index # scan.limit
  <2> DEFINE i == (scan.index + 1) % TableSize
  <2>1. scan' = [scan EXCEPT !.index = i] /\ pc' = [pc EXCEPT ![Expiration] = "Scan"]
        /\ UNCHANGED dispatcherLock
    BY <1>4 DEF NextHand, Goto
  <2> HIDE DEF i
  <2>2. i \in Nat
    BY <1>2 DEF i
  <2>3. QED BY <1>1, <2>1, <2>2
<1>5. QED BY <1>3, <1>4

(* Steps of the expiration that touch no timer and no list. *)
QuietScan == TakeRequest \/ Capture \/ LockDispatcher \/ SkipHand \/ TryLock

LEMMA QuietScanGives ==
  ASSUME Inv, QuietScan
  PROVE  /\ UNCHANGED <<now, ticks, isr, tableLock, time, inserted, place, due, signaled, timer, calls>>
         /\ request' \in Nat \union {Never}
         /\ scan' \in [index : Nat, limit : Hand, current : Nat] /\ scan'.current <= now
         /\ \/ UNCHANGED dispatcherLock
            \/ dispatcherLock = Nobody /\ dispatcherLock' = Expiration
            \/ dispatcherLock = Expiration /\ dispatcherLock' = Nobody
         /\ \E where \in {"Idle", "Capture", "Lock", "Scan"} :
              /\ pc' = [pc EXCEPT ![Expiration] = where]
              /\ where = "Scan" => dispatcherLock' = Expiration
<1>1. /\ scan \in [index : Nat, limit : Hand, current : Nat] /\ scan.current <= now
      /\ now \in Nat /\ request \in Nat \union {Never}
      /\ pc[Expiration] = "Scan" => dispatcherLock = Expiration
  BY Names DEF Inv, TypeOK, ClockOK, DispatcherHeld, Holding
<1>2. (scan.index + 1) % TableSize \in Nat /\ scan.index % TableSize \in Nat /\ scan.index \in Nat
  BY <1>1, TimerTableAssumption
<1>3. CASE TakeRequest
  BY <1>1, <1>3 DEF TakeRequest, Goto, clock, locks, timers
<1>4. CASE Capture
  BY <1>1, <1>2, <1>4, LimitIsHand DEF Capture, Goto, clock, locks, timers
<1>5. CASE LockDispatcher
  BY <1>1, <1>5 DEF LockDispatcher, TakeDispatcherLock, Goto, clock, timers
<1>6. CASE SkipHand
  BY <1>1, <1>6, NextHandGives DEF SkipHand, At, clock, timers
<1>7. CASE TryLock
  <2> DEFINE i == (scan.index + 1) % TableSize
  <2>1. /\ UNCHANGED <<now, ticks, isr, tableLock, time, inserted, place, due, signaled, timer, calls>>
        /\ \/ /\ request' = scan.index /\ UNCHANGED <<dispatcherLock, scan>>
              /\ pc' = [pc EXCEPT ![Expiration] = "Idle"]
           \/ /\ dispatcherLock = Nobody /\ dispatcherLock' = Expiration /\ UNCHANGED request
              /\ pc' = [pc EXCEPT ![Expiration] = "Scan"]
              /\ UNCHANGED scan \/ scan' = [scan EXCEPT !.index = i]
           \/ UNCHANGED <<dispatcherLock, scan, request>> /\ pc' = [pc EXCEPT ![Expiration] = "Idle"]
    BY <1>7 DEF TryLock, Goto, clock, timers
  <2>2. i \in Nat
    BY <1>2
  <2> HIDE DEF i
  <2>3. QED BY <1>1, <1>2, <2>1, <2>2
<1>8. QED BY <1>3, <1>4, <1>5, <1>6, <1>7 DEF QuietScan

LEMMA QuietScanKeeps ==
  ASSUME Inv, QuietScan
  PROVE  Inv'
<1>1. /\ UNCHANGED <<now, ticks, isr, tableLock, time, inserted, place, due, signaled, timer, calls>>
      /\ request' \in Nat \union {Never}
      /\ scan' \in [index : Nat, limit : Hand, current : Nat] /\ scan'.current <= now
      /\ \/ UNCHANGED dispatcherLock
         \/ dispatcherLock = Nobody /\ dispatcherLock' = Expiration
         \/ dispatcherLock = Expiration /\ dispatcherLock' = Nobody
      /\ Expiration \in Actor /\ Nobody \notin Actor
  BY QuietScanGives, Names
<1>2. PICK where \in {"Idle", "Capture", "Lock", "Scan"} :
        /\ pc' = [pc EXCEPT ![Expiration] = where]
        /\ where = "Scan" => dispatcherLock' = Expiration
  BY QuietScanGives
<1>3. pc'[Expiration] = where /\ \A b \in Actor \ {Expiration} : pc'[b] = pc[b]
  BY <1>1, <1>2 DEF Inv, PcOK
<1>4. TypeOK'
  BY <1>1 DEF Inv, TypeOK
<1>5. PcOK'
  BY <1>1, <1>2, <1>3 DEF Inv, PcOK, Holding, Setting
<1>6. DispatcherHeld' /\ SettersKnow'
  <2>1. pc'[Expiration] \notin Setting /\ (pc'[Expiration] \in Holding => dispatcherLock' = Expiration)
    BY <1>2, <1>3 DEF Setting, Holding
  <2>2. \A b \in Actor \ {Expiration} : dispatcherLock = b => dispatcherLock' = b
    BY <1>1
  <2>3. QED BY <1>1, <1>3, <2>1, <2>2, NoneActs DEF Inv, TypeOK, TimePasses
<1>7. TimeCoversList' /\ ListedAreInserted'
  BY <1>1, SameTable DEF Inv, TypeOK, TimePasses
<1>8. ClockOK'
  BY <1>1 DEF Inv, ClockOK
<1>9. QED BY <1>4, <1>5, <1>6, <1>7, <1>8 DEF Inv

(* The hand gets the due time of its first timer. *)
LEMMA HandDoneKeeps ==
  ASSUME Inv, NEW t \in Timer, HandDone(t)
  PROVE  Inv'
<1>1. /\ UNCHANGED <<now, ticks, isr, request, tableLock, inserted, place, due, signaled, timer, calls>>
      /\ dispatcherLock = Expiration /\ pc[Expiration] = "Scan"
      /\ time' = [time EXCEPT ![scan.index] = due[t]] /\ First(t)
      /\ Expiration \in Actor /\ Nobody \notin Actor
  BY Names DEF Inv, DispatcherHeld, HandDone, Holding, At, clock
<1>2. /\ scan' \in [index : Nat, limit : Hand, current : Nat] /\ scan'.current <= now
      /\ \E where \in {"Idle", "Scan", "TryLockNext"} :
           /\ pc' = [pc EXCEPT ![Expiration] = where]
           /\ where = "Scan" => dispatcherLock' = Expiration
           /\ dispatcherLock' \in {Nobody, Expiration}
  BY <1>1, NextHandGives DEF Inv, TypeOK, ClockOK, HandDone, Goto, ReleaseDispatcherLock
<1>3. PICK where \in {"Idle", "Scan", "TryLockNext"} :
           /\ pc' = [pc EXCEPT ![Expiration] = where]
           /\ where = "Scan" => dispatcherLock' = Expiration
           /\ dispatcherLock' \in {Nobody, Expiration}
  BY <1>2
<1>4. pc'[Expiration] = where /\ \A b \in Actor \ {Expiration} : pc'[b] = pc[b]
  BY <1>1, <1>3 DEF Inv, PcOK
<1>5. /\ due[t] \in Nat /\ due[t] # Never /\ scan.index \in Hand /\ HandOf(due[t]) = scan.index
      /\ time \in [Hand -> Nat \union {Never}]
  BY <1>1, HandOfIsHand, TimerTableAssumption DEF Inv, TypeOK, First, InTable
<1>6. time' \in [Hand -> Nat \union {Never}]
  BY <1>1, <1>5
<1>7. TypeOK'
  BY <1>1, <1>2, <1>3, <1>6 DEF Inv, TypeOK
<1>8. PcOK'
  BY <1>1, <1>3, <1>4 DEF Inv, PcOK, Holding, Setting
<1>9. DispatcherHeld' /\ SettersKnow'
  <2>1. pc'[Expiration] \notin Setting /\ (pc'[Expiration] \in Holding => dispatcherLock' = Expiration)
    BY <1>3, <1>4 DEF Setting, Holding
  <2>2. \A b \in Actor \ {Expiration} : dispatcherLock = b => dispatcherLock' = b
    BY <1>1
  <2>3. QED BY <1>1, <1>4, <2>1, <2>2, NoneActs DEF Inv, TypeOK, TimePasses
<1>10. TimeCoversList'
  <2> SUFFICES ASSUME NEW u \in Timer, place[u] = "Table"
               PROVE  /\ inserted[u]
                      /\ time'[HandOf(due[u])] # Never /\ time'[HandOf(due[u])] <= due[u]
    BY <1>1 DEF TimeCoversList
  <2>1. inserted[u] /\ time[HandOf(due[u])] # Never /\ time[HandOf(due[u])] <= due[u]
    BY DEF Inv, TimeCoversList
  <2>2. HandOf(due[u]) \in Hand
    BY HandOfIsHand DEF Inv, TypeOK
  <2>3. CASE HandOf(due[u]) = scan.index
    <3>1. due[t] <= due[u]
      BY <1>1, <2>3 DEF First, InTable
    <3>2. QED BY <1>1, <1>5, <2>1, <2>3, <3>1
  <2>4. CASE HandOf(due[u]) # scan.index
    BY <1>1, <1>5, <2>1, <2>2, <2>4
  <2>5. QED BY <2>3, <2>4
<1>11. ListedAreInserted' /\ ClockOK'
  BY <1>1, <1>2 DEF Inv, ListedAreInserted, ClockOK
<1>12. QED BY <1>7, <1>8, <1>9, <1>10, <1>11 DEF Inv

LEMMA ExpireFirstKeeps ==
  ASSUME Inv, NEW t \in Timer, ExpireFirst(t)
  PROVE  Inv'
<1>1. /\ UNCHANGED <<now, ticks, isr, request, tableLock, due, scan, calls>>
      /\ dispatcherLock = Expiration /\ pc[Expiration] = "Scan"
      /\ Expiration \in Actor /\ Nobody \notin Actor
      /\ HandOf(due[t]) = scan.index /\ tableLock[HandOf(due[t])] = Nobody
      /\ RemoveEntryTimer(t, "None")
      /\ inserted' = [inserted EXCEPT ![t] = FALSE]
      /\ signaled' = [signaled EXCEPT ![t] = TRUE]
      /\ timer' = [timer EXCEPT ![Expiration] = t]
  BY Names DEF Inv, DispatcherHeld, ExpireFirst, Holding, At, clock, First, InTable
<1>2. PICK where \in {"Reinsert", "Scan", "TryLockScan"} :
           /\ pc' = [pc EXCEPT ![Expiration] = where]
           /\ where # "TryLockScan" => dispatcherLock' = Expiration
           /\ dispatcherLock' \in {Nobody, Expiration}
  BY <1>1 DEF ExpireFirst, Processed, Goto, ReleaseDispatcherLock
<1>3. /\ pc'[Expiration] = where /\ timer'[Expiration] = t
      /\ \A b \in Actor \ {Expiration} : pc'[b] = pc[b] /\ timer'[b] = timer[b]
      /\ ~inserted'[t] /\ \A u \in Timer \ {t} : inserted'[u] <=> inserted[u]
  BY <1>1, <1>2 DEF Inv, TypeOK, PcOK
<1>4. /\ TimeCoversList' /\ ListedAreInserted'
      /\ time' \in [Hand -> Nat \union {Never}]
      /\ place' \in [Timer -> {"None", "Table"} \union Thread]
      /\ place'[t] = "None" /\ \A u \in Timer \ {t} : place'[u] = place[u]
  BY <1>1, <1>3, Removed DEF Inv, TypeOK, TimePasses
<1>5. TypeOK'
  BY <1>1, <1>2, <1>4 DEF Inv, TypeOK
<1>6. PcOK'
  BY <1>1, <1>2, <1>3 DEF Inv, PcOK, Holding, Setting
<1>7. DispatcherHeld' /\ SettersKnow'
  <2>1. pc'[Expiration] \in Holding => dispatcherLock' = Expiration
    BY <1>2, <1>3 DEF Holding
  <2>2. pc'[Expiration] \in Setting => Knows(Expiration, pc[Expiration], t)'
    BY <1>2, <1>3, <1>4 DEF Knows, Setting, InHand, Outside
  <2>3. \A b \in Actor \ {Expiration} : ~(pc[b] \in Setting /\ timer[b] = t)
    BY <1>1, NobodyElse
  <2>4. \A b \in Actor \ {Expiration} : dispatcherLock = b => dispatcherLock' = b
    BY <1>1
  <2>5. QED BY <1>1, <1>3, <1>4, <2>1, <2>2, <2>3, <2>4, OneActs DEF Inv, TypeOK, TimePasses
<1>8. ClockOK'
  BY <1>1 DEF Inv, ClockOK
<1>9. QED BY <1>4, <1>5, <1>6, <1>7, <1>8 DEF Inv
-----------------------------------------------------------------------------
LEMMA InitInv == Init => Inv
<1> SUFFICES ASSUME Init PROVE Inv
  OBVIOUS
<1>1. StartTick * TickLength \in Nat /\ 0 \in Hand
  BY TimerTableAssumption DEF Hand
<1>2. TypeOK
  <2>1. now \in Nat /\ ticks \in Nat /\ isr \in {"Idle", "OldHand", "Hand"}
    BY <1>1, TimerTableAssumption DEF Init
  <2>2. scan \in [index : Nat, limit : Hand, current : Nat]
    BY <1>1 DEF Init
  <2>3. /\ tableLock \in [Hand -> Actor \union {Nobody}]
        /\ time \in [Hand -> Nat \union {Never}]
    BY DEF Init
  <2>4. /\ inserted \in [Timer -> BOOLEAN] /\ signaled \in [Timer -> BOOLEAN]
        /\ place \in [Timer -> {"None", "Table"} \union Thread]
        /\ due \in [Timer -> Nat]
    BY DEF Init
  <2>5. QED BY <2>1, <2>2, <2>3, <2>4 DEF Init, TypeOK
<1>3. PcOK
  BY DEF Init, PcOK, Setting
<1>4. DispatcherHeld /\ SettersKnow
  BY DEF Init, DispatcherHeld, SettersKnow, Holding, Setting
<1>5. TimeCoversList /\ ListedAreInserted
  BY Names DEF Init, TimeCoversList, ListedAreInserted
<1>6. ClockOK
  <2>1. now \in Nat /\ scan.current = 0 /\ ticks # 0
    BY <1>1, TimerTableAssumption DEF Init
  <2>2. QED BY <2>1 DEF ClockOK
<1>7. QED BY <1>2, <1>3, <1>4, <1>5, <1>6 DEF Inv

LEMMA StutterInv == Inv /\ UNCHANGED vars => Inv'
<1> SUFFICES ASSUME Inv, UNCHANGED vars PROVE Inv'
  OBVIOUS
<1> USE DEF vars, clock, locks, timers
<1>1. TypeOK' /\ PcOK' /\ DispatcherHeld' /\ ListedAreInserted' /\ TimeCoversList' /\ ClockOK'
  BY DEF Inv, TypeOK, PcOK, DispatcherHeld, ListedAreInserted, TimeCoversList, ClockOK
<1>2. SettersKnow'
  BY DEF Inv, SettersKnow, Knows
<1>3. QED BY <1>1, <1>2 DEF Inv

LEMMA NextInv == Inv /\ Next => Inv'
<1> SUFFICES ASSUME Inv, Next PROVE Inv'
  OBVIOUS
<1>1. ASSUME NEW a \in Thread, Call(a) PROVE Inv'
  BY <1>1, BeginCallKeeps, ClearTimerKeeps DEF Call, SetTimer, CancelTimer
<1>2. ASSUME NEW a \in Thread, Run(a) PROVE Inv'
  <2>1. ASSUME ComputeAnyDueTime(a) PROVE Inv'
    <3>1. now \in Nat /\ \A i \in Intervals : now + i \in Nat
      BY TimerTableAssumption DEF Inv, TypeOK
    <3>2. QED BY <2>1, <3>1, ComputeDueTimeKeeps DEF ComputeAnyDueTime
  <2>2. a \in Actor
    BY Names
  <2>3. QED BY <1>2, <2>1, <2>2, RemoveTreeTimerKeeps, LockHandKeeps, InsertKeeps, CheckKeeps,
              SignalPastKeeps, CompleteKeeps, ReinsertKeeps, ReinsertInsertKeeps,
              ReinsertCheckKeeps DEF Run
<1>3. ASSUME Expire PROVE Inv'
  BY <1>3, Names, QuietScanKeeps, HandDoneKeeps, ExpireFirstKeeps, ReinsertKeeps,
     ReinsertInsertKeeps, ReinsertCheckKeeps DEF Expire, QuietScan
<1>4. QED BY <1>1, <1>2, <1>3, ClockKeeps DEF Next, Compare

LEMMA InvHolds == Spec => []Inv
<1>1. Inv /\ [Next]_vars => Inv'
  BY NextInv, StutterInv
<1>2. QED BY <1>1, InitInv, PTL DEF Spec

(* The wheel that the clock looks at agrees with the timers in it: the due *)
(* time of a hand is never later than that of any timer in its list,       *)
(* whatever threads set and cancel while the clock ticks and expired       *)
(* timers are taken out.                                                   *)
THEOREM TableIsConsistent == Spec => []TableConsistent
<1>1. Inv => TableConsistent
  BY DEF Inv, TableConsistent
<1>2. QED BY <1>1, InvHolds, PTL
-----------------------------------------------------------------------------
(***************************************************************************)
(* The timers are what their users rely on: every step is one of the       *)
(* contract, on one timer, or none.                                        *)
(***************************************************************************)
IsSet(t) == inserted[t] \/ BeingSet(t)
ContractStep == Contract!Next \/ UNCHANGED Contract!vars

LEMMA OneTimer ==
  ASSUME NEW t \in Timer, UNCHANGED now, due' \in [Timer -> Nat],
         \A u \in Timer \ {t} : /\ IsSet(u)' <=> IsSet(u)
                                /\ signaled'[u] <=> signaled[u]
                                /\ due'[u] = due[u],
         \/ IsSet(t)' /\ (signaled'[t] => signaled[t])
         \/ IsSet(t) /\ ~IsSet(t)' /\ (signaled'[t] <=> signaled[t]) /\ UNCHANGED due
         \/ IsSet(t) /\ due[t] <= now /\ signaled'[t] /\ UNCHANGED due
         \/ (IsSet(t)' <=> IsSet(t)) /\ (signaled'[t] => signaled[t]) /\ UNCHANGED due
  PROVE  ContractStep
<1> DEFINE S == {u \in Timer : inserted[u] \/ BeingSet(u)}
           G == {u \in Timer : signaled[u]}
<1>1. \A u \in Timer : /\ u \in S <=> IsSet(u)
                       /\ u \in S' <=> IsSet(u)'
                       /\ u \in G <=> signaled[u]
                       /\ u \in G' <=> signaled'[u]
  BY DEF IsSet
<1>2. S \subseteq Timer /\ S' \subseteq Timer /\ G \subseteq Timer /\ G' \subseteq Timer
  OBVIOUS
<1> HIDE DEF S, G
<1>3. CASE IsSet(t)' /\ (signaled'[t] => signaled[t])
  <2>1. S' = S \union {t} /\ G' \in {G, G \ {t}}
    BY <1>1, <1>2, <1>3
  <2>2. Contract!Set(t)
    BY <2>1 DEF Contract!Set, S, G
  <2>3. QED BY <2>2 DEF ContractStep, Contract!Next
<1>4. CASE IsSet(t) /\ ~IsSet(t)' /\ (signaled'[t] <=> signaled[t]) /\ UNCHANGED due
  <2>1. t \in S /\ S' = S \ {t} /\ G' = G
    BY <1>1, <1>2, <1>4
  <2>2. Contract!Cancel(t)
    BY <1>4, <2>1 DEF Contract!Cancel, S, G
  <2>3. QED BY <2>2 DEF ContractStep, Contract!Next
<1>5. CASE IsSet(t) /\ due[t] <= now /\ signaled'[t] /\ UNCHANGED due
  <2>1. t \in S /\ S' \in {S, S \ {t}} /\ G' = G \union {t}
    BY <1>1, <1>2, <1>5
  <2>2. Contract!Expire(t)
    BY <1>5, <2>1 DEF Contract!Expire, S, G
  <2>3. QED BY <2>2 DEF ContractStep, Contract!Next
<1>6. CASE (IsSet(t)' <=> IsSet(t)) /\ (signaled'[t] => signaled[t]) /\ UNCHANGED due
  <2>1. S' = S /\ G' \in {G, G \ {t}}
    BY <1>1, <1>2, <1>6
  <2>2. CASE G' = G
    BY <1>6, <2>1, <2>2 DEF ContractStep, Contract!vars, S, G
  <2>3. CASE G' = G \ {t}
    <3>1. Contract!Clear(t)
      BY <1>6, <2>1, <2>3 DEF Contract!Clear, S, G
    <3>2. QED BY <3>1 DEF ContractStep, Contract!Next
  <2>4. QED BY <2>1, <2>2, <2>3
<1>7. QED BY <1>3, <1>4, <1>5, <1>6

(* An actor that sets a timer, alone, and what that is to the others. *)
LEMMA OneSets ==
  ASSUME NEW a \in Actor, NEW t \in Timer,
         \A b \in Actor \ {a} : /\ pc'[b] = pc[b] /\ timer'[b] = timer[b]
                                /\ ~(pc[b] \in Setting /\ timer[b] = t),
         timer[a] = t, timer'[a] = t
  PROVE  /\ BeingSet(t) <=> pc[a] \in {"SetPast", "Reinsert"}
         /\ BeingSet(t)' <=> pc'[a] \in {"SetPast", "Reinsert"}
         /\ \A u \in Timer \ {t} : BeingSet(u)' <=> BeingSet(u)
BY DEF BeingSet, Setting

(* Steps on no timer. *)
LEMMA NoTimer ==
  ASSUME UNCHANGED <<now, inserted, due, signaled>>,
         \A b \in Actor : \/ UNCHANGED <<pc[b], timer[b]>>
                          \/ /\ pc[b] \notin {"SetPast", "Reinsert"}
                             /\ pc'[b] \notin {"SetPast", "Reinsert"}
  PROVE  ContractStep
<1>1. \A u \in Timer : BeingSet(u)' <=> BeingSet(u)
  BY DEF BeingSet
<1>2. /\ {u \in Timer : inserted[u] \/ BeingSet(u)}' = {u \in Timer : inserted[u] \/ BeingSet(u)}
      /\ {u \in Timer : signaled[u]}' = {u \in Timer : signaled[u]}
  BY <1>1
<1>3. QED BY <1>2 DEF ContractStep, Contract!vars

LEMMA QuietCallMaps ==
  ASSUME Inv, NEW a \in Thread,
         \/ \E t \in Timer : SetTimer(a, t) \/ CancelTimer(a, t)
         \/ LockHand(a) \/ Check(a)
  PROVE  ContractStep
<1>1. /\ UNCHANGED <<now, inserted, due, signaled>> /\ a \in Actor
      /\ pc[a] \in {"Idle", "SetLockHand", "SetCheck"}
      /\ \E where \in {"SetRemove", "CancelRemove", "SetInsert", "SetComplete", "Idle"} :
           pc' = [pc EXCEPT ![a] = where]
      /\ \A b \in Actor \ {a} : timer'[b] = timer[b]
  BY Names DEF SetTimer, CancelTimer, BeginCall, LockHand, Check, Goto, clock, timers,
               Inv, TypeOK
<1>2. QED BY <1>1, NoTimer DEF Inv, PcOK

LEMMA ClearTimerMaps ==
  ASSUME Inv, NEW a \in Thread, NEW t \in Timer, ClearTimer(a, t)
  PROVE  ContractStep
<1>1. /\ UNCHANGED <<now, inserted, due, pc, timer>>
      /\ signaled' = [signaled EXCEPT ![t] = FALSE]
  BY DEF ClearTimer, clock
<1>2. ~signaled'[t] /\ \A u \in Timer \ {t} : signaled'[u] <=> signaled[u]
  BY <1>1 DEF Inv, TypeOK
<1>3. \A u \in Timer : IsSet(u)' <=> IsSet(u)
  BY <1>1 DEF IsSet, BeingSet
<1>4. QED BY <1>1, <1>2, <1>3, OneTimer DEF Inv, TypeOK

LEMMA RemoveTreeTimerMaps ==
  ASSUME Inv, NEW a \in Thread, RemoveTreeTimer(a)
  PROVE  ContractStep
<1>0. PICK t \in Timer : t = timer[a]
  BY Names DEF Inv, PcOK, RemoveTreeTimer
<1>1. /\ a \in Actor /\ dispatcherLock = a /\ pc[a] \in {"SetRemove", "CancelRemove"}
      /\ UNCHANGED <<now, due, signaled, timer>>
      /\ \E where \in {"SetCompute", "Idle"} : pc' = [pc EXCEPT ![a] = where]
      /\ inserted[t] => tableLock[HandOf(due[t])] = Nobody
      /\ IF inserted[t] THEN inserted' = [inserted EXCEPT ![t] = FALSE] ELSE UNCHANGED inserted
  BY <1>0, Names DEF Inv, DispatcherHeld, RemoveTreeTimer, Holding, Goto, clock
<1>2. /\ pc'[a] \in {"SetCompute", "Idle"}
      /\ \A b \in Actor \ {a} : pc'[b] = pc[b]
      /\ ~inserted'[t] /\ \A u \in Timer \ {t} : inserted'[u] <=> inserted[u]
  BY <1>1 DEF Inv, PcOK, TypeOK
<1>3. \A b \in Actor \ {a} : ~(pc[b] \in Setting /\ timer[b] = t)
  BY <1>1, NobodyElse
<1>4. /\ ~IsSet(t)' /\ \A u \in Timer \ {t} : IsSet(u)' <=> IsSet(u)
  BY <1>0, <1>1, <1>2, <1>3, OneSets DEF IsSet
<1>5. QED BY <1>1, <1>4, OneTimer DEF Inv, TypeOK

LEMMA ComputeDueTimeMaps ==
  ASSUME Inv, NEW a \in Thread, NEW d \in Nat, ComputeDueTime(a, d)
  PROVE  ContractStep
<1>0. PICK t \in Timer : t = timer[a]
  BY Names DEF Inv, PcOK, ComputeDueTime, Setting
<1>1. /\ a \in Actor /\ pc[a] = "SetCompute" /\ UNCHANGED <<now, timer>>
      /\ due' = [due EXCEPT ![t] = d]
      /\ \/ pc' = [pc EXCEPT ![a] = "SetPast"] /\ UNCHANGED <<inserted, signaled>>
         \/ /\ pc' = [pc EXCEPT ![a] = "SetLockHand"]
            /\ inserted' = [inserted EXCEPT ![t] = TRUE]
            /\ signaled' = [signaled EXCEPT ![t] = FALSE]
  BY <1>0, Names DEF ComputeDueTime, Goto, clock
<1>2. /\ pc'[a] = "SetPast" \/ inserted'[t]
      /\ signaled'[t] => signaled[t]
      /\ \A b \in Actor \ {a} : pc'[b] = pc[b]
      /\ due' \in [Timer -> Nat]
      /\ \A u \in Timer \ {t} : /\ inserted'[u] <=> inserted[u]
                                /\ signaled'[u] <=> signaled[u]
                                /\ due'[u] = due[u]
  BY <1>1 DEF Inv, PcOK, TypeOK
<1>3. \A b \in Actor \ {a} : ~(pc[b] \in Setting /\ timer[b] = t)
  BY <1>0, <1>1, NobodyElse DEF Setting
<1>4. /\ IsSet(t)' /\ \A u \in Timer \ {t} : IsSet(u)' <=> IsSet(u)
  BY <1>0, <1>1, <1>2, <1>3, OneSets DEF IsSet
<1>5. QED BY <1>1, <1>2, <1>4, OneTimer

LEMMA InsertMaps ==
  ASSUME Inv, NEW a \in Actor, Insert(a) \/ ReinsertInsert(a)
  PROVE  ContractStep
<1>0. PICK t \in Timer : t = timer[a]
  BY DEF Inv, PcOK, Insert, ReinsertInsert, Setting
<1>1. /\ UNCHANGED <<now, inserted, due, timer>> /\ pc[a] \in {"SetInsert", "ReinsertInsert"}
      /\ signaled' = [signaled EXCEPT ![t] = @ /\ Period[t] # 0]
  BY <1>0 DEF Insert, ReinsertInsert, InsertTimerTable, clock
<1>2. \E where \in {"SetCheck", "ReinsertCheck", "Scan", "TryLockScan", "Idle"} :
        pc' = [pc EXCEPT ![a] = where]
  <2>1. CASE Insert(a)
    BY <2>1 DEF Insert, Goto
  <2>2. CASE ReinsertInsert(a)
    <3>1. dispatcherLock = a
      BY <2>2 DEF Inv, DispatcherHeld, ReinsertInsert, Holding
    <3>2. QED BY <2>2, <3>1, ReinsertedGives DEF ReinsertInsert, Goto
  <2>3. QED BY <2>1, <2>2
<1>3. /\ pc'[a] \notin {"SetPast", "Reinsert"} /\ \A b \in Actor \ {a} : pc'[b] = pc[b]
      /\ signaled'[t] => signaled[t]
      /\ \A u \in Timer \ {t} : signaled'[u] <=> signaled[u]
  BY <1>1, <1>2 DEF Inv, PcOK, TypeOK
<1>4. \A u \in Timer : IsSet(u)' <=> IsSet(u)
  BY <1>1, <1>3 DEF IsSet, BeingSet
<1>5. QED BY <1>1, <1>3, <1>4, OneTimer DEF Inv, TypeOK

(* Both ways to signal a timer find it due. *)
LEMMA SignalMaps ==
  ASSUME Inv, NEW a \in Thread, SignalPast(a) \/ (Complete(a) /\ StillOnDummy(a))
  PROVE  ContractStep
<1>0. PICK t \in Timer : t = timer[a]
  BY Names DEF Inv, PcOK, SignalPast, Complete, Setting
<1>1. /\ a \in Actor /\ pc[a] \in {"SetPast", "SetComplete"} /\ Signal(a) /\ UNCHANGED <<now, due, timer>>
      /\ pc[a] = "SetComplete" => place[t] = a /\ dispatcherLock = Nobody
  BY <1>0, Names DEF SignalPast, Complete, StillOnDummy, clock
<1>2. IsSet(t) /\ due[t] <= now
  <2>1. CASE pc[a] = "SetPast"
    BY <1>0, <1>1, <2>1 DEF Inv, SettersKnow, Knows, Setting, IsSet, BeingSet
  <2>2. CASE pc[a] = "SetComplete"
    BY <1>1, <2>2, Names DEF Inv, ListedAreInserted, IsSet
  <2>3. QED BY <1>1, <2>1, <2>2
<1>3. /\ signaled'[t] /\ \A u \in Timer \ {t} : signaled'[u] <=> signaled[u]
      /\ \A u \in Timer \ {t} : inserted'[u] <=> inserted[u]
      /\ \A b \in Actor \ {a} : pc'[b] = pc[b]
  BY <1>0, <1>1 DEF Signal, Goto, Inv, TypeOK, PcOK
<1>4. \A b \in Actor \ {a} : ~(pc[b] \in Setting /\ timer[b] = t)
  <2>1. CASE pc[a] = "SetPast"
    BY <1>0, <1>1, <2>1, NobodyElse DEF Setting
  <2>2. CASE pc[a] = "SetComplete"
    BY <1>1, <2>2, NobodyElse
  <2>3. QED BY <1>1, <2>1, <2>2
<1>5. \A u \in Timer \ {t} : IsSet(u)' <=> IsSet(u)
  BY <1>0, <1>1, <1>3, <1>4, OneSets DEF IsSet
<1>6. QED BY <1>1, <1>2, <1>3, <1>5, OneTimer DEF Inv, TypeOK

LEMMA CompleteMaps ==
  ASSUME Inv, NEW a \in Thread, Complete(a)
  PROVE  ContractStep
<1>1. CASE StillOnDummy(a)
  BY <1>1, SignalMaps
<1>2. CASE ~StillOnDummy(a)
  <2>1. /\ UNCHANGED <<now, inserted, due, signaled, timer>> /\ pc[a] = "SetComplete"
        /\ pc' = [pc EXCEPT ![a] = "Idle"]
    BY <1>2 DEF Complete, Goto, clock
  <2>2. QED BY <2>1, NoTimer DEF Inv, PcOK
<1>3. QED BY <1>1, <1>2

LEMMA ReinsertMaps ==
  ASSUME Inv, NEW a \in Actor, Reinsert(a)
  PROVE  ContractStep
<1>0. PICK t \in Timer : t = timer[a]
  BY DEF Inv, PcOK, Reinsert, Setting
<1>1. /\ pc[a] = "Reinsert" /\ UNCHANGED <<now, signaled, timer>>
      /\ due' = [due EXCEPT ![t] = now + Period[t]]
      /\ inserted' = [inserted EXCEPT ![t] = TRUE]
      /\ pc' = [pc EXCEPT ![a] = "ReinsertInsert"]
  BY <1>0 DEF Reinsert, Goto, clock
<1>2. now + Period[t] \in Nat
  BY TimerTableAssumption DEF Inv, TypeOK
<1>3. /\ due' \in [Timer -> Nat] /\ inserted'[t]
      /\ \A u \in Timer \ {t} : due'[u] = due[u] /\ (inserted'[u] <=> inserted[u])
      /\ \A b \in Actor \ {a} : pc'[b] = pc[b]
  BY <1>1, <1>2 DEF Inv, TypeOK, PcOK
<1>4. \A b \in Actor \ {a} : ~(pc[b] \in Setting /\ timer[b] = t)
  BY <1>0, <1>1, NobodyElse DEF Setting
<1>5. IsSet(t)' /\ \A u \in Timer \ {t} : IsSet(u)' <=> IsSet(u)
  BY <1>0, <1>1, <1>3, <1>4, OneSets DEF IsSet
<1>6. QED BY <1>1, <1>3, <1>5, OneTimer

(* A periodic timer that is due at once stays one that is set. *)
LEMMA ReinsertCheckMaps ==
  ASSUME Inv, NEW a \in Actor, ReinsertCheck(a)
  PROVE  ContractStep
<1>0. PICK t \in Timer : t = timer[a]
  BY DEF Inv, PcOK, ReinsertCheck, Setting
<1>1. /\ pc[a] = "ReinsertCheck" /\ dispatcherLock = a /\ inserted[t]
      /\ UNCHANGED <<now, due, signaled, timer>>
  BY <1>0 DEF Inv, DispatcherHeld, SettersKnow, Knows, ReinsertCheck, Setting, Holding, Outside,
              clock
<1>2. CASE UNCHANGED inserted /\ Reinserted(a)
  <2>1. \E where \in {"Scan", "TryLockScan", "Idle"} : pc' = [pc EXCEPT ![a] = where]
    BY <1>1, <1>2, ReinsertedGives
  <2>2. QED BY <1>1, <1>2, <2>1, NoTimer DEF Inv, PcOK
<1>3. CASE inserted' = [inserted EXCEPT ![t] = FALSE] /\ pc' = [pc EXCEPT ![a] = "Reinsert"]
  <2>1. /\ \A u \in Timer \ {t} : inserted'[u] <=> inserted[u]
        /\ pc'[a] = "Reinsert" /\ \A b \in Actor \ {a} : pc'[b] = pc[b]
    BY <1>3 DEF Inv, TypeOK, PcOK
  <2>2. \A b \in Actor \ {a} : ~(pc[b] \in Setting /\ timer[b] = t)
    BY <1>0, <1>1, NobodyElse DEF Setting
  <2>3. IsSet(t)' /\ \A u \in Timer \ {t} : IsSet(u)' <=> IsSet(u)
    BY <1>0, <1>1, <2>1, <2>2, OneSets DEF IsSet
  <2>4. QED BY <1>1, <2>3, OneTimer DEF Inv, TypeOK
<1>4. QED BY <1>0, <1>2, <1>3 DEF ReinsertCheck, Goto

LEMMA ClockMaps ==
  ASSUME Inv, ClockInterrupt \/ CompareOldHand \/ CompareHand
  PROVE  ContractStep
<1>1. UNCHANGED <<inserted, due, signaled, pc, timer>>
  BY DEF ClockInterrupt, CompareOldHand, CompareHand, timers
<1>2. CASE ClockInterrupt
  <2>1. now' > now
    BY <1>2 DEF ClockInterrupt, Inv, TypeOK
  <2>2. \A u \in Timer : BeingSet(u)' <=> BeingSet(u)
    BY <1>1 DEF BeingSet
  <2>3. Contract!Pass
    BY <1>1, <2>1, <2>2 DEF Contract!Pass
  <2>4. QED BY <2>3 DEF ContractStep, Contract!Next
<1>3. CASE CompareOldHand \/ CompareHand
  BY <1>1, <1>3, NoTimer DEF CompareOldHand, CompareHand
<1>4. QED BY <1>2, <1>3

LEMMA ScanMaps ==
  ASSUME Inv, \/ QuietScan
              \/ \E t \in Timer : HandDone(t)
  PROVE  ContractStep
<1>1. /\ UNCHANGED <<now, inserted, due, signaled, timer>>
      /\ \E where \in {"Idle", "Capture", "Lock", "Scan", "TryLockNext"} :
           pc' = [pc EXCEPT ![Expiration] = where]
      /\ pc[Expiration] \notin {"SetPast", "Reinsert"}
  <2>1. CASE QuietScan
    BY <2>1, QuietScanGives DEF QuietScan, TakeRequest, Capture, LockDispatcher, SkipHand, TryLock, At
  <2>2. ASSUME NEW t \in Timer, HandDone(t) PROVE <1>1!:
    BY <2>2, NextHandGives DEF HandDone, At, Goto, clock
  <2>3. QED BY <2>1, <2>2
<1>2. QED BY <1>1, NoTimer, Names DEF Inv, PcOK

LEMMA ExpireFirstMaps ==
  ASSUME Inv, NEW t \in Timer, ExpireFirst(t)
  PROVE  ContractStep
<1>1. /\ UNCHANGED <<now, due>> /\ due[t] <= scan.current
      /\ dispatcherLock = Expiration /\ pc[Expiration] = "Scan" /\ Expiration \in Actor
      /\ place[t] = "Table" /\ HandOf(due[t]) = scan.index /\ tableLock[HandOf(due[t])] = Nobody
      /\ inserted' = [inserted EXCEPT ![t] = FALSE]
      /\ signaled' = [signaled EXCEPT ![t] = TRUE]
      /\ timer' = [timer EXCEPT ![Expiration] = t]
      /\ \E where \in {"Reinsert", "Scan", "TryLockScan"} : pc' = [pc EXCEPT ![Expiration] = where]
  BY Names DEF Inv, DispatcherHeld, ExpireFirst, Holding, At, clock, First, InTable, Processed, Goto
<1>2. /\ timer'[Expiration] = t
      /\ \A b \in Actor \ {Expiration} : pc'[b] = pc[b] /\ timer'[b] = timer[b]
      /\ signaled'[t] /\ \A u \in Timer \ {t} : signaled'[u] <=> signaled[u]
      /\ \A u \in Timer \ {t} : inserted'[u] <=> inserted[u]
  BY <1>1 DEF Inv, TypeOK, PcOK
<1>3. IsSet(t) /\ due[t] <= now
  <2>1. inserted[t] /\ due[t] \in Nat /\ now \in Nat /\ scan.current \in Nat /\ scan.current <= now
    BY <1>1 DEF Inv, TypeOK, TimeCoversList, ClockOK
  <2>2. QED BY <1>1, <2>1 DEF IsSet
<1>4. \A u \in Timer \ {t} : BeingSet(u)' <=> BeingSet(u)
  BY <1>1, <1>2 DEF BeingSet
<1>5. \A u \in Timer \ {t} : IsSet(u)' <=> IsSet(u)
  BY <1>2, <1>4 DEF IsSet
<1>6. QED BY <1>1, <1>2, <1>3, <1>5, OneTimer DEF Inv, TypeOK

LEMMA NextMaps == Inv /\ Next => ContractStep
<1> SUFFICES ASSUME Inv, Next PROVE ContractStep
  OBVIOUS
<1>1. ASSUME NEW a \in Thread, Call(a) PROVE ContractStep
  BY <1>1, QuietCallMaps, ClearTimerMaps DEF Call
<1>2. ASSUME NEW a \in Thread, Run(a) PROVE ContractStep
  <2>1. ASSUME ComputeAnyDueTime(a) PROVE ContractStep
    <3>1. now \in Nat /\ \A i \in Intervals : now + i \in Nat
      BY TimerTableAssumption DEF Inv, TypeOK
    <3>2. QED BY <2>1, <3>1, ComputeDueTimeMaps DEF ComputeAnyDueTime
  <2>2. a \in Actor
    BY Names
  <2>3. QED BY <1>2, <2>1, <2>2, RemoveTreeTimerMaps, QuietCallMaps, InsertMaps, SignalMaps,
              CompleteMaps, ReinsertMaps, ReinsertCheckMaps DEF Run
<1>3. ASSUME Expire PROVE ContractStep
  BY <1>3, Names, ScanMaps, ExpireFirstMaps, ReinsertMaps, InsertMaps, ReinsertCheckMaps
     DEF Expire, QuietScan
<1>4. QED BY <1>1, <1>2, <1>3, ClockMaps DEF Next, Compare

(* A timer is signaled only when it is set, was not canceled since, and    *)
(* its due time has passed, whether the thread that sets it finds it past, *)
(* looks at the clock again after inserting it, or the expiration takes it *)
(* out of the wheel.                                                       *)
THEOREM TimerRefinement == Spec => ImplementsContract
<1>1. Init => Contract!Init
  <2> SUFFICES ASSUME Init PROVE Contract!Init
    OBVIOUS
  <2>1. now \in Nat
    BY TimerTableAssumption DEF Init
  <2>2. \A t \in Timer : ~inserted[t] /\ ~BeingSet(t) /\ ~signaled[t]
    BY DEF Init, BeingSet
  <2>3. due \in [Timer -> Nat]
    BY DEF Init
  <2>4. QED BY <2>1, <2>2, <2>3 DEF Contract!Init
<1>2. Inv /\ [Next]_vars => [Contract!Next]_(Contract!vars)
  <2>1. Inv /\ Next => ContractStep
    BY NextMaps
  <2>2. UNCHANGED vars => ContractStep
    BY NoTimer DEF vars, clock, timers
  <2>3. QED BY <2>1, <2>2 DEF ContractStep
<1>3. QED BY <1>1, <1>2, InvHolds, PTL DEF Spec, ImplementsContract, Contract!Spec
=============================================================================
