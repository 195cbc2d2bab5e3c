--------------------------- MODULE TimerContract ---------------------------
(***************************************************************************)
(* What the users of a kernel timer rely on (base/ntos/ke/timerobj.c): a   *)
(* timer is signaled only when it is set, was not canceled since, and its  *)
(* due time has passed.                                                    *)
(***************************************************************************)
EXTENDS Integers

CONSTANT Timer

VARIABLES
  now,           (* the interrupt time                                     *)
  set,           (* the timers that are set                                *)
  due,           (* when each of them is due                               *)
  signaled       (* the timers in the signaled state                       *)

vars == <<now, set, due, signaled>>

Init ==
  /\ now \in Nat
  /\ set = {} /\ due \in [Timer -> Nat] /\ signaled = {}

Pass == now' > now /\ UNCHANGED <<set, due, signaled>>

Set(t) ==
  /\ set' = set \union {t}
  /\ due' \in [Timer -> Nat] /\ \A u \in Timer \ {t} : due'[u] = due[u]
  /\ signaled' \in {signaled, signaled \ {t}}
  /\ UNCHANGED now

(* A periodic timer is set again when it expires. *)
Postpone(t) ==
  /\ t \in set
  /\ due' \in [Timer -> Nat] /\ \A u \in Timer \ {t} : due'[u] = due[u]
  /\ due'[t] >= now
  /\ UNCHANGED <<now, set, signaled>>

(* KeCancelTimer, and the first half of setting a timer that is set. *)
Cancel(t) ==
  /\ t \in set
  /\ set' = set \ {t}
  /\ UNCHANGED <<now, due, signaled>>

Expire(t) ==
  /\ t \in set /\ due[t] <= now
  /\ set' \in {set, set \ {t}}
  /\ signaled' = signaled \union {t}
  /\ UNCHANGED <<now, due>>

Clear(t) ==
  /\ signaled' = signaled \ {t}
  /\ UNCHANGED <<now, set, due>>

Next ==
  \/ Pass
  \/ \E t \in Timer : Set(t) \/ Postpone(t) \/ Cancel(t) \/ Expire(t) \/ Clear(t)

Spec == Init /\ [][Next]_vars
=============================================================================
