---------------------------- MODULE GateContract ----------------------------
(***************************************************************************)
(* What a gate (base/ntos/ke/gateobj.c) promises the code that waits on    *)
(* it, without locks, lists or interruptions: a signal lets one thread     *)
(* pass, one that waits or the next to come, and signals of an open gate   *)
(* do not add up.                                                          *)
(***************************************************************************)
CONSTANT Thread

VARIABLES
  open,          (* a signal that no thread has passed on yet              *)
  waiting,       (* threads in KeWaitForGate that have not been let pass   *)
  passing        (* threads let pass that have not yet returned            *)

vars == <<open, waiting, passing>>

Init == ~open /\ waiting = {} /\ passing = {}

Arrive(t) ==
  /\ t \notin waiting \union passing
  /\ waiting' = waiting \union {t}
  /\ UNCHANGED <<open, passing>>

LetPass(t) ==
  /\ t \in waiting
  /\ waiting' = waiting \ {t}
  /\ passing' = passing \union {t}

SignalOpens == open' = TRUE /\ UNCHANGED <<waiting, passing>>

SignalHandsOver(t) == ~open /\ LetPass(t) /\ UNCHANGED open

(* A thread that finds the gate open does not wait. *)
TakeSignal(t) ==
  /\ open /\ open' = FALSE
  /\ t \in waiting /\ waiting' = waiting \ {t}
  /\ UNCHANGED passing

Return(t) ==
  /\ t \in passing
  /\ passing' = passing \ {t}
  /\ UNCHANGED <<open, waiting>>

Next ==
  \/ SignalOpens
  \/ \E t \in Thread :
       Arrive(t) \/ SignalHandsOver(t) \/ TakeSignal(t) \/ Return(t)

Spec == Init /\ [][Next]_vars
=============================================================================
