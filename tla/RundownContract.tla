-------------------------- MODULE RundownContract --------------------------
(***************************************************************************)
(* What rundown protection (base/ntos/ex/rundown.c) promises its callers,  *)
(* without counts, pointers or processors: references are granted while    *)
(* the structure is open; a teardown closes it and returns when the last   *)
(* reference is gone; it may then be opened again.                         *)
(***************************************************************************)
CONSTANT Ref     (* references that can be outstanding                     *)

VARIABLES
  granted,       (* references granted and not yet released                *)
  phase          (* "Open", "Closing" or "Closed"                          *)

Init == granted = {} /\ phase = "Open"

Acquire(S) ==
  /\ phase = "Open"
  /\ S \intersect granted = {}
  /\ granted' = granted \union S
  /\ UNCHANGED phase

Release(S) ==
  /\ granted' = granted \ S
  /\ UNCHANGED phase

BeginTeardown ==
  /\ phase = "Open"
  /\ phase' = "Closing"
  /\ UNCHANGED granted

FinishTeardown ==
  /\ phase \in {"Open", "Closing"}
  /\ granted = {}
  /\ phase' = "Closed"
  /\ UNCHANGED granted

Reopen ==
  /\ phase = "Closed"
  /\ phase' = "Open"
  /\ UNCHANGED granted

Next ==
  \/ \E S \in SUBSET Ref : Acquire(S) \/ Release(S)
  \/ BeginTeardown
  \/ FinishTeardown
  \/ Reopen

Spec == Init /\ [][Next]_<<granted, phase>>
=============================================================================
