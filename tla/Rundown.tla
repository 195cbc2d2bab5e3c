------------------------------ MODULE Rundown ------------------------------
(***************************************************************************)
(* What the two forms of rundown protection (base/ntos/ex/rundown.c) have  *)
(* in common: the callers, their references, and the wait block on the     *)
(* stack of the teardown thread.                                           *)
(***************************************************************************)
EXTENDS Integers, FiniteSets

CONSTANTS
  Thread,        (* threads that acquire and release references            *)
  Ref            (* references that can be outstanding at a time           *)

ASSUME RefAssumption == IsFiniteSet(Ref)

VARIABLES
  blockCount,    (* Count of the teardown thread's wait block              *)
  wakeEvent,     (* WakeEvent of that wait block                           *)
  held,          (* references granted and not yet released                *)
  pc,            (* where each thread is                                   *)
  batch,         (* the references its call acquires or releases           *)
  teardown       (* where the teardown thread is                           *)

(* The references that a call in progress is about. *)
InProgress == UNION {batch[t] : t \in Thread}
=============================================================================
