---------------------------- MODULE HandleTable ----------------------------
(***************************************************************************)
(* What the two halves of a handle table (base/ntos/ex/handle.c) have in   *)
(* common: threads in calls.                                               *)
(***************************************************************************)
EXTENDS Integers

CONSTANT Thread  (* threads that create, use and destroy handles           *)
VARIABLE pc      (* where each of them is in its call                      *)

Goto(t, where) == pc' = [pc EXCEPT ![t] = where]
=============================================================================
