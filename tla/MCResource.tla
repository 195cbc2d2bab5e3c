----------------------------- MODULE MCResource -----------------------------
(* An instance of Resource for TLC.  t4 makes no calls of its own: it is   *)
(* there to release for an owner pointer when all others wait.             *)
EXTENDS Resource
CONSTANTS t1, t2, t3, t4, p1

Threads == {t1, t2, t3, t4}
Pointers == {p1}
Calls == [t \in Threads |-> IF t = t4 THEN 0 ELSE 2]
=============================================================================
