--------------------------- MODULE MCKernelQueue ---------------------------
(* An instance of KernelQueue for TLC: threads, queues and entries are     *)
(* model values.                                                           *)
EXTENDS KernelQueue, TLC
CONSTANTS t1, t2, t3, q1, q2, i1, i2

Threads == {t1, t2, t3}
Queues == {q1, q2}
Items == {i1, i2}
OneAndTwo == [q \in Queue |-> IF q = q1 THEN 1 ELSE 2]
Symmetry == Permutations(Thread) \union Permutations(Item)
=============================================================================
