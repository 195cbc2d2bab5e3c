-------------------------- MODULE MCHandleFreeList --------------------------
(* An instance of HandleFreeList for TLC: two threads, whose allocations   *)
(* and frees may come in any number, and a table of two pages.             *)
EXTENDS HandleFreeList
=============================================================================
