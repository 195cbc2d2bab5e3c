------------------------------- MODULE MCHive -------------------------------
(* The instance of Hive for TLC. *)
EXTENDS Hive
=============================================================================
