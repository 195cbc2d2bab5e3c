----------------------------- MODULE MCRundown -----------------------------
(* Instances of RundownProtection for TLC: threads and references are      *)
(* model values.  There is no symmetry: the runs check liveness too.       *)
EXTENDS RundownProtection, TLC
=============================================================================
