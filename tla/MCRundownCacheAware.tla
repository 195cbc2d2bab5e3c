------------------------ MODULE MCRundownCacheAware ------------------------
(* Instances of RundownCacheAware for TLC: threads and references are      *)
(* model values.  There is no symmetry: the runs check liveness too.       *)
EXTENDS RundownCacheAware, TLC
=============================================================================
