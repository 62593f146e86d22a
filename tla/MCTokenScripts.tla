--------------------------- MODULE MCTokenScripts ---------------------------
(* The operator's scripts with one other wallet; liveness admits no symmetry. *)
EXTENDS TokenScripts
=============================================================================
