---------------------------- MODULE MCEdgeAudit ----------------------------
(* The audit log with interchangeable requests. *)
EXTENDS EdgeAudit, TLC

Symmetry == Permutations(Requests)
=============================================================================
