----------------------------- MODULE MCEdgeKyc -----------------------------
(* The edge worker with distinct requests: liveness admits no symmetry. *)
EXTENDS EdgeKyc
=============================================================================
