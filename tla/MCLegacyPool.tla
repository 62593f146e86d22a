---------------------------- MODULE MCLegacyPool ----------------------------
(* The legacy pool with distinct wallets: liveness admits no symmetry. *)
EXTENDS LegacyPool
=============================================================================
