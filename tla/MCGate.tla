------------------------------- MODULE MCGate -------------------------------
(* The authority and another wallet in one tab. *)
EXTENDS Gate

CONSTANTS root, user

MCWallets == {root, user}
=============================================================================
