----------------------------- MODULE MCGovernor -----------------------------
(* The two programs with interchangeable wallets, from an empty ledger. *)
EXTENDS Governor, TLC

Symmetry == Permutations(Wallets)
=============================================================================
