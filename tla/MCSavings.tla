----------------------------- MODULE MCSavings -----------------------------
(* A reserve partly lent, two tabs, a few units of USDC. *)
EXTENDS Savings

MCTabs == {"main", "second"}
=============================================================================
