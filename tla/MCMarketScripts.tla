-------------------------- MODULE MCMarketScripts --------------------------
(* Two runs of scripts that create accounts, in any order, with one fault. *)
EXTENDS MarketScripts
=============================================================================
