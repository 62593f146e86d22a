---------------------------- MODULE MCTradeDesk ----------------------------
(* Two operators, two feeds, two raw accounts, two tabs. *)
EXTENDS TradeDesk, TLC

CONSTANTS op1, op2, usdy, usdc, raw1, raw2

MCOperators == {op1, op2}
MCLabels == {usdy, usdc}
MCRaw == {raw1, raw2}
MCTabs == {"left", "right"}
MCSymmetry == Permutations(MCLabels) \cup Permutations(MCRaw)
=============================================================================
