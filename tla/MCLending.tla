----------------------------- MODULE MCLending -----------------------------
(* Two collateral reserves on different terms, small amounts. *)
EXTENDS Lending, TLC

CONSTANTS deUSX, dtUSDY, sUSDC

MCCollateral == {deUSX, dtUSDY}
MCLtv == deUSX :> 75 @@ dtUSDY :> 60
MCThreshold == deUSX :> 100 @@ dtUSDY :> 80
Holding(a, b, d) == [exists |-> TRUE, deposits |-> deUSX :> a @@ dtUSDY :> b, debt |-> d]
MCPositions == {Holding(2, 0, 0), Holding(2, 1, 1), Holding(0, 3, 1)}
MCWallet == [t \in Tokens |-> CASE t = deUSX -> 2 [] t = sUSDC -> 0 [] t = "usdc_in" -> 1
                              [] t \in {"usx", "eusx"} -> 0 [] OTHER -> 2]
=============================================================================
