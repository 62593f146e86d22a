---------------------------- MODULE MCKycService ----------------------------
(* The backend with interchangeable mints and request slots. *)
EXTENDS KycService, TLC

\* Approvals of different wallets share nothing but the identities, and one
\* lost transaction at a time is enough to overtake a retry.
OneTargetOneAdrift ==
    /\ Cardinality({target[c] : c \in Calls} \ {NoWallet}) <= 1
    /\ Cardinality(adrift) <= 1

Symmetry == Permutations(Mints) \cup Permutations(Calls)
=============================================================================
