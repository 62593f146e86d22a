---------------------------- MODULE WrappedToken ----------------------------
(***************************************************************************)
(* What a KYC-wrapped token promises, with the accounts, keys and programs *)
(* that keep the promise left out.  While the token is "managed" its       *)
(* operator admits, revokes and issues freely.  Once it is "activated"     *)
(* admission is for good, and units enter circulation only as the          *)
(* underlying enters the reserve, unit for unit.                           *)
(***************************************************************************)
EXTENDS Naturals

CONSTANTS Members,   \* the wallets that may be admitted
          MaxUnits   \* the largest supply

VARIABLES phase,     \* "managed" or "activated"
          open,      \* deposits and redemptions are accepted
          admitted,  \* the wallets on the whitelist
          issued,    \* units in circulation
          reserve    \* units of the underlying held against them

wtVars == <<phase, open, admitted, issued, reserve>>
Units == 1 .. MaxUnits

WTInit ==
    /\ phase = "managed" /\ open = FALSE
    /\ admitted = {} /\ issued = 0 /\ reserve = 0

Admit(w) ==
    /\ w \notin admitted
    /\ admitted' = admitted \cup {w}
    /\ UNCHANGED <<phase, open, issued, reserve>>

Revoke(w) ==
    /\ phase = "managed"
    /\ w \in admitted
    /\ admitted' = admitted \ {w}
    /\ UNCHANGED <<phase, open, issued, reserve>>

\* Units nothing stands behind, which only the operator can issue.
Issue(n) ==
    /\ phase = "managed"
    /\ admitted # {}
    /\ issued' = issued + n
    /\ UNCHANGED <<phase, open, admitted, reserve>>

Activate ==
    /\ phase = "managed"
    /\ phase' = "activated"
    /\ UNCHANGED <<open, admitted, issued, reserve>>

SetOpen ==
    /\ open' \in BOOLEAN
    /\ UNCHANGED <<phase, admitted, issued, reserve>>

Deposit(n) ==
    /\ phase = "activated"
    /\ open
    /\ admitted # {}
    /\ issued' = issued + n /\ reserve' = reserve + n
    /\ UNCHANGED <<phase, open, admitted>>

Redeem(n) ==
    /\ open
    /\ n <= issued /\ n <= reserve
    /\ issued' = issued - n /\ reserve' = reserve - n
    /\ UNCHANGED <<phase, open, admitted>>

\* A holder destroys units, or someone adds to the reserve, for nothing.
Burn(n) ==
    /\ n <= issued
    /\ issued' = issued - n
    /\ UNCHANGED <<phase, open, admitted, reserve>>

Donate(n) ==
    /\ reserve' = reserve + n
    /\ UNCHANGED <<phase, open, admitted, issued>>

WTNext ==
    \/ \E w \in Members : Admit(w) \/ Revoke(w)
    \/ Activate \/ SetOpen
    \/ \E n \in Units : Issue(n) \/ Deposit(n) \/ Redeem(n) \/ Burn(n) \/ Donate(n)

WTSpec == WTInit /\ [][WTNext]_wtVars
=============================================================================
