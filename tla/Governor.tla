------------------------------ MODULE Governor ------------------------------
(***************************************************************************)
(* The governor program over delta-mint: one pool, the KYC-wrapped mint    *)
(* its initialize_pool creates, the vault of underlying tokens, and the    *)
(* people around it.  A governor instruction and the cross-program calls   *)
(* it makes are one transaction, hence one action; wallets also call       *)
(* delta-mint and the token program directly, without the governor.        *)
(*                                                                         *)
(* Every account address the programs derive from the pool or the mint is  *)
(* the pool's own, so pools do not interact and one is enough.  The vault  *)
(* of wrap and unwrap is the pool's associated token account, which is     *)
(* what every client of the repository passes.                             *)
(***************************************************************************)
EXTENDS DeltaMint

CONSTANTS Networks,   \* Civic gatekeeper networks
          NoNetwork,  \* Pubkey::default() as a network: self-registration is off
          Markets,    \* klend market and reserve addresses that can be registered
          NoMarket,   \* the zeroed addresses of a new PoolConfig
          Endowment   \* underlying units each wallet starts with

ASSUME GovernorAssumption ==
    /\ NoNetwork \notin Networks
    /\ NoMarket \notin Markets
    /\ Endowment \in Nat

VARIABLES
    pool_layout,     \* layout of the PoolConfig account: "absent", "v1", "v2"
    pool_authority,  \* PoolConfig.authority, the root
    status,          \* PoolConfig.status
    lending_market,  \* PoolConfig.lending_market and its two reserves
    gatekeeper,      \* PoolConfig.gatekeeper_network
    admins,          \* wallets that have an AdminEntry account
    passes,          \* <<wallet, network>>: valid, unexpired Civic gateway tokens
    vault,           \* underlying units in the pool's vault
    underlying       \* wallet -> underlying units it holds

poolConfig == <<pool_layout, pool_authority, status, lending_market, gatekeeper>>
poolVars == <<poolConfig, admins, passes>>
cash == <<vault, underlying>>
vars == <<layout, rent_covered, authority, co_authority, total_whitelisted,
          entry, supply, balance, pool_layout, pool_authority, status,
          lending_market, gatekeeper, admins, passes, vault, underlying>>

PoolStatus == {"Initializing", "Active", "Frozen"}

TypeOK ==
    /\ DMTypeOK
    /\ pool_layout \in {"absent", "v1", "v2"}
    /\ pool_authority \in Wallets \cup {NoKey}
    /\ status \in PoolStatus
    /\ lending_market \in Markets \cup {NoMarket}
    /\ gatekeeper \in Networks \cup {NoNetwork}
    /\ admins \subseteq Wallets
    /\ passes \subseteq Wallets \X Networks
    /\ vault \in Nat
    /\ underlying \in [Wallets -> Nat]

-----------------------------------------------------------------------------
(* Account contexts *)

\* Account<PoolConfig> reads gatekeeper_network too: a v1 account is refused.
PoolDeserializes == pool_layout = "v2"

\* RootOnly: has_one = authority
RootSigns(s) == PoolDeserializes /\ s = pool_authority

\* Root, or the owner of an AdminEntry of this pool.
is_authorized(s) == PoolDeserializes /\ (s = pool_authority \/ s \in admins)

-----------------------------------------------------------------------------
(* Pool administration *)

\* The deployer becomes the pool's root and delta-mint's authority.
initialize_pool(s) ==
    /\ pool_layout = "absent"
    /\ pool_layout' = "v2" /\ pool_authority' = s
    /\ status' = "Initializing" /\ lending_market' = NoMarket
    /\ gatekeeper' = NoNetwork
    /\ initialize_mint(s)
    /\ UNCHANGED <<admins, passes, cash>>

register_lending_market(s, m) ==
    /\ RootSigns(s)
    /\ status = "Initializing"
    /\ lending_market' = m /\ status' = "Active"
    /\ UNCHANGED <<dmVars, pool_layout, pool_authority, gatekeeper, admins, passes, cash>>

\* Any status to any status.
set_pool_status(s, st) ==
    /\ RootSigns(s)
    /\ status' = st
    /\ UNCHANGED <<dmVars, pool_layout, pool_authority, lending_market, gatekeeper,
                   admins, passes, cash>>

add_admin(s, a) ==
    /\ RootSigns(s)
    /\ a \notin admins
    /\ admins' = admins \cup {a}
    /\ UNCHANGED <<dmVars, poolConfig, passes, cash>>

remove_admin(s, a) ==
    /\ RootSigns(s)
    /\ a \in admins
    /\ admins' = admins \ {a}
    /\ UNCHANGED <<dmVars, poolConfig, passes, cash>>

\* The account is read by hand and reallocated when it is a v1 account; the
\* signer is a wallet, so the rent transfer succeeds.
set_gatekeeper_network(s, net) ==
    /\ pool_layout \in {"v1", "v2"}
    /\ s = pool_authority
    /\ pool_layout' = "v2" /\ gatekeeper' = net
    /\ UNCHANGED <<dmVars, pool_authority, status, lending_market, admins, passes, cash>>

-----------------------------------------------------------------------------
(* Whitelisting *)

\* The caller signs delta-mint's instruction too: an authorized caller that
\* is not delta-mint's authority is refused there.
add_participant(s, w, role) ==
    /\ is_authorized(s)
    /\ \/ role = "Holder" /\ add_to_whitelist(s, w)
       \/ role = "Liquidator" /\ add_liquidator(s, w)
    /\ UNCHANGED <<poolVars, cash>>

\* The pool PDA signs as co-authority; both roles take the same path.
add_participant_via_pool(s, w, role) ==
    /\ is_authorized(s)
    /\ role \in Roles
    /\ add_to_whitelist_with_co_authority(Pool, w)
    /\ UNCHANGED <<poolVars, cash>>

self_register(u) ==
    /\ PoolDeserializes
    /\ gatekeeper # NoNetwork
    /\ <<u, gatekeeper>> \in passes
    /\ add_to_whitelist_with_co_authority(Pool, u)
    /\ UNCHANGED <<poolVars, cash>>

-----------------------------------------------------------------------------
(* Handover of the mint to the pool *)

Mutant_activate_wrapping_ToRoot(s) ==
    /\ RootSigns(s)
    /\ HasAuthority(s)
    /\ authority' = Pool
    /\ UNCHANGED <<layout, rent_covered, co_authority, whitelist, token, poolVars, cash>>

\* Root, who must also be delta-mint's authority, hands it to the pool PDA.
activate_wrapping(s) ==
    /\ RootSigns(s)
    /\ transfer_authority(s, Pool)
    /\ UNCHANGED <<poolVars, cash>>

Mutant_fix_co_authority_ToCaller(s) ==
    /\ RootSigns(s)
    /\ set_co_authority(Pool, s)
    /\ UNCHANGED <<poolVars, cash>>

\* The pool PDA signs set_co_authority as delta-mint's authority.
fix_co_authority(s) ==
    /\ RootSigns(s)
    /\ set_co_authority(Pool, Pool)
    /\ UNCHANGED <<poolVars, cash>>

-----------------------------------------------------------------------------
(* Issuing, wrapping, unwrapping *)

\* w presents the entry, d the destination account.
mint_wrapped(s, w, d, n) ==
    /\ is_authorized(s)
    /\ status = "Active"
    /\ mint_to(s, w, d, n)
    /\ UNCHANGED <<poolVars, cash>>

Mutant_wrap_NoDeposit(u, w, d, n) ==
    /\ PoolDeserializes
    /\ status = "Active"
    /\ n \in 1 .. underlying[u]
    /\ mint_to(Pool, w, d, n)
    /\ UNCHANGED <<poolVars, cash>>

Mutant_wrap_AnyStatus(u, w, d, n) ==
    /\ PoolDeserializes
    /\ n \in 1 .. underlying[u]
    /\ vault' = vault + n
    /\ underlying' = [underlying EXCEPT ![u] = @ - n]
    /\ mint_to(Pool, w, d, n)
    /\ UNCHANGED poolVars

\* u pays n into the vault and the pool PDA issues n to d against w's entry.
wrap(u, w, d, n) ==
    /\ PoolDeserializes
    /\ status = "Active"
    /\ n \in 1 .. underlying[u]
    /\ vault' = vault + n
    /\ underlying' = [underlying EXCEPT ![u] = @ - n]
    /\ mint_to(Pool, w, d, n)
    /\ UNCHANGED poolVars

Mutant_unwrap_Overdraws(u, d, n) ==
    /\ PoolDeserializes
    /\ status = "Active"
    /\ TokenBurn(u, n)
    /\ vault' = vault - n
    /\ underlying' = [underlying EXCEPT ![d] = @ + n]
    /\ UNCHANGED poolVars

\* u burns n of its units and d receives n from the vault.  No whitelist
\* entry is looked at, and delta-mint's authority does not matter.
unwrap(u, d, n) ==
    /\ PoolDeserializes
    /\ status = "Active"
    /\ n \in 1 .. vault
    /\ TokenBurn(u, n)
    /\ vault' = vault - n
    /\ underlying' = [underlying EXCEPT ![d] = @ + n]
    /\ UNCHANGED poolVars

-----------------------------------------------------------------------------
(* The world around the two programs *)

\* The Civic network issues a gateway token, or it expires or is revoked.
ChangePass(u, net) ==
    /\ \/ passes' = passes \cup {<<u, net>>}
       \/ passes' = passes \ {<<u, net>>}
    /\ UNCHANGED <<dmVars, poolConfig, admins, cash>>

\* Anyone can send underlying tokens to the vault.
DonateUnderlying(u, n) ==
    /\ n \in 1 .. underlying[u]
    /\ vault' = vault + n
    /\ underlying' = [underlying EXCEPT ![u] = @ - n]
    /\ UNCHANGED <<dmVars, poolVars>>

\* delta-mint and the token program, called directly.
DirectCall ==
    /\ (\E s \in Wallets : Administer(s)) \/ TokenStep
    /\ UNCHANGED <<poolVars, cash>>

-----------------------------------------------------------------------------
Init ==
    /\ NoMint
    /\ pool_layout = "absent" /\ pool_authority = NoKey
    /\ status = "Initializing" /\ lending_market = NoMarket
    /\ gatekeeper = NoNetwork
    /\ admins = {} /\ passes = {}
    /\ vault = 0 /\ underlying = [w \in Wallets |-> Endowment]

PoolStep(s) ==
    \/ initialize_pool(s)
    \/ \E m \in Markets : register_lending_market(s, m)
    \/ \E st \in PoolStatus : set_pool_status(s, st)
    \/ \E a \in Wallets : add_admin(s, a) \/ remove_admin(s, a)
    \/ \E net \in Networks \cup {NoNetwork} : set_gatekeeper_network(s, net)
    \/ activate_wrapping(s)
    \/ fix_co_authority(s)

ListStep(s) ==
    \/ \E w \in Wallets, role \in Roles :
          add_participant(s, w, role) \/ add_participant_via_pool(s, w, role)
    \/ self_register(s)

TradeStep(s) ==
    \/ \E w, d \in Wallets, n \in Amounts : mint_wrapped(s, w, d, n) \/ wrap(s, w, d, n)
    \/ \E d \in Wallets, n \in Amounts : unwrap(s, d, n)
    \/ \E n \in Amounts : DonateUnderlying(s, n)

Next ==
    \/ \E s \in Wallets : PoolStep(s) \/ ListStep(s) \/ TradeStep(s)
    \/ \E s \in Wallets, net \in Networks : ChangePass(s, net)
    \/ DirectCall

Spec == Init /\ [][Next]_vars

-----------------------------------------------------------------------------
(* Properties *)

\* Wrapping is activated: the pool PDA is delta-mint's authority.
Activated == authority = Pool

\* A pool whose wrapping is activated can whitelist through its PDA: whatever
\* wallets did to the two keys before, activation leaves both with the pool,
\* and nothing the governor does afterwards separates them.
PoolHoldsBothKeys == Activated => co_authority = Pool

\* Activation is for good: no sequence of governor, delta-mint or token
\* instructions takes the mint authority back from the pool PDA.
ActivationIsFinal == [][Activated => authority' = Pool]_vars

\* Listing is for good once wrapping is activated: only the authority removes
\* an entry, the pool PDA never signs a removal, so no approval can be
\* revoked and no role changed.
ListingIsFinal ==
    [][Activated => \A w \in Listed : entry'[w] = entry[w]]_vars

\* After activation every unit that enters circulation is matched by a unit
\* of underlying entering the vault, and the vault pays out only against
\* units destroyed: the shortfall of the vault never grows, and none appears.
ActivatedSupplyIsBacked ==
    [][Activated => supply' + vault <= supply + vault']_vars

\* Freezing an activated pool (or never registering its market) stops both
\* flows: nothing is issued and nothing leaves the vault.
ClosedPoolIsQuiet ==
    [][Activated /\ status # "Active" => supply' <= supply /\ vault' >= vault]_vars

\* Whoever unwraps is on the whitelist at that moment.
UnwrapNeedsEntry ==
    [][\A u, d \in Wallets, n \in Amounts :
          unwrap(u, d, n) => entry[u] # "None"]_vars

\* Governor and delta-mint together implement the abstract wrapped token.
Promise == INSTANCE WrappedToken WITH
    Members <- Wallets, MaxUnits <- MaxAmount,
    phase <- IF Activated THEN "activated" ELSE "managed",
    open <- status = "Active",
    admitted <- Listed, issued <- supply, reserve <- vault

KeepsPromise == Promise!WTSpec

=============================================================================
