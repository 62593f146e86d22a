------------------------------ MODULE DeltaMint ------------------------------
(***************************************************************************)
(* The delta-mint program: the mint configuration of one KYC-wrapped       *)
(* Token-2022 mint, its whitelist, and the supply it issues.  Each handler *)
(* is one action that takes the signer s of the instruction first; a       *)
(* handler whose constraints fail aborts its transaction and changes       *)
(* nothing, so it is simply not enabled.                                   *)
(* Operators named Mutant_* are faulty variants of the handler that        *)
(* follows them; no specification uses them.                               *)
(***************************************************************************)
EXTENDS Naturals, FiniteSets

CONSTANTS Wallets,    \* keys of people, bots and operators: they sign for themselves
          Pool,       \* the governor's pool PDA: it signs only in the governor's CPIs
          NoKey,      \* Pubkey::default(), for which nobody signs
          MaxAmount   \* u64::MAX of the token program

ASSUME DeltaMintAssumption ==
    /\ IsFiniteSet(Wallets)
    /\ Pool \notin Wallets
    /\ NoKey \notin Wallets \cup {Pool}
    /\ MaxAmount \in Nat

VARIABLES
    layout,             \* layout of the MintConfig account: "absent", "v1" (83 bytes), "v2" (115)
    rent_covered,       \* its lamports pay for the v2 size
    authority,          \* MintConfig.authority
    co_authority,       \* MintConfig.co_authority
    total_whitelisted,  \* MintConfig.total_whitelisted
    entry,              \* wallet -> role of its WhitelistEntry account, "None" without one
    supply,             \* supply of the Token-2022 mint
    balance             \* wallet -> units of it in its token account

config == <<layout, rent_covered, authority, co_authority>>
whitelist == <<total_whitelisted, entry>>
token == <<supply, balance>>
dmVars == <<layout, rent_covered, authority, co_authority,
            total_whitelisted, entry, supply, balance>>

Roles == {"Holder", "Liquidator"}
Signers == Wallets \cup {Pool}
Keys == Signers \cup {NoKey}
Amounts == 0 .. MaxAmount

\* The wallets that have a WhitelistEntry account.
Listed == {w \in Wallets : entry[w] # "None"}

DMTypeOK ==
    /\ layout \in {"absent", "v1", "v2"}
    /\ rent_covered \in BOOLEAN
    /\ authority \in Keys
    /\ co_authority \in Keys
    /\ total_whitelisted \in Nat
    /\ entry \in [Wallets -> Roles \cup {"None"}]
    /\ supply \in Amounts
    /\ balance \in [Wallets -> Nat]

\* No mint yet.
NoMint ==
    /\ layout = "absent" /\ rent_covered = FALSE
    /\ authority = NoKey /\ co_authority = NoKey
    /\ total_whitelisted = 0 /\ entry = [w \in Wallets |-> "None"]
    /\ supply = 0 /\ balance = [w \in Wallets |-> 0]

\* A mint left by the program's first version, whose MintConfig ends before
\* co_authority: some authority a, some wallets listed.
LegacyMint(a) ==
    /\ layout = "v1" /\ rent_covered = FALSE
    /\ authority = a /\ co_authority = NoKey
    /\ entry \in [Wallets -> Roles \cup {"None"}]
    /\ total_whitelisted = Cardinality(Listed)
    /\ supply = 0 /\ balance = [w \in Wallets |-> 0]

-----------------------------------------------------------------------------
(* Account contexts: what Anchor checks before a handler runs *)

\* Account<MintConfig> reads all 115 bytes; an 83-byte account is refused.
Deserializes == layout = "v2"

\* #[account(mut, has_one = authority)] mint_config
HasAuthority(s) == Deserializes /\ authority = s

\* `init` creates the entry's PDA: it fails when the account exists.
CanCreate(w) == entry[w] = "None"

\* mint_config.co_authority == co_authority.key()
HasCoAuthority(s) == Deserializes /\ co_authority = s

-----------------------------------------------------------------------------
(* Handlers *)

\* The authority signs and pays; mint and config are created together.
initialize_mint(s) ==
    /\ layout = "absent"
    /\ layout' = "v2" /\ rent_covered' = TRUE
    /\ authority' = s /\ co_authority' = NoKey
    /\ total_whitelisted' = 0
    /\ UNCHANGED <<entry, token>>

\* The new entry and the counter, as every add handler writes them.
AddEntry(w, role) ==
    /\ entry' = [entry EXCEPT ![w] = role]
    /\ total_whitelisted' = total_whitelisted + 1
    /\ UNCHANGED <<config, token>>

add_to_whitelist(s, w) ==
    /\ HasAuthority(s)
    /\ CanCreate(w)
    /\ AddEntry(w, "Holder")

add_liquidator(s, w) ==
    /\ HasAuthority(s)
    /\ CanCreate(w)
    /\ AddEntry(w, "Liquidator")

\* Whichever role the caller had in mind, the entry is a Holder's.
add_to_whitelist_with_co_authority(s, w) ==
    /\ HasCoAuthority(s)
    /\ CanCreate(w)
    /\ AddEntry(w, "Holder")

Mutant_remove_from_whitelist_Uncounted(s, w) ==
    /\ HasAuthority(s)
    /\ entry[w] # "None"
    /\ entry' = [entry EXCEPT ![w] = "None"]
    /\ UNCHANGED <<total_whitelisted, config, token>>

Mutant_remove_from_whitelist_AnyCaller(s, w) ==
    /\ Deserializes
    /\ entry[w] # "None"
    /\ entry' = [entry EXCEPT ![w] = "None"]
    /\ total_whitelisted' = IF total_whitelisted > 0 THEN total_whitelisted - 1 ELSE 0
    /\ UNCHANGED <<config, token>>

\* Closes the entry; the counter saturates at zero.
remove_from_whitelist(s, w) ==
    /\ HasAuthority(s)
    /\ entry[w] # "None"
    /\ entry' = [entry EXCEPT ![w] = "None"]
    /\ total_whitelisted' = IF total_whitelisted > 0 THEN total_whitelisted - 1 ELSE 0
    /\ UNCHANGED <<config, token>>

\* Both authorities move together.
transfer_authority(s, new_authority) ==
    /\ HasAuthority(s)
    /\ authority' = new_authority /\ co_authority' = new_authority
    /\ UNCHANGED <<layout, rent_covered, whitelist, token>>

\* The system program debits only an account that carries no data: a wallet
\* can pay the missing rent, the pool PDA cannot.
RentTransferSucceeds(s) == s \in Wallets

\* The account is read by hand, so both layouts are accepted; a v1 account is
\* reallocated first, at the signer's expense when its lamports fall short.
set_co_authority(s, key) ==
    /\ layout \in {"v1", "v2"}
    /\ authority = s
    /\ (layout = "v1" /\ ~rent_covered) => RentTransferSucceeds(s)
    /\ layout' = "v2" /\ rent_covered' = TRUE
    /\ co_authority' = key
    /\ UNCHANGED <<authority, whitelist, token>>

Mutant_mint_to_Unbounded(s, w, d, n) ==
    /\ HasAuthority(s)
    /\ entry[w] = "Holder"
    /\ n > 0
    /\ supply' = supply + n
    /\ balance' = [balance EXCEPT ![d] = @ + n]
    /\ UNCHANGED <<config, whitelist>>

\* w owns the whitelist entry presented, d the destination account; the code
\* does not tie the one to the other.  An entry exists only while approved.
mint_to(s, w, d, n) ==
    /\ HasAuthority(s)
    /\ entry[w] = "Holder"
    /\ n > 0
    /\ supply + n \in Amounts          \* the token program's checked_add
    /\ supply' = supply + n
    /\ balance' = [balance EXCEPT ![d] = @ + n]
    /\ UNCHANGED <<config, whitelist>>

-----------------------------------------------------------------------------
(* Token-2022 and the system program, called without delta-mint *)

\* The mint has no transfer hook: any holder sends to any account.
TokenTransfer(f, t, n) ==
    /\ f # t
    /\ n \in 1 .. balance[f]
    /\ balance' = [balance EXCEPT ![f] = @ - n, ![t] = @ + n]
    /\ UNCHANGED <<supply, config, whitelist>>

TokenBurn(f, n) ==
    /\ n \in 1 .. balance[f]
    /\ n <= supply                     \* the token program's checked_sub
    /\ supply' = supply - n
    /\ balance' = [balance EXCEPT ![f] = @ - n]
    /\ UNCHANGED <<config, whitelist>>

\* Anyone may send lamports to the config account.
FundConfig ==
    /\ layout = "v1" /\ ~rent_covered
    /\ rent_covered' = TRUE
    /\ UNCHANGED <<layout, authority, co_authority, whitelist, token>>

-----------------------------------------------------------------------------
(* delta-mint by itself: any signer calls any handler *)

DMInit == NoMint \/ \E a \in Signers : LegacyMint(a)

\* Everything signer s can ask of an existing mint.
Administer(s) ==
    \/ \E w \in Wallets :
          \/ add_to_whitelist(s, w)
          \/ add_liquidator(s, w)
          \/ add_to_whitelist_with_co_authority(s, w)
          \/ remove_from_whitelist(s, w)
    \/ \E k \in Signers : transfer_authority(s, k)
    \/ \E k \in Keys : set_co_authority(s, k)
    \/ \E w, d \in Wallets, n \in Amounts : mint_to(s, w, d, n)

TokenStep ==
    \/ \E f, t \in Wallets, n \in Amounts : TokenTransfer(f, t, n)
    \/ \E f \in Wallets, n \in Amounts : TokenBurn(f, n)
    \/ FundConfig

DMNext == (\E s \in Signers : initialize_mint(s) \/ Administer(s)) \/ TokenStep

DMSpec == DMInit /\ [][DMNext]_dmVars

-----------------------------------------------------------------------------
(* Properties *)

\* total_whitelisted is the number of whitelist accounts that exist: no
\* sequence of additions and removals loses count, and the saturating
\* subtraction of remove_from_whitelist never saturates.
CountMatchesEntries == total_whitelisted = Cardinality(Listed)

\* A wallet's role is never rewritten in place: an entry must be removed
\* before the wallet is listed again, in the same or the other role.
RoleIsNeverRewritten ==
    [][\A w \in Wallets :
          entry[w] # "None" /\ entry'[w] # "None" => entry'[w] = entry[w]]_dmVars

\* A mint config of the first version is inert: until set_co_authority has
\* migrated it nobody is listed or removed, nothing is issued, and its
\* authority stays.
LegacyIsInert ==
    [][layout = "v1" =>
          /\ entry' = entry /\ total_whitelisted' = total_whitelisted
          /\ authority' = authority
          /\ supply' <= supply]_dmVars

=============================================================================
