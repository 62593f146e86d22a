--------------------------- MODULE GovernorProofs ---------------------------
(***************************************************************************)
(* Theorems about delta-mint alone and about the governor over delta-mint, *)
(* for every set of wallets, every MaxAmount and every Endowment.  What a  *)
(* governor step does to delta-mint's accounts is first reduced to         *)
(* MintStep, so that the arguments about keys and entries are made once.   *)
(***************************************************************************)
EXTENDS Governor, FiniteSetTheorems, TLAPS

-----------------------------------------------------------------------------
(* delta-mint alone *)

\* Type correctness: whatever state delta-mint starts in and whoever signs,
\* its accounts and the token's books stay well formed.
LEMMA DMInitTypeOK == DMInit => DMTypeOK
  <1> SUFFICES ASSUME DMInit PROVE DMTypeOK
    OBVIOUS
  <1> USE DeltaMintAssumption DEF DeltaMintAssumption
  <1>1. 0 \in Amounts
    BY DEF Amounts
  <1>2. CASE NoMint
    BY <1>1, <1>2 DEF NoMint, DMTypeOK, Keys
  <1>3. ASSUME NEW a \in Signers, LegacyMint(a)
        PROVE  DMTypeOK
    <2>1. Listed \subseteq Wallets
      BY DEF Listed
    <2>2. Cardinality(Listed) \in Nat
      BY <2>1, FS_Subset, FS_CardinalityType
    <2>3. QED
      BY <1>1, <1>3, <2>2 DEF LegacyMint, DMTypeOK, Keys
  <1>4. QED
    BY <1>2, <1>3 DEF DMInit

LEMMA AddEntryTypeOK ==
    ASSUME DMTypeOK, NEW w \in Wallets, NEW role \in Roles, AddEntry(w, role)
    PROVE  DMTypeOK'
  BY DEF DMTypeOK, AddEntry, config, token, Roles

LEMMA MintToTypeOK ==
    ASSUME DMTypeOK, NEW s, NEW w \in Wallets, NEW d \in Wallets, NEW n \in Amounts,
           mint_to(s, w, d, n)
    PROVE  DMTypeOK'
  <1>1. balance' \in [Wallets -> Nat]
    BY DEF mint_to, DMTypeOK, Amounts
  <1>2. supply' \in Amounts
    BY DEF mint_to
  <1>3. QED
    BY <1>1, <1>2 DEF DMTypeOK, mint_to, config, whitelist

LEMMA AdministerTypeOK ==
    ASSUME DMTypeOK, NEW s \in Signers, Administer(s)
    PROVE  DMTypeOK'
  <1>1. ASSUME NEW w \in Wallets,
               \/ add_to_whitelist(s, w) \/ add_liquidator(s, w)
               \/ add_to_whitelist_with_co_authority(s, w)
        PROVE  DMTypeOK'
    <2>1. \E role \in Roles : AddEntry(w, role)
      BY <1>1 DEF add_to_whitelist, add_liquidator,
                  add_to_whitelist_with_co_authority, Roles
    <2>2. QED
      BY <2>1, AddEntryTypeOK
  <1>2. ASSUME NEW w \in Wallets, remove_from_whitelist(s, w)
        PROVE  DMTypeOK'
    BY <1>2 DEF DMTypeOK, remove_from_whitelist, config, token
  <1>3. ASSUME NEW k \in Signers, transfer_authority(s, k)
        PROVE  DMTypeOK'
    BY <1>3 DEF DMTypeOK, transfer_authority, whitelist, token, Keys
  <1>4. ASSUME NEW k \in Keys, set_co_authority(s, k)
        PROVE  DMTypeOK'
    BY <1>4 DEF DMTypeOK, set_co_authority, whitelist, token
  <1>5. ASSUME NEW w \in Wallets, NEW d \in Wallets, NEW n \in Amounts,
               mint_to(s, w, d, n)
        PROVE  DMTypeOK'
    BY <1>5, MintToTypeOK
  <1>6. QED
    BY <1>1, <1>2, <1>3, <1>4, <1>5 DEF Administer

LEMMA TokenStepTypeOK ==
    ASSUME DMTypeOK, TokenStep
    PROVE  DMTypeOK'
  <1> USE DeltaMintAssumption DEF DeltaMintAssumption
  <1>1. ASSUME NEW f \in Wallets, NEW t \in Wallets, NEW n \in Amounts,
               TokenTransfer(f, t, n)
        PROVE  DMTypeOK'
    <2>1. balance[f] - n \in Nat /\ balance[t] + n \in Nat
      BY <1>1 DEF TokenTransfer, DMTypeOK, Amounts
    <2>2. balance' \in [Wallets -> Nat]
      BY <1>1, <2>1 DEF TokenTransfer, DMTypeOK
    <2>3. QED
      BY <1>1, <2>2 DEF TokenTransfer, DMTypeOK, config, whitelist
  <1>2. ASSUME NEW f \in Wallets, NEW n \in Amounts, TokenBurn(f, n)
        PROVE  DMTypeOK'
    <2>1. balance[f] - n \in Nat /\ supply - n \in Amounts
      BY <1>2 DEF TokenBurn, DMTypeOK, Amounts
    <2>2. QED
      BY <1>2, <2>1 DEF TokenBurn, DMTypeOK, config, whitelist
  <1>3. CASE FundConfig
    BY <1>3 DEF FundConfig, DMTypeOK, whitelist, token
  <1>4. QED
    BY <1>1, <1>2, <1>3 DEF TokenStep

LEMMA DMNextTypeOK == DMTypeOK /\ [DMNext]_dmVars => DMTypeOK'
  <1> SUFFICES ASSUME DMTypeOK, [DMNext]_dmVars
               PROVE  DMTypeOK'
    OBVIOUS
  <1>1. ASSUME NEW s \in Signers, initialize_mint(s)
        PROVE  DMTypeOK'
    BY <1>1 DEF initialize_mint, DMTypeOK, token, Keys
  <1>2. CASE UNCHANGED dmVars
    BY <1>2 DEF dmVars, DMTypeOK
  <1>3. QED
    BY <1>1, <1>2, AdministerTypeOK, TokenStepTypeOK DEF DMNext

THEOREM DMTypeCorrect == DMSpec => []DMTypeOK
  <1>1. QED
    BY DMInitTypeOK, DMNextTypeOK, PTL DEF DMSpec

-----------------------------------------------------------------------------
(* The counter: the two ways an entry comes and goes, then each handler *)

LEMMA AddEntryCounts ==
    ASSUME DMTypeOK, CountMatchesEntries,
           NEW w \in Wallets, CanCreate(w), NEW role \in Roles, AddEntry(w, role)
    PROVE  CountMatchesEntries'
  <1>1. Listed \subseteq Wallets /\ IsFiniteSet(Listed)
    BY FS_Subset, DeltaMintAssumption DEF DeltaMintAssumption, Listed
  <1>2. w \notin Listed
    BY DEF CanCreate, Listed
  <1>3. Listed' = Listed \cup {w}
    BY DEF AddEntry, Listed, DMTypeOK, Roles
  <1>4. Cardinality(Listed') = Cardinality(Listed) + 1
    BY <1>1, <1>2, <1>3, FS_AddElement
  <1>5. QED
    BY <1>4 DEF CountMatchesEntries, AddEntry

\* The saturating subtraction never saturates: the entry removed was counted.
LEMMA RemoveCounts ==
    ASSUME DMTypeOK, CountMatchesEntries,
           NEW s, NEW w \in Wallets, remove_from_whitelist(s, w)
    PROVE  CountMatchesEntries'
  <1>1. Listed \subseteq Wallets /\ IsFiniteSet(Listed)
    BY FS_Subset, DeltaMintAssumption DEF DeltaMintAssumption, Listed
  <1>2. w \in Listed
    BY DEF remove_from_whitelist, Listed
  <1>3. Listed' = Listed \ {w}
    BY DEF remove_from_whitelist, Listed, DMTypeOK
  <1>4. Cardinality(Listed') = Cardinality(Listed) - 1
    BY <1>1, <1>2, <1>3, FS_RemoveElement
  <1>5. Cardinality(Listed) # 0
    BY <1>1, <1>2, FS_EmptySet
  <1>6. Cardinality(Listed) \in Nat
    BY <1>1, FS_CardinalityType
  <1>7. QED
    BY <1>4, <1>5, <1>6 DEF CountMatchesEntries, remove_from_whitelist

LEMMA UntouchedCount ==
    ASSUME CountMatchesEntries, entry' = entry, total_whitelisted' = total_whitelisted
    PROVE  CountMatchesEntries'
  <1>1. Listed' = Listed
    BY DEF Listed
  <1>2. QED
    BY <1>1 DEF CountMatchesEntries

\* Before the mint exists nothing is listed, so a new config starts from zero.
AbsentIsEmpty == layout = "absent" => Listed = {}

CountInv == DMTypeOK /\ AbsentIsEmpty /\ CountMatchesEntries

LEMMA DMInitCountInv == DMInit => CountInv
  <1> SUFFICES ASSUME DMInit PROVE CountInv
    OBVIOUS
  <1>1. DMTypeOK
    BY DMInitTypeOK
  <1>2. ASSUME NoMint PROVE AbsentIsEmpty /\ CountMatchesEntries
    <2>1. Listed = {}
      BY <1>2 DEF NoMint, Listed
    <2>2. QED
      BY <1>2, <2>1, FS_EmptySet DEF NoMint, AbsentIsEmpty, CountMatchesEntries
  <1>3. ASSUME NEW a \in Signers, LegacyMint(a)
        PROVE  AbsentIsEmpty /\ CountMatchesEntries
    BY <1>3 DEF LegacyMint, AbsentIsEmpty, CountMatchesEntries
  <1>4. QED
    BY <1>1, <1>2, <1>3 DEF DMInit, CountInv

LEMMA AdministerCounts ==
    ASSUME DMTypeOK, CountMatchesEntries, NEW s \in Signers, Administer(s)
    PROVE  CountMatchesEntries'
  <1>1. ASSUME NEW w \in Wallets,
               \/ add_to_whitelist(s, w) \/ add_liquidator(s, w)
               \/ add_to_whitelist_with_co_authority(s, w)
        PROVE  CountMatchesEntries'
    <2>1. CanCreate(w) /\ \E role \in Roles : AddEntry(w, role)
      BY <1>1 DEF add_to_whitelist, add_liquidator,
                  add_to_whitelist_with_co_authority, Roles
    <2>2. QED
      BY <2>1, AddEntryCounts
  <1>2. ASSUME NEW w \in Wallets, remove_from_whitelist(s, w)
        PROVE  CountMatchesEntries'
    BY <1>2, RemoveCounts
  <1>3. ASSUME \/ \E k \in Signers : transfer_authority(s, k)
               \/ \E k \in Keys : set_co_authority(s, k)
               \/ \E w, d \in Wallets, n \in Amounts : mint_to(s, w, d, n)
        PROVE  CountMatchesEntries'
    <2>1. entry' = entry /\ total_whitelisted' = total_whitelisted
      BY <1>3 DEF transfer_authority, set_co_authority, mint_to, whitelist
    <2>2. QED
      BY <2>1, UntouchedCount
  <1>4. QED
    BY <1>1, <1>2, <1>3 DEF Administer

LEMMA DMNextCountInv == CountInv /\ [DMNext]_dmVars => CountInv'
  <1> SUFFICES ASSUME CountInv, [DMNext]_dmVars
               PROVE  CountInv'
    OBVIOUS
  <1>1. DMTypeOK' /\ DMTypeOK /\ CountMatchesEntries /\ AbsentIsEmpty
    BY DMNextTypeOK DEF CountInv
  <1>2. ASSUME NEW s \in Signers, initialize_mint(s)
        PROVE  AbsentIsEmpty' /\ CountMatchesEntries'
    <2>1. Listed = {} /\ Listed' = Listed
      BY <1>1, <1>2 DEF initialize_mint, AbsentIsEmpty, Listed
    <2>2. QED
      BY <1>2, <2>1, FS_EmptySet DEF initialize_mint, AbsentIsEmpty, CountMatchesEntries
  <1>3. ASSUME NEW s \in Signers, Administer(s)
        PROVE  AbsentIsEmpty' /\ CountMatchesEntries'
    <2>1. CountMatchesEntries'
      BY <1>1, <1>3, AdministerCounts
    <2>2. AbsentIsEmpty'
      BY <1>1, <1>3 DEF Administer, add_to_whitelist, add_liquidator,
         add_to_whitelist_with_co_authority, AddEntry, remove_from_whitelist,
         transfer_authority, set_co_authority, mint_to, HasAuthority, HasCoAuthority,
         Deserializes, config, AbsentIsEmpty
    <2>3. QED
      BY <2>1, <2>2
  <1>4. ASSUME TokenStep \/ UNCHANGED dmVars
        PROVE  AbsentIsEmpty' /\ CountMatchesEntries'
    <2>1. entry' = entry /\ total_whitelisted' = total_whitelisted /\ layout' = layout
      BY <1>4 DEF TokenStep, TokenTransfer, TokenBurn, FundConfig, whitelist, config, dmVars
    <2>2. Listed' = Listed
      BY <2>1 DEF Listed
    <2>3. QED
      BY <1>1, <2>1, <2>2, UntouchedCount DEF AbsentIsEmpty
  <1>5. QED
    BY <1>1, <1>2, <1>3, <1>4 DEF DMNext, CountInv

\* The whitelist counter is exact in every reachable state.
THEOREM DMCountCorrect == DMSpec => []CountMatchesEntries
  <1>1. CountInv => CountMatchesEntries
    BY DEF CountInv
  <1>2. QED
    BY DMInitCountInv, DMNextCountInv, <1>1, PTL DEF DMSpec

-----------------------------------------------------------------------------
(* What a step never does *)

LEMMA RoleStep ==
    ASSUME DMTypeOK, [DMNext]_dmVars,
           NEW v \in Wallets, entry[v] # "None", entry'[v] # "None"
    PROVE  entry'[v] = entry[v]
  <1>1. ASSUME NEW w \in Wallets, CanCreate(w), NEW role \in Roles, AddEntry(w, role)
        PROVE  entry'[v] = entry[v]
    BY <1>1 DEF CanCreate, AddEntry, DMTypeOK
  <1>2. ASSUME NEW s \in Signers, Administer(s)
        PROVE  entry'[v] = entry[v]
    <2>1. ASSUME NEW w \in Wallets,
                 \/ add_to_whitelist(s, w) \/ add_liquidator(s, w)
                 \/ add_to_whitelist_with_co_authority(s, w)
          PROVE  entry'[v] = entry[v]
      BY <2>1, <1>1 DEF add_to_whitelist, add_liquidator,
                        add_to_whitelist_with_co_authority, Roles
    <2>2. ASSUME NEW w \in Wallets, remove_from_whitelist(s, w)
          PROVE  entry'[v] = entry[v]
      BY <2>2 DEF remove_from_whitelist, DMTypeOK
    <2>3. QED
      BY <1>2, <2>1, <2>2
         DEF Administer, transfer_authority, set_co_authority, mint_to, whitelist
  <1>3. QED
    BY <1>2 DEF DMNext, initialize_mint, TokenStep, TokenTransfer, TokenBurn,
                FundConfig, whitelist, dmVars

\* No step rewrites a role in place.
THEOREM DMRoleNeverRewritten == DMSpec => RoleIsNeverRewritten
  <1>1. DMTypeOK /\ [DMNext]_dmVars =>
        [\A w \in Wallets :
          entry[w] # "None" /\ entry'[w] # "None" => entry'[w] = entry[w]]_dmVars
    BY RoleStep
  <1>2. QED
    BY DMInitTypeOK, DMNextTypeOK, <1>1, PTL DEF DMSpec, RoleIsNeverRewritten

\* A first-version config stays inert until set_co_authority migrates it.
THEOREM DMLegacyInert == DMSpec => LegacyIsInert
  <1> DEFINE Inert == layout = "v1" =>
          /\ entry' = entry /\ total_whitelisted' = total_whitelisted
          /\ authority' = authority
          /\ supply' <= supply
  <1>1. DMTypeOK /\ [DMNext]_dmVars => [Inert]_dmVars
    <2> SUFFICES ASSUME DMTypeOK, DMNext, layout = "v1"
                 PROVE  /\ entry' = entry /\ total_whitelisted' = total_whitelisted
                        /\ authority' = authority
                        /\ supply' <= supply
      OBVIOUS
    <2>1. supply \in Nat
      BY DEF DMTypeOK, Amounts
    <2>2. ASSUME NEW s \in Signers, Administer(s)
          PROVE  \E k \in Keys : set_co_authority(s, k)
      BY <2>2 DEF Administer, add_to_whitelist, add_liquidator,
         add_to_whitelist_with_co_authority, remove_from_whitelist,
         transfer_authority, mint_to, HasAuthority, HasCoAuthority, Deserializes
    <2>3. ASSUME NEW s \in Signers, NEW k \in Keys, set_co_authority(s, k)
          PROVE  entry' = entry /\ total_whitelisted' = total_whitelisted
                 /\ authority' = authority /\ supply' = supply
      BY <2>3 DEF set_co_authority, whitelist, token
    <2>4. ASSUME TokenStep
          PROVE  entry' = entry /\ total_whitelisted' = total_whitelisted
                 /\ authority' = authority /\ supply' <= supply
      BY <2>1, <2>4 DEF TokenStep, TokenTransfer, TokenBurn, FundConfig, Amounts,
                  whitelist, config, token
    <2>5. QED
      BY <2>1, <2>2, <2>3, <2>4 DEF DMNext, initialize_mint
  <1>2. QED
    BY DMInitTypeOK, DMNextTypeOK, <1>1, PTL DEF DMSpec, LegacyIsInert

-----------------------------------------------------------------------------
(* delta-mint's view of a governor step *)

\* The instructions the pool PDA ever signs.
PoolCall ==
    \/ \E w \in Wallets : add_to_whitelist_with_co_authority(Pool, w)
    \/ set_co_authority(Pool, Pool)
    \/ \E w, d \in Wallets, n \in Amounts : mint_to(Pool, w, d, n)

MintStep ==
    \/ \E s \in Wallets : initialize_mint(s) \/ Administer(s)
    \/ PoolCall
    \/ TokenStep
    \/ UNCHANGED dmVars

LEMMA PoolStepMintStep ==
    ASSUME NEW s \in Wallets, PoolStep(s)
    PROVE  MintStep
  <1>1. ASSUME initialize_pool(s) PROVE MintStep
    BY <1>1 DEF initialize_pool, MintStep
  <1>2. ASSUME activate_wrapping(s) PROVE MintStep
    BY <1>2 DEF activate_wrapping, MintStep, Administer, Signers
  <1>3. ASSUME fix_co_authority(s) PROVE MintStep
    BY <1>3 DEF fix_co_authority, MintStep, PoolCall
  <1>4. ASSUME \/ \E m \in Markets : register_lending_market(s, m)
               \/ \E st \in PoolStatus : set_pool_status(s, st)
               \/ \E a \in Wallets : add_admin(s, a) \/ remove_admin(s, a)
               \/ \E net \in Networks \cup {NoNetwork} : set_gatekeeper_network(s, net)
        PROVE  MintStep
    BY <1>4 DEF register_lending_market, set_pool_status, add_admin, remove_admin,
                set_gatekeeper_network, MintStep
  <1>5. QED
    BY <1>1, <1>2, <1>3, <1>4 DEF PoolStep

LEMMA ListStepMintStep ==
    ASSUME NEW s \in Wallets, ListStep(s)
    PROVE  MintStep
  <1>1. ASSUME NEW w \in Wallets, NEW role \in Roles, add_participant(s, w, role)
        PROVE  MintStep
    BY <1>1 DEF add_participant, MintStep, Administer
  <1>2. ASSUME NEW w \in Wallets, NEW role \in Roles, add_participant_via_pool(s, w, role)
        PROVE  MintStep
    BY <1>2 DEF add_participant_via_pool, MintStep, PoolCall
  <1>3. ASSUME self_register(s) PROVE MintStep
    BY <1>3 DEF self_register, MintStep, PoolCall
  <1>4. QED
    BY <1>1, <1>2, <1>3 DEF ListStep

LEMMA TradeStepMintStep ==
    ASSUME NEW s \in Wallets, TradeStep(s)
    PROVE  MintStep
  <1>1. ASSUME NEW w \in Wallets, NEW d \in Wallets, NEW n \in Amounts,
               mint_wrapped(s, w, d, n)
        PROVE  MintStep
    BY <1>1 DEF mint_wrapped, MintStep, Administer
  <1>2. ASSUME NEW w \in Wallets, NEW d \in Wallets, NEW n \in Amounts,
               wrap(s, w, d, n)
        PROVE  MintStep
    BY <1>2 DEF wrap, MintStep, PoolCall
  <1>3. ASSUME NEW d \in Wallets, NEW n \in Amounts, unwrap(s, d, n)
        PROVE  MintStep
    BY <1>3 DEF unwrap, MintStep, TokenStep
  <1>4. ASSUME NEW n \in Amounts, DonateUnderlying(s, n)
        PROVE  MintStep
    BY <1>4 DEF DonateUnderlying, MintStep
  <1>5. QED
    BY <1>1, <1>2, <1>3, <1>4 DEF TradeStep

LEMMA NextMintStep == [Next]_vars => MintStep
  <1>1. ASSUME NEW s \in Wallets, NEW net \in Networks, ChangePass(s, net)
        PROVE  MintStep
    BY <1>1 DEF ChangePass, MintStep
  <1>2. ASSUME DirectCall PROVE MintStep
    BY <1>2 DEF DirectCall, MintStep
  <1>3. ASSUME UNCHANGED vars PROVE MintStep
    BY <1>3 DEF vars, dmVars, MintStep
  <1>4. QED
    BY <1>1, <1>2, <1>3, PoolStepMintStep, ListStepMintStep, TradeStepMintStep DEF Next

LEMMA MintStepDMNext == MintStep => [DMNext]_dmVars
  BY DEF MintStep, PoolCall, DMNext, Administer, Signers, Keys

LEMMA InitDMInit == Init => DMInit
  BY DEF Init, DMInit

\* Driven by the governor and its users, delta-mint only behaves as it may by
\* itself: what holds of DMSpec holds of every pool.
THEOREM GovernorRefinesDeltaMint == Spec => DMSpec
  <1>1. [Next]_vars => [DMNext]_dmVars
    BY NextMintStep, MintStepDMNext
  <1>2. QED
    BY InitDMInit, <1>1, PTL DEF Spec, DMSpec

\* The whitelist counter of a governed mint is exact too.
THEOREM GovernorCountCorrect == Spec => []CountMatchesEntries
  BY GovernorRefinesDeltaMint, DMCountCorrect, PTL

-----------------------------------------------------------------------------
(* Types *)

LEMMA DMTypeOKStep == DMTypeOK /\ [Next]_vars => DMTypeOK'
  BY NextMintStep, MintStepDMNext, DMNextTypeOK

LEMMA InitTypeOK == Init => TypeOK
  <1> SUFFICES ASSUME Init PROVE TypeOK
    OBVIOUS
  <1>1. DMTypeOK
    BY InitDMInit, DMInitTypeOK
  <1>2. passes \subseteq Wallets \X Networks /\ admins \subseteq Wallets
    BY DEF Init
  <1>3. underlying \in [Wallets -> Nat] /\ vault \in Nat
    BY GovernorAssumption DEF GovernorAssumption, Init
  <1>4. QED
    BY <1>1, <1>2, <1>3 DEF Init, TypeOK, PoolStatus

\* What the governor's own accounts and the underlying tokens add to the type.
GovernorTypeOK ==
    /\ pool_layout \in {"absent", "v1", "v2"}
    /\ pool_authority \in Wallets \cup {NoKey}
    /\ status \in PoolStatus
    /\ lending_market \in Markets \cup {NoMarket}
    /\ gatekeeper \in Networks \cup {NoNetwork}
    /\ admins \subseteq Wallets
    /\ passes \subseteq Wallets \X Networks
    /\ vault \in Nat
    /\ underlying \in [Wallets -> Nat]

LEMMA PoolStepTypeOK ==
    ASSUME GovernorTypeOK, NEW s \in Wallets, PoolStep(s)
    PROVE  GovernorTypeOK'
  <1>1. ASSUME initialize_pool(s) PROVE GovernorTypeOK'
    BY <1>1 DEF initialize_pool, GovernorTypeOK, PoolStatus, cash
  <1>2. ASSUME NEW m \in Markets, register_lending_market(s, m) PROVE GovernorTypeOK'
    BY <1>2 DEF register_lending_market, GovernorTypeOK, PoolStatus, cash
  <1>3. ASSUME NEW st \in PoolStatus, set_pool_status(s, st) PROVE GovernorTypeOK'
    BY <1>3 DEF set_pool_status, GovernorTypeOK, cash
  <1>4. ASSUME NEW a \in Wallets, add_admin(s, a) \/ remove_admin(s, a)
        PROVE  GovernorTypeOK'
    BY <1>4 DEF add_admin, remove_admin, GovernorTypeOK, poolConfig, cash
  <1>5. ASSUME NEW net \in Networks \cup {NoNetwork}, set_gatekeeper_network(s, net)
        PROVE  GovernorTypeOK'
    BY <1>5 DEF set_gatekeeper_network, GovernorTypeOK, cash
  <1>6. ASSUME activate_wrapping(s) \/ fix_co_authority(s)
        PROVE  GovernorTypeOK'
    BY <1>6 DEF activate_wrapping, fix_co_authority, GovernorTypeOK, poolVars,
                poolConfig, cash
  <1>7. QED
    BY <1>1, <1>2, <1>3, <1>4, <1>5, <1>6 DEF PoolStep

LEMMA ListStepTypeOK ==
    ASSUME GovernorTypeOK, NEW s \in Wallets, ListStep(s)
    PROVE  GovernorTypeOK'
  <1>1. UNCHANGED <<poolVars, cash>>
    BY DEF ListStep, add_participant, add_participant_via_pool, self_register
  <1>2. QED
    BY <1>1 DEF GovernorTypeOK, poolVars, poolConfig, cash

LEMMA TradeStepTypeOK ==
    ASSUME GovernorTypeOK, NEW s \in Wallets, TradeStep(s)
    PROVE  GovernorTypeOK'
  <1>1. ASSUME NEW w \in Wallets, NEW d \in Wallets, NEW n \in Amounts,
               mint_wrapped(s, w, d, n)
        PROVE  GovernorTypeOK'
    BY <1>1 DEF mint_wrapped, GovernorTypeOK, poolVars, poolConfig, cash
  <1>2. ASSUME NEW n \in 1 .. underlying[s], UNCHANGED poolVars,
               vault' = vault + n, underlying' = [underlying EXCEPT ![s] = @ - n]
        PROVE  GovernorTypeOK'
    <2>1. vault' \in Nat /\ underlying' \in [Wallets -> Nat]
      BY <1>2 DEF GovernorTypeOK
    <2>2. QED
      BY <1>2, <2>1 DEF GovernorTypeOK, poolVars, poolConfig
  <1>3. ASSUME NEW d \in Wallets, NEW n \in 1 .. vault, unwrap(s, d, n)
        PROVE  GovernorTypeOK'
    <2>1. vault' \in Nat /\ underlying' \in [Wallets -> Nat]
      BY <1>3 DEF unwrap, GovernorTypeOK
    <2>2. QED
      BY <1>3, <2>1 DEF unwrap, GovernorTypeOK, poolVars, poolConfig
  <1>4. QED
    BY <1>1, <1>2, <1>3 DEF TradeStep, wrap, unwrap, DonateUnderlying

LEMMA NextTypeOK == TypeOK /\ [Next]_vars => TypeOK'
  <1> SUFFICES ASSUME TypeOK, [Next]_vars PROVE TypeOK'
    OBVIOUS
  <1>1. DMTypeOK'
    BY DMTypeOKStep DEF TypeOK
  <1>2. GovernorTypeOK
    BY DEF TypeOK, GovernorTypeOK
  <1>3. ASSUME NEW s \in Wallets, NEW net \in Networks, ChangePass(s, net)
        PROVE  GovernorTypeOK'
    BY <1>2, <1>3 DEF ChangePass, GovernorTypeOK, poolConfig, cash
  <1>4. ASSUME DirectCall PROVE GovernorTypeOK'
    BY <1>2, <1>4 DEF DirectCall, GovernorTypeOK, poolVars, poolConfig, cash
  <1>5. ASSUME UNCHANGED vars PROVE GovernorTypeOK'
    BY <1>2, <1>5 DEF vars, GovernorTypeOK
  <1>6. GovernorTypeOK'
    BY <1>2, <1>3, <1>4, <1>5, PoolStepTypeOK, ListStepTypeOK, TradeStepTypeOK DEF Next
  <1>7. QED
    BY <1>1, <1>6 DEF TypeOK, GovernorTypeOK

\* Type correctness of the two programs and the vault together.
THEOREM GovernorTypeCorrect == Spec => []TypeOK
  BY InitTypeOK, NextTypeOK, PTL DEF Spec

-----------------------------------------------------------------------------
(* The keys of the mint *)

\* A mint that does not exist has nothing activation could have given it.
NothingBeforeMint == layout = "absent" => ~Activated /\ Listed = {}

\* Activation hands over both keys, and only an existing mint's.
KeyInv == TypeOK /\ NothingBeforeMint /\ PoolHoldsBothKeys

LEMMA InitKeyInv == Init => KeyInv
  <1> SUFFICES ASSUME Init PROVE KeyInv
    OBVIOUS
  <1>1. ~Activated /\ Listed = {}
    BY DeltaMintAssumption DEF DeltaMintAssumption, Init, NoMint, Activated, Listed
  <1>2. QED
    BY <1>1, InitTypeOK DEF KeyInv, NothingBeforeMint, PoolHoldsBothKeys

\* With both keys at the pool no wallet has any say over the mint.
LEMMA ActivatedShutsWalletsOut ==
    ASSUME PoolHoldsBothKeys, Activated, NEW s \in Wallets
    PROVE  ~Administer(s)
  BY DeltaMintAssumption DEF DeltaMintAssumption, PoolHoldsBothKeys, Activated,
     Administer, add_to_whitelist, add_liquidator, add_to_whitelist_with_co_authority,
     remove_from_whitelist, transfer_authority, set_co_authority, mint_to,
     HasAuthority, HasCoAuthority

LEMMA WalletKeepsPairing ==
    ASSUME KeyInv, NEW s \in Wallets, Administer(s)
    PROVE  PoolHoldsBothKeys' /\ layout' # "absent"
  <1>1. ~Activated
    BY ActivatedShutsWalletsOut DEF KeyInv
  <1>2. layout # "absent" /\ layout' # "absent"
    BY DEF Administer, add_to_whitelist, add_liquidator,
       add_to_whitelist_with_co_authority, AddEntry, remove_from_whitelist,
       transfer_authority, set_co_authority, mint_to, HasAuthority, HasCoAuthority,
       Deserializes, config
  <1>3. ASSUME NEW k \in Signers, transfer_authority(s, k)
        PROVE  PoolHoldsBothKeys'
    BY <1>3 DEF transfer_authority, PoolHoldsBothKeys, Activated
  <1>4. ASSUME authority' = authority
        PROVE  PoolHoldsBothKeys'
    BY <1>1, <1>4 DEF PoolHoldsBothKeys, Activated
  <1>5. QED
    BY <1>2, <1>3, <1>4
       DEF Administer, add_to_whitelist, add_liquidator,
           add_to_whitelist_with_co_authority, AddEntry, remove_from_whitelist,
           set_co_authority, mint_to, config

LEMMA NextKeyInv == KeyInv /\ [Next]_vars => KeyInv'
  <1> SUFFICES ASSUME KeyInv, [Next]_vars PROVE KeyInv'
    OBVIOUS
  <1>1. TypeOK' /\ MintStep
    BY NextTypeOK, NextMintStep DEF KeyInv
  <1>2. ASSUME NEW s \in Wallets, initialize_mint(s)
        PROVE  NothingBeforeMint' /\ PoolHoldsBothKeys'
    BY <1>2, DeltaMintAssumption DEF DeltaMintAssumption, initialize_mint,
       NothingBeforeMint, PoolHoldsBothKeys, Activated
  <1>3. ASSUME NEW s \in Wallets, Administer(s)
        PROVE  NothingBeforeMint' /\ PoolHoldsBothKeys'
    BY <1>3, WalletKeepsPairing DEF NothingBeforeMint
  <1>4. ASSUME PoolCall
        PROVE  NothingBeforeMint' /\ PoolHoldsBothKeys'
    BY <1>4 DEF KeyInv, PoolCall, add_to_whitelist_with_co_authority, AddEntry,
       set_co_authority, mint_to, HasAuthority, HasCoAuthority, Deserializes, config,
       NothingBeforeMint, PoolHoldsBothKeys, Activated
  <1>5. ASSUME TokenStep \/ UNCHANGED dmVars
        PROVE  NothingBeforeMint' /\ PoolHoldsBothKeys'
    <2>1. /\ authority' = authority /\ co_authority' = co_authority
          /\ entry' = entry /\ layout' = layout
      BY <1>5 DEF TokenStep, TokenTransfer, TokenBurn, FundConfig, config, whitelist, dmVars
    <2>2. Listed' = Listed
      BY <2>1 DEF Listed
    <2>3. QED
      BY <2>1, <2>2 DEF KeyInv, NothingBeforeMint, PoolHoldsBothKeys, Activated
  <1>6. QED
    BY <1>1, <1>2, <1>3, <1>4, <1>5 DEF MintStep, KeyInv

LEMMA KeyInvCorrect == Spec => []KeyInv
  BY InitKeyInv, NextKeyInv, PTL DEF Spec

\* An activated pool can always whitelist through its PDA: no sequence of
\* governor and delta-mint instructions separates the two keys.
THEOREM PoolHoldsBothKeysCorrect == Spec => []PoolHoldsBothKeys
  <1>1. KeyInv => PoolHoldsBothKeys
    BY DEF KeyInv
  <1>2. QED
    BY KeyInvCorrect, <1>1, PTL

\* What a step may do to the mint once it is activated.
LEMMA ActivatedMintStep ==
    ASSUME KeyInv, Activated, [Next]_vars
    PROVE  PoolCall \/ TokenStep \/ UNCHANGED dmVars
  <1>1. layout # "absent"
    BY DEF KeyInv, NothingBeforeMint
  <1>2. QED
    BY <1>1, NextMintStep, ActivatedShutsWalletsOut DEF KeyInv, MintStep, initialize_mint

LEMMA ActivatedStays ==
    ASSUME KeyInv, Activated, [Next]_vars
    PROVE  authority' = Pool
  BY ActivatedMintStep DEF PoolCall, TokenStep, TokenTransfer, TokenBurn, FundConfig,
     add_to_whitelist_with_co_authority, AddEntry, set_co_authority, mint_to, config,
     dmVars, Activated

\* Nothing takes the mint authority back from the pool PDA.
THEOREM ActivationIsFinalCorrect == Spec => ActivationIsFinal
  <1>1. KeyInv /\ [Next]_vars => [Activated => authority' = Pool]_vars
    BY ActivatedStays
  <1>2. QED
    BY KeyInvCorrect, <1>1, PTL DEF Spec, ActivationIsFinal

LEMMA ActivatedListing ==
    ASSUME KeyInv, Activated, [Next]_vars, NEW v \in Listed
    PROVE  entry'[v] = entry[v]
  <1>1. v \in Wallets /\ entry[v] # "None" /\ entry \in [Wallets -> Roles \cup {"None"}]
    BY DEF Listed, KeyInv, TypeOK, DMTypeOK
  <1>2. ASSUME NEW w \in Wallets, add_to_whitelist_with_co_authority(Pool, w)
        PROVE  entry'[v] = entry[v]
    BY <1>1, <1>2 DEF add_to_whitelist_with_co_authority, CanCreate, AddEntry
  <1>3. QED
    BY <1>2, ActivatedMintStep DEF PoolCall, TokenStep, TokenTransfer, TokenBurn,
       FundConfig, set_co_authority, mint_to, whitelist, dmVars

\* No approval is revoked and no role changed after activation.
THEOREM ListingIsFinalCorrect == Spec => ListingIsFinal
  <1>1. KeyInv /\ [Next]_vars =>
        [Activated => \A w \in Listed : entry'[w] = entry[w]]_vars
    BY ActivatedListing
  <1>2. QED
    BY KeyInvCorrect, <1>1, PTL DEF Spec, ListingIsFinal

-----------------------------------------------------------------------------
(* Supply and vault *)

\* A step after activation is of one of these shapes towards the supply
\* and the vault.
SupplyFlow ==
    \/ supply' = supply /\ vault' = vault
    \/ \E n \in Nat : supply' = supply /\ vault' = vault + n             \* a donation
    \/ \E n \in Nat : supply' = supply - n /\ vault' = vault             \* a burn
    \/ status = "Active" /\ \E n \in Nat : supply' = supply + n /\ vault' = vault + n
    \/ status = "Active" /\ \E n \in Nat : supply' = supply - n /\ vault' = vault - n

LEMMA ActivatedFlow ==
    ASSUME KeyInv, Activated, [Next]_vars
    PROVE  SupplyFlow
  <1> USE DEF Amounts
  <1>1. layout # "absent" /\ \A s \in Wallets : ~Administer(s)
    BY ActivatedShutsWalletsOut DEF KeyInv, NothingBeforeMint
  <1>2. supply \in Nat /\ vault \in Nat /\ underlying \in [Wallets -> Nat]
        /\ balance \in [Wallets -> Nat]
    BY DEF KeyInv, TypeOK, DMTypeOK
  <1>3. ASSUME NEW s \in Wallets, PoolStep(s)
        PROVE  SupplyFlow
    <2>1. supply' = supply
      BY <1>1, <1>3 DEF PoolStep, initialize_pool, initialize_mint, register_lending_market,
         set_pool_status, add_admin, remove_admin, set_gatekeeper_network,
         activate_wrapping, transfer_authority, fix_co_authority, set_co_authority,
         dmVars, token
    <2>2. vault' = vault
      BY <1>3 DEF PoolStep, initialize_pool, register_lending_market,
         set_pool_status, add_admin, remove_admin, set_gatekeeper_network,
         activate_wrapping, fix_co_authority, cash
    <2>3. QED
      BY <2>1, <2>2 DEF SupplyFlow
  <1>4. ASSUME NEW s \in Wallets, ListStep(s)
        PROVE  SupplyFlow
    BY <1>4 DEF ListStep, add_participant, add_participant_via_pool, self_register,
       add_to_whitelist, add_liquidator, add_to_whitelist_with_co_authority, AddEntry,
       token, cash, SupplyFlow
  <1>5. ASSUME NEW s \in Wallets, TradeStep(s)
        PROVE  SupplyFlow
    <2>1. ASSUME NEW w \in Wallets, NEW d \in Wallets, NEW n \in Amounts,
                 mint_wrapped(s, w, d, n)
          PROVE  SupplyFlow
      BY <1>1, <2>1 DEF mint_wrapped, Administer
    <2>2. ASSUME NEW w \in Wallets, NEW d \in Wallets, NEW n \in Amounts,
                 wrap(s, w, d, n)
          PROVE  SupplyFlow
      BY <2>2 DEF wrap, mint_to, SupplyFlow
    <2>3. ASSUME NEW d \in Wallets, NEW n \in Amounts, unwrap(s, d, n)
          PROVE  SupplyFlow
      BY <2>3 DEF unwrap, TokenBurn, SupplyFlow
    <2>4. ASSUME NEW n \in Amounts, DonateUnderlying(s, n)
          PROVE  SupplyFlow
      BY <2>4 DEF DonateUnderlying, dmVars, SupplyFlow
    <2>5. QED
      BY <1>5, <2>1, <2>2, <2>3, <2>4 DEF TradeStep
  <1>6. ASSUME NEW s \in Wallets, NEW net \in Networks, ChangePass(s, net)
        PROVE  SupplyFlow
    BY <1>6 DEF ChangePass, dmVars, cash, SupplyFlow
  <1>7. ASSUME DirectCall PROVE SupplyFlow
    <2>1. TokenStep /\ vault' = vault
      BY <1>1, <1>7 DEF DirectCall, cash
    <2>2. QED
      BY <2>1 DEF TokenStep, TokenTransfer, TokenBurn, FundConfig, token, SupplyFlow
  <1>8. ASSUME UNCHANGED vars PROVE SupplyFlow
    BY <1>8 DEF vars, SupplyFlow
  <1>9. QED
    BY <1>3, <1>4, <1>5, <1>6, <1>7, <1>8 DEF Next

LEMMA ActivatedBacking ==
    ASSUME KeyInv, Activated, [Next]_vars
    PROVE  /\ supply' + vault <= supply + vault'
           /\ status # "Active" => supply' <= supply /\ vault' >= vault
  <1>1. supply \in Nat /\ vault \in Nat
    BY DEF KeyInv, TypeOK, DMTypeOK, Amounts
  <1>2. QED
    BY <1>1, ActivatedFlow DEF SupplyFlow

\* After activation the vault's shortfall never grows.
THEOREM ActivatedSupplyIsBackedCorrect == Spec => ActivatedSupplyIsBacked
  <1>1. KeyInv /\ [Next]_vars =>
        [Activated => supply' + vault <= supply + vault']_vars
    BY ActivatedBacking
  <1>2. QED
    BY KeyInvCorrect, <1>1, PTL DEF Spec, ActivatedSupplyIsBacked

\* A frozen activated pool neither issues nor pays out.
THEOREM ClosedPoolIsQuietCorrect == Spec => ClosedPoolIsQuiet
  <1>1. KeyInv /\ [Next]_vars =>
        [Activated /\ status # "Active" => supply' <= supply /\ vault' >= vault]_vars
    BY ActivatedBacking
  <1>2. QED
    BY KeyInvCorrect, <1>1, PTL DEF Spec, ClosedPoolIsQuiet

-----------------------------------------------------------------------------
(* The two programs implement the abstract wrapped token *)

LEMMA InitPromise == Init => Promise!WTInit
  <1> SUFFICES ASSUME Init PROVE Promise!WTInit
    OBVIOUS
  <1>1. ~Activated /\ Listed = {}
    BY InitKeyInv DEF KeyInv, NothingBeforeMint, Init, NoMint
  <1>2. QED
    BY <1>1 DEF Init, NoMint, Promise!WTInit

\* A step that leaves entries and amounts alone at most activates the mint or
\* opens or closes it.
LEMMA QuietStep ==
    ASSUME entry' = entry, supply' = supply, vault' = vault,
           \/ Activated' <=> Activated
           \/ status' = status /\ ~Activated /\ Activated'
    PROVE  [Promise!WTNext]_(Promise!wtVars)
  <1>1. Listed' = Listed
    BY DEF Listed
  <1>2. CASE Activated' <=> Activated
    <2>1. Promise!SetOpen
      BY <1>1, <1>2 DEF Promise!SetOpen
    <2>2. QED
      BY <2>1 DEF Promise!WTNext
  <1>3. CASE status' = status /\ ~Activated /\ Activated'
    <2>1. Promise!Activate
      BY <1>1, <1>3 DEF Promise!Activate
    <2>2. QED
      BY <2>1 DEF Promise!WTNext
  <1>4. QED
    BY <1>2, <1>3

LEMMA AddPromise ==
    ASSUME KeyInv, NEW w \in Wallets, CanCreate(w), NEW role \in Roles,
           AddEntry(w, role), UNCHANGED <<poolVars, cash>>
    PROVE  Promise!WTNext
  <1>1. w \notin Listed /\ Listed' = Listed \cup {w}
    BY DEF KeyInv, TypeOK, DMTypeOK, CanCreate, AddEntry, Listed, Roles
  <1>2. /\ Activated' <=> Activated
        /\ status' = status /\ supply' = supply /\ vault' = vault
    BY DEF AddEntry, config, token, poolVars, poolConfig, cash, Activated
  <1>3. Promise!Admit(w)
    BY <1>1, <1>2 DEF Promise!Admit
  <1>4. QED
    BY <1>3 DEF Promise!WTNext

LEMMA RemovePromise ==
    ASSUME KeyInv, NEW s \in Wallets, NEW w \in Wallets, remove_from_whitelist(s, w),
           UNCHANGED <<poolVars, cash>>
    PROVE  Promise!WTNext
  <1>1. w \in Listed /\ Listed' = Listed \ {w}
    BY DEF KeyInv, TypeOK, DMTypeOK, remove_from_whitelist, Listed
  <1>2. /\ ~Activated /\ ~Activated'
        /\ status' = status /\ supply' = supply /\ vault' = vault
    BY DeltaMintAssumption DEF DeltaMintAssumption, remove_from_whitelist, HasAuthority,
       config, token, poolVars, poolConfig, cash, Activated
  <1>3. Promise!Revoke(w)
    BY <1>1, <1>2 DEF Promise!Revoke
  <1>4. QED
    BY <1>3 DEF Promise!WTNext

LEMMA IssuePromise ==
    ASSUME KeyInv, NEW s \in Wallets, NEW w \in Wallets, NEW d \in Wallets,
           NEW n \in Amounts, mint_to(s, w, d, n), UNCHANGED <<poolVars, cash>>
    PROVE  Promise!WTNext
  <1>1. Listed # {} /\ Listed' = Listed
    BY DEF mint_to, whitelist, Listed
  <1>2. /\ ~Activated /\ ~Activated'
        /\ status' = status /\ supply' = supply + n /\ vault' = vault
    BY DeltaMintAssumption DEF DeltaMintAssumption, mint_to, HasAuthority,
       config, poolVars, poolConfig, cash, Activated
  <1>3. n \in Promise!Units
    BY DEF Amounts, mint_to, Promise!Units
  <1>4. Promise!Issue(n)
    BY <1>1, <1>2 DEF Promise!Issue
  <1>5. QED
    BY <1>3, <1>4 DEF Promise!WTNext

LEMMA AdministerPromise ==
    ASSUME KeyInv, NEW s \in Wallets, Administer(s), UNCHANGED <<poolVars, cash>>
    PROVE  [Promise!WTNext]_(Promise!wtVars)
  <1>1. ASSUME NEW w \in Wallets,
               \/ add_to_whitelist(s, w) \/ add_liquidator(s, w)
               \/ add_to_whitelist_with_co_authority(s, w)
        PROVE  Promise!WTNext
    <2>1. CanCreate(w) /\ \E role \in Roles : AddEntry(w, role)
      BY <1>1 DEF add_to_whitelist, add_liquidator,
                  add_to_whitelist_with_co_authority, Roles
    <2>2. QED
      BY <2>1, AddPromise
  <1>2. ASSUME NEW w \in Wallets, remove_from_whitelist(s, w)
        PROVE  Promise!WTNext
    BY <1>2, RemovePromise
  <1>3. ASSUME \/ \E k \in Signers : transfer_authority(s, k)
               \/ \E k \in Keys : set_co_authority(s, k)
        PROVE  [Promise!WTNext]_(Promise!wtVars)
    <2>1. ~Activated
      BY <1>3, ActivatedShutsWalletsOut DEF KeyInv, Administer
    <2>2. /\ entry' = entry /\ supply' = supply
          /\ vault' = vault /\ status' = status
      BY <1>3 DEF transfer_authority, set_co_authority, whitelist, token, poolVars,
                  poolConfig, cash
    <2>3. QED
      BY <2>1, <2>2, QuietStep
  <1>4. ASSUME NEW w \in Wallets, NEW d \in Wallets, NEW n \in Amounts,
               mint_to(s, w, d, n)
        PROVE  Promise!WTNext
    BY <1>4, IssuePromise
  <1>5. QED
    BY <1>1, <1>2, <1>3, <1>4 DEF Administer

LEMMA TokenStepPromise ==
    ASSUME KeyInv, TokenStep, UNCHANGED <<poolVars, cash>>
    PROVE  [Promise!WTNext]_(Promise!wtVars)
  <1>1. /\ Activated' <=> Activated
        /\ status' = status /\ vault' = vault /\ entry' = entry
    BY DEF TokenStep, TokenTransfer, TokenBurn, FundConfig, config, whitelist,
           poolVars, poolConfig, cash, Activated
  <1>2. ASSUME NEW f \in Wallets, NEW n \in Amounts, TokenBurn(f, n)
        PROVE  Promise!WTNext
    <2>1. n \in Promise!Units /\ Listed' = Listed
      BY <1>1, <1>2 DEF KeyInv, TypeOK, DMTypeOK, Amounts, TokenBurn, Promise!Units, Listed
    <2>2. Promise!Burn(n)
      BY <1>1, <1>2, <2>1 DEF TokenBurn, Promise!Burn
    <2>3. QED
      BY <2>1, <2>2 DEF Promise!WTNext
  <1>3. ASSUME supply' = supply
        PROVE  [Promise!WTNext]_(Promise!wtVars)
    BY <1>1, <1>3, QuietStep
  <1>4. QED
    BY <1>2, <1>3 DEF TokenStep, TokenTransfer, FundConfig, token

LEMMA PoolStepPromise ==
    ASSUME KeyInv, NEW s \in Wallets, PoolStep(s)
    PROVE  [Promise!WTNext]_(Promise!wtVars)
  <1>1. ASSUME initialize_pool(s)
        PROVE  [Promise!WTNext]_(Promise!wtVars)
    <2>1. ~Activated /\ ~Activated'
      BY <1>1, DeltaMintAssumption DEF DeltaMintAssumption, KeyInv, NothingBeforeMint,
         initialize_pool, initialize_mint, Activated
    <2>2. entry' = entry /\ supply' = supply /\ vault' = vault
      BY <1>1 DEF initialize_pool, initialize_mint, token, cash
    <2>3. QED
      BY <2>1, <2>2, QuietStep
  <1>2. ASSUME \/ \E m \in Markets : register_lending_market(s, m)
               \/ \E st \in PoolStatus : set_pool_status(s, st)
               \/ \E a \in Wallets : add_admin(s, a) \/ remove_admin(s, a)
               \/ \E net \in Networks \cup {NoNetwork} : set_gatekeeper_network(s, net)
        PROVE  [Promise!WTNext]_(Promise!wtVars)
    <2>1. /\ entry' = entry /\ supply' = supply /\ vault' = vault
          /\ Activated' <=> Activated
      BY <1>2 DEF register_lending_market, set_pool_status, add_admin, remove_admin,
                  set_gatekeeper_network, dmVars, cash, Activated
    <2>2. QED
      BY <2>1, QuietStep
  <1>3. ASSUME activate_wrapping(s)
        PROVE  [Promise!WTNext]_(Promise!wtVars)
    <2>1. UNCHANGED <<poolVars, cash>> /\ Administer(s)
      BY <1>3 DEF activate_wrapping, Administer, Signers
    <2>2. QED
      BY <2>1, AdministerPromise
  <1>4. ASSUME fix_co_authority(s)
        PROVE  [Promise!WTNext]_(Promise!wtVars)
    <2>1. /\ entry' = entry /\ supply' = supply /\ vault' = vault
          /\ Activated' <=> Activated
      BY <1>4 DEF fix_co_authority, set_co_authority, whitelist, token, cash, Activated
    <2>2. QED
      BY <2>1, QuietStep
  <1>5. QED
    BY <1>1, <1>2, <1>3, <1>4 DEF PoolStep

LEMMA ListStepPromise ==
    ASSUME KeyInv, NEW s \in Wallets, ListStep(s)
    PROVE  Promise!WTNext
  <1>1. UNCHANGED <<poolVars, cash>>
    BY DEF ListStep, add_participant, add_participant_via_pool, self_register
  <1>2. \E w \in Wallets, role \in Roles : CanCreate(w) /\ AddEntry(w, role)
    BY DEF ListStep, add_participant, add_participant_via_pool, self_register,
       add_to_whitelist, add_liquidator, add_to_whitelist_with_co_authority, Roles
  <1>3. QED
    BY <1>1, <1>2, AddPromise

LEMMA WrapPromise ==
    ASSUME KeyInv, NEW u \in Wallets, NEW w \in Wallets, NEW d \in Wallets,
           NEW n \in Amounts, wrap(u, w, d, n)
    PROVE  Promise!WTNext
  <1>1. Listed # {} /\ Listed' = Listed
    BY DEF wrap, mint_to, whitelist, Listed
  <1>2. /\ Activated /\ Activated'
        /\ status = "Active" /\ status' = status
        /\ supply' = supply + n /\ vault' = vault + n
    BY DEF wrap, mint_to, HasAuthority, config, poolVars, poolConfig, Activated
  <1>3. n \in Promise!Units
    BY DEF Amounts, wrap, mint_to, Promise!Units
  <1>4. Promise!Deposit(n)
    BY <1>1, <1>2 DEF Promise!Deposit
  <1>5. QED
    BY <1>3, <1>4 DEF Promise!WTNext

LEMMA UnwrapPromise ==
    ASSUME KeyInv, NEW u \in Wallets, NEW d \in Wallets,
           NEW n \in Amounts, unwrap(u, d, n)
    PROVE  Promise!WTNext
  <1>1. Listed' = Listed /\ (Activated' <=> Activated)
    BY DEF unwrap, TokenBurn, whitelist, config, Listed, Activated
  <1>2. /\ status = "Active" /\ status' = status
        /\ n <= supply /\ n <= vault
        /\ supply' = supply - n /\ vault' = vault - n
    BY DEF KeyInv, TypeOK, unwrap, TokenBurn, poolVars, poolConfig
  <1>3. n \in Promise!Units
    BY DEF KeyInv, TypeOK, Amounts, unwrap, Promise!Units
  <1>4. Promise!Redeem(n)
    BY <1>1, <1>2 DEF Promise!Redeem
  <1>5. QED
    BY <1>3, <1>4 DEF Promise!WTNext

LEMMA DonatePromise ==
    ASSUME KeyInv, NEW u \in Wallets, NEW n \in Amounts, DonateUnderlying(u, n)
    PROVE  Promise!WTNext
  <1>1. Listed' = Listed /\ (Activated' <=> Activated)
    BY DEF DonateUnderlying, dmVars, Listed, Activated
  <1>2. status' = status /\ supply' = supply /\ vault' = vault + n
    BY DEF DonateUnderlying, dmVars, poolVars, poolConfig
  <1>3. n \in Promise!Units
    BY DEF KeyInv, TypeOK, Amounts, DonateUnderlying, Promise!Units
  <1>4. Promise!Donate(n)
    BY <1>1, <1>2 DEF Promise!Donate
  <1>5. QED
    BY <1>3, <1>4 DEF Promise!WTNext

LEMMA NextPromise == KeyInv /\ [Next]_vars => [Promise!WTNext]_(Promise!wtVars)
  <1> SUFFICES ASSUME KeyInv, [Next]_vars
               PROVE  [Promise!WTNext]_(Promise!wtVars)
    OBVIOUS
  <1>1. ASSUME NEW s \in Wallets, TradeStep(s)
        PROVE  [Promise!WTNext]_(Promise!wtVars)
    <2>1. ASSUME NEW w \in Wallets, NEW d \in Wallets, NEW n \in Amounts,
                 mint_wrapped(s, w, d, n)
          PROVE  Promise!WTNext
      BY <2>1, IssuePromise DEF mint_wrapped
    <2>2. QED
      BY <1>1, <2>1, WrapPromise, UnwrapPromise, DonatePromise DEF TradeStep
  <1>2. ASSUME DirectCall
        PROVE  [Promise!WTNext]_(Promise!wtVars)
    BY <1>2, AdministerPromise, TokenStepPromise DEF DirectCall
  <1>3. ASSUME UNCHANGED vars \/ \E s \in Wallets, net \in Networks : ChangePass(s, net)
        PROVE  [Promise!WTNext]_(Promise!wtVars)
    <2>1. /\ entry' = entry /\ supply' = supply /\ vault' = vault
          /\ Activated' <=> Activated
      BY <1>3 DEF vars, ChangePass, dmVars, cash, Activated
    <2>2. QED
      BY <2>1, QuietStep
  <1>4. QED
    BY <1>1, <1>2, <1>3, PoolStepPromise, ListStepPromise DEF Next

\* Governor and delta-mint together implement the abstract wrapped token.
THEOREM GovernorKeepsPromise == Spec => KeepsPromise
  BY InitPromise, KeyInvCorrect, NextPromise, PTL DEF Spec, KeepsPromise, Promise!WTSpec
=============================================================================
