------------------------- MODULE TokenScriptsProofs -------------------------
(***************************************************************************)
(* Theorems about the operator's scripts.  Whatever they do, interrupted   *)
(* and run again, to the ledger they are one more client of the governor:  *)
(* every step is one of Governor's or leaves its accounts alone, so what   *)
(* GovernorProofs shows of every pool holds of the pools they deploy.      *)
(***************************************************************************)
EXTENDS TokenScripts, GovernorProofs

-----------------------------------------------------------------------------
(* What a script may send *)

LEMMA SomeArgsType == SomeArgs \in Args
  <1>1. \E w \in Wallets : TRUE
    BY ScriptsAssumption DEF ScriptsAssumption
  <1>2. \E net \in Networks : TRUE
    BY ScriptsAssumption DEF ScriptsAssumption
  <1>3. \E a \in Args : TRUE
    <2>1. PICK w \in Wallets, net \in Networks : TRUE
      BY <1>1, <1>2
    <2>2. [wallet |-> w, role |-> "Holder", network |-> net] \in Args
      BY DEF Args, Roles
    <2>3. QED
      BY <2>2
  <1>4. QED
    BY <1>3 DEF SomeArgs

\* A transaction is an instruction of the governor, or setup-civic's call of
\* delta-mint.
LEMMA ExecuteIsGoverned ==
    ASSUME TypeOK, NEW tx \in Transactions, Execute(tx)
    PROVE  Next
  <1> USE ScriptsAssumption DEF ScriptsAssumption
  <1>1. tx.args.wallet \in Wallets /\ tx.args.role \in Roles /\ tx.args.network \in Networks
    BY DEF Transactions, Args
  <1>2. ASSUME \/ initialize_pool(Deployer)
               \/ \E m \in Markets : register_lending_market(Deployer, m)
               \/ add_admin(Deployer, tx.args.wallet)
               \/ set_gatekeeper_network(Deployer, tx.args.network)
               \/ activate_wrapping(Deployer)
        PROVE  Next
    <2>1. PoolStep(Deployer)
      BY <1>1, <1>2 DEF PoolStep
    <2>2. QED
      BY <2>1 DEF Next
  <1>3. ASSUME add_participant(Deployer, tx.args.wallet, tx.args.role)
        PROVE  Next
    <2>1. ListStep(Deployer)
      BY <1>1, <1>3 DEF ListStep
    <2>2. QED
      BY <2>1 DEF Next
  <1>4. ASSUME \/ wrap(Deployer, Deployer, Deployer, Amount)
               \/ mint_wrapped(Deployer, Deployer, Deployer, Amount)
        PROVE  Next
    <2>1. supply + Amount \in Amounts
      BY <1>4 DEF wrap, mint_wrapped, mint_to
    <2>2. Amount \in Amounts
      BY <2>1, DeltaMintAssumption DEF Amounts, TypeOK, DMTypeOK, DeltaMintAssumption
    <2>3. TradeStep(Deployer)
      BY <1>4, <2>2 DEF TradeStep
    <2>4. QED
      BY <2>3 DEF Next
  <1>5. ASSUME set_co_authority(Deployer, Pool), UNCHANGED <<poolVars, cash>>
        PROVE  Next
    <2>1. Administer(Deployer)
      BY <1>5 DEF Administer, Keys, Signers
    <2>2. QED
      BY <1>5, <2>1 DEF DirectCall, Next
  <1>6. QED
    BY <1>2, <1>3, <1>4, <1>5 DEF Execute

-----------------------------------------------------------------------------
(* The shape of a step *)

\* What the scripts keep to themselves.
ProgressTypeOK ==
    /\ deployment \in MintKeys \cup {NoMintKey}
    /\ script \in Scripts \cup {"none"}
    /\ step \in Steps
    /\ found \in MintKeys \cup {NoMintKey}
    /\ args \in Args

\* What a step is to the ledger and to the transactions under way.
Rests == UNCHANGED <<ledger, adrift, faults>>
Lands == \E tx \in Transactions : Confirmed(tx)
Fails == Fault /\ UNCHANGED <<ledger, adrift>>
Drifts ==
    /\ Fault /\ UNCHANGED ledger
    /\ \E tx \in Transactions : Passes(tx) /\ adrift' = adrift \cup {tx}
Settles ==
    /\ UNCHANGED faults
    /\ \E tx \in adrift : adrift' = adrift \ {tx} /\ (Execute(tx) \/ UNCHANGED ledger)

Move == Rests \/ Lands \/ Fails \/ Drifts \/ Settles

LEMMA SentMoves ==
    ASSUME NEW tx \in Transactions, Confirmed(tx) \/ Failed(tx)
    PROVE  Move
  BY DEF Failed, Refused, Unconfirmed, Move, Rests, Lands, Fails, Drifts

LEMMA TxType ==
    ASSUME ProgressTypeOK, NEW kind \in TxKinds
    PROVE  Tx(kind) \in Transactions
  BY DEF ProgressTypeOK, Tx, Transactions

LEMMA OwnEntryType ==
    ASSUME ProgressTypeOK
    PROVE  [Tx("addParticipant") EXCEPT !.args = OwnEntry] \in Transactions
  <1>1. OwnEntry \in Args
    BY ScriptsAssumption DEF ScriptsAssumption, ProgressTypeOK, OwnEntry, Args, Roles
  <1>2. Tx("addParticipant") \in Transactions
    BY TxType DEF TxKinds
  <1>3. QED
    BY <1>1, <1>2 DEF Transactions

LEMMA ExitType == Exit => script' = "none" /\ step' \in Steps
                          /\ found' = NoMintKey /\ args' \in Args
  BY SomeArgsType DEF Exit, Steps

\* A script that tries a transaction and ends or goes on, with the file as is.
LEMMA SentStep ==
    ASSUME ProgressTypeOK, NEW tx \in Transactions, Confirmed(tx) \/ Failed(tx),
           Keep, Exit \/ \E st \in Steps : Goto(st)
    PROVE  Move /\ ProgressTypeOK'
  <1>1. Move
    BY SentMoves
  <1>2. ProgressTypeOK'
    BY ExitType DEF ProgressTypeOK, Keep, Goto
  <1>3. QED
    BY <1>1, <1>2

\* A script that only decides what to do next.
LEMMA RestStep ==
    ASSUME ProgressTypeOK, Rests, Keep, Exit \/ \E st \in Steps : Goto(st)
    PROVE  Move /\ ProgressTypeOK'
  BY ExitType DEF Move, ProgressTypeOK, Keep, Goto

-----------------------------------------------------------------------------
(* A fresh key pair exists *)

\* Every transaction adrift has cost a fault, so there are only so many.
AdriftCounted == IsFiniteSet(adrift) /\ Cardinality(adrift) <= faults

TSInv ==
    /\ KeyInv
    /\ ProgressTypeOK
    /\ pool_mint \in MintKeys \cup {NoMintKey}
    /\ adrift \subseteq Transactions
    /\ faults \in 0 .. MaxFaults
    /\ AdriftCounted

LEMMA OneMore ==
    ASSUME NEW S, IsFiniteSet(S), NEW n \in Nat, Cardinality(S) <= n, NEW x
    PROVE  /\ IsFiniteSet(S \cup {x})
           /\ Cardinality(S \cup {x}) <= n + 1
  <1>1. Cardinality(S) \in Nat
    BY FS_CardinalityType
  <1>2. /\ IsFiniteSet(S \cup {x})
        /\ \/ Cardinality(S \cup {x}) = Cardinality(S)
           \/ Cardinality(S \cup {x}) = Cardinality(S) + 1
    BY FS_AddElement
  <1>3. QED
    BY <1>1, <1>2

LEMMA OneLess ==
    ASSUME NEW S, IsFiniteSet(S), NEW n \in Nat, Cardinality(S) <= n, NEW x
    PROVE  /\ IsFiniteSet(S \ {x})
           /\ Cardinality(S \ {x}) <= n
  <1>1. S \ {x} \in SUBSET S
    OBVIOUS
  <1>2. /\ IsFiniteSet(S \ {x})
        /\ Cardinality(S \ {x}) <= Cardinality(S)
    BY <1>1, FS_Subset
  <1>3. Cardinality(S) \in Nat /\ Cardinality(S \ {x}) \in Nat
    BY <1>2, FS_CardinalityType
  <1>4. QED
    BY <1>2, <1>3

\* The key pairs something already names.
Named == {pool_mint, deployment} \cup {tx.mint : tx \in adrift}

LEMMA NamedAreFew ==
    ASSUME TSInv
    PROVE  IsFiniteSet(Named) /\ Cardinality(Named) <= MaxFaults + 2
  <1> DEFINE M == {tx.mint : tx \in adrift}
             f == [tx \in adrift |-> tx.mint]
  <1>1. f \in Surjection(adrift, M)
    BY DEF Surjection
  <1>2. /\ IsFiniteSet(adrift) /\ Cardinality(adrift) \in Nat
        /\ Cardinality(adrift) <= MaxFaults
    BY FS_CardinalityType, ScriptsAssumption DEF ScriptsAssumption, TSInv, AdriftCounted
  <1> HIDE DEF M, f
  <1>3. IsFiniteSet(M) /\ Cardinality(M) <= Cardinality(adrift)
    BY <1>1, <1>2, FS_Surjection
  <1>4. MaxFaults \in Nat /\ MaxFaults + 1 \in Nat /\ (MaxFaults + 1) + 1 = MaxFaults + 2
    BY ScriptsAssumption DEF ScriptsAssumption
  <1>5. Cardinality(M) <= MaxFaults
    <2>1. Cardinality(M) \in Nat
      BY <1>3, FS_CardinalityType
    <2>2. QED
      BY <1>2, <1>3, <1>4, <2>1
  <1>6. /\ IsFiniteSet(M \cup {pool_mint})
        /\ Cardinality(M \cup {pool_mint}) <= MaxFaults + 1
    BY <1>3, <1>4, <1>5, OneMore
  <1>7. /\ IsFiniteSet((M \cup {pool_mint}) \cup {deployment})
        /\ Cardinality((M \cup {pool_mint}) \cup {deployment}) <= (MaxFaults + 1) + 1
    BY <1>4, <1>6, OneMore
  <1>8. Named = (M \cup {pool_mint}) \cup {deployment}
    BY DEF Named, M
  <1>9. QED
    BY <1>4, <1>7, <1>8

\* So Keypair.generate() can be what the model takes it for.
LEMMA FreshKeyType ==
    ASSUME TSInv
    PROVE  FreshKey \in MintKeys /\ FreshKey \notin Named
  <1>1. \E k \in MintKeys : k \notin Named
    <2> SUFFICES ASSUME MintKeys \subseteq Named PROVE FALSE
      OBVIOUS
    <2>1. IsFiniteSet(MintKeys) /\ Cardinality(MintKeys) <= Cardinality(Named)
      BY NamedAreFew, FS_Subset
    <2>2. Cardinality(MintKeys) \in Nat /\ Cardinality(Named) \in Nat
      BY <2>1, NamedAreFew, FS_CardinalityType
    <2>3. QED
      BY <2>1, <2>2, NamedAreFew, ScriptsAssumption DEF ScriptsAssumption
  <1>2. QED
    BY <1>1 DEF FreshKey, Named

LEMMA LookStep ==
    ASSUME TSInv, NEW s, NEW exists \in Steps, NEW absent \in Steps,
           LookForPool(s, exists, absent)
    PROVE  Move /\ ProgressTypeOK'
  BY FreshKeyType DEF LookForPool, GotoWith, Keep, Move, Rests, TSInv, ProgressTypeOK

-----------------------------------------------------------------------------
(* Each script *)

LEMMA DeployGovernorStep ==
    ASSUME TSInv, DeployGovernor
    PROVE  Move /\ ProgressTypeOK'
  <1>1. ProgressTypeOK
    BY DEF TSInv
  <1>2. CASE deploy_governor_look
    BY <1>2, LookStep DEF deploy_governor_look, Steps
  <1>3. CASE deploy_governor_init
    BY <1>1, <1>3, SentStep, TxType DEF deploy_governor_init, Steps, TxKinds
  <1>4. CASE deploy_governor_save
    BY <1>1, <1>4, ExitType DEF deploy_governor_save, ProgressTypeOK, Move, Rests
  <1>5. QED
    BY <1>2, <1>3, <1>4 DEF DeployGovernor

LEMMA CreateWrappedTokenStep ==
    ASSUME TSInv, CreateWrappedToken
    PROVE  Move /\ ProgressTypeOK'
  <1>1. ProgressTypeOK
    BY DEF TSInv
  <1>2. CASE create_token_look
    BY <1>2, LookStep DEF create_token_look, Steps
  <1>3. CASE create_token_init
    BY <1>1, <1>3, SentStep, TxType DEF create_token_init, Steps, TxKinds
  <1>4. CASE create_token_list
    BY <1>1, <1>4, SentStep, RestStep, OwnEntryType DEF create_token_list, Try, Rests, Steps
  <1>5. CASE create_token_register \/ create_token_activate \/ create_token_fallback
    BY <1>1, <1>5, SentStep, TxType
       DEF create_token_register, create_token_activate, create_token_fallback, Try,
           Steps, TxKinds
  <1>6. CASE create_token_wrap
    BY <1>1, <1>6, SentStep, TxType DEF create_token_wrap, Steps, TxKinds
  <1>7. CASE create_token_save
    BY <1>1, <1>7, RestStep DEF create_token_save, Rests
  <1>8. QED
    BY <1>2, <1>3, <1>4, <1>5, <1>6, <1>7 DEF CreateWrappedToken

LEMMA SmallScriptsStep ==
    ASSUME TSInv, whitelist_wallet \/ add_admin_script \/ SetupCivic
    PROVE  Move /\ ProgressTypeOK'
  <1>1. ProgressTypeOK
    BY DEF TSInv
  <1>2. CASE whitelist_wallet
    BY <1>1, <1>2, SentStep, RestStep, TxType DEF whitelist_wallet, Rests, TxKinds
  <1>3. CASE add_admin_script
    BY <1>1, <1>3, SentStep, RestStep, TxType DEF add_admin_script, Rests, TxKinds
  <1>4. CASE setup_civic_co_authority
    BY <1>1, <1>4, SentStep, TxType DEF setup_civic_co_authority, Failed, Steps, TxKinds
  <1>5. CASE setup_civic_gatekeeper
    BY <1>1, <1>5, SentStep, TxType DEF setup_civic_gatekeeper, TxKinds
  <1>6. QED
    BY <1>2, <1>3, <1>4, <1>5 DEF SetupCivic

LEMMA StartStep ==
    ASSUME ProgressTypeOK, NEW s \in Scripts, NEW first \in Steps, NEW a \in Args,
           Start(s, first, a)
    PROVE  Move /\ ProgressTypeOK'
  BY DEF Start, Keep, ProgressTypeOK, Move, Rests

LEMMA RunStep ==
    ASSUME TSInv, Run
    PROVE  Move /\ ProgressTypeOK'
  <1>1. ProgressTypeOK
    BY DEF TSInv
  <1>2. /\ \A w \in Wallets : [SomeArgs EXCEPT !.wallet = w] \in Args
        /\ \A net \in Networks : [SomeArgs EXCEPT !.network = net] \in Args
    BY SomeArgsType DEF Args
  <1>3. QED
    BY <1>1, <1>2, SomeArgsType, StartStep DEF Run, Scripts, Steps

LEMMA TSNextMove ==
    ASSUME TSInv, [TSNext]_tsVars
    PROVE  Move /\ ProgressTypeOK'
  <1>1. ProgressTypeOK
    BY DEF TSInv
  <1>2. CASE ScriptStep
    BY <1>2, DeployGovernorStep, CreateWrappedTokenStep, SmallScriptsStep DEF ScriptStep
  <1>3. CASE Abort
    BY <1>1, <1>3, ExitType DEF Abort, Keep, ProgressTypeOK, Move, Fails
  <1>4. CASE Settle
    BY <1>1, <1>4 DEF Settle, progress, ProgressTypeOK, Move, Settles
  <1>5. CASE UNCHANGED tsVars
    BY <1>1, <1>5 DEF tsVars, ProgressTypeOK, Move, Rests, ledger
  <1>6. QED
    BY <1>2, <1>3, <1>4, <1>5, RunStep DEF TSNext

-----------------------------------------------------------------------------
(* The scripts are clients of the governor *)

LEMMA MoveIsGoverned ==
    ASSUME TSInv, Move
    PROVE  [Next]_vars
  <1>1. adrift \subseteq Transactions /\ TypeOK
    BY DEF TSInv, KeyInv
  <1>2. (UNCHANGED ledger) => UNCHANGED vars
    BY DEF ledger
  <1>3. QED
    BY <1>1, <1>2, ExecuteIsGoverned
       DEF Move, Rests, Lands, Fails, Drifts, Settles, Confirmed

LEMMA MoveKeepsBooks ==
    ASSUME TSInv, Move
    PROVE  /\ pool_mint' \in MintKeys \cup {NoMintKey}
           /\ adrift' \subseteq Transactions
           /\ faults' \in 0 .. MaxFaults
           /\ AdriftCounted'
  <1> USE ScriptsAssumption DEF ScriptsAssumption
  <1>1. ASSUME NEW tx \in Transactions, Execute(tx)
        PROVE  pool_mint' \in MintKeys \cup {NoMintKey}
    BY <1>1 DEF Execute, TSInv, Transactions
  <1>2. pool_mint' \in MintKeys \cup {NoMintKey}
    BY <1>1 DEF Move, Rests, Lands, Confirmed, Fails, Drifts, Settles, ledger, TSInv
  <1>3. /\ IsFiniteSet(adrift) /\ Cardinality(adrift) \in Nat
        /\ Cardinality(adrift) <= faults /\ faults \in 0 .. MaxFaults
        /\ adrift \subseteq Transactions
    BY FS_CardinalityType DEF TSInv, AdriftCounted
  <1>4. CASE UNCHANGED adrift /\ (UNCHANGED faults \/ Fault)
    BY <1>2, <1>3, <1>4 DEF Fault, AdriftCounted
  <1>5. ASSUME NEW tx \in Transactions, Fault, adrift' = adrift \cup {tx}
        PROVE  adrift' \subseteq Transactions /\ faults' \in 0 .. MaxFaults /\ AdriftCounted'
    <2>1. faults' \in 0 .. MaxFaults /\ faults \in Nat /\ faults' = faults + 1
      BY <1>3, <1>5 DEF Fault
    <2>2. IsFiniteSet(adrift') /\ Cardinality(adrift') <= faults + 1
      BY <1>3, <1>5, <2>1, OneMore
    <2>3. QED
      BY <1>3, <1>5, <2>1, <2>2 DEF AdriftCounted
  <1>6. ASSUME NEW tx \in adrift, UNCHANGED faults, adrift' = adrift \ {tx}
        PROVE  adrift' \subseteq Transactions /\ faults' \in 0 .. MaxFaults /\ AdriftCounted'
    <2>1. faults \in Nat
      BY <1>3
    <2>2. IsFiniteSet(adrift') /\ Cardinality(adrift') <= faults
      BY <1>3, <1>6, <2>1, OneLess
    <2>3. QED
      BY <1>3, <1>6, <2>2 DEF AdriftCounted
  <1>7. QED
    BY <1>2, <1>4, <1>5, <1>6 DEF Move, Rests, Lands, Confirmed, Fails, Drifts, Settles

LEMMA TSInvInit == TSInit => TSInv
  <1> SUFFICES ASSUME TSInit PROVE TSInv
    OBVIOUS
  <1>1. KeyInv
    BY InitKeyInv DEF TSInit
  <1>2. ProgressTypeOK
    BY SomeArgsType DEF TSInit, ProgressTypeOK, Steps
  <1>3. AdriftCounted /\ faults \in 0 .. MaxFaults
    BY FS_EmptySet, ScriptsAssumption DEF ScriptsAssumption, TSInit, AdriftCounted
  <1>4. QED
    BY <1>1, <1>2, <1>3 DEF TSInit, TSInv

LEMMA TSInvNext == TSInv /\ [TSNext]_tsVars => TSInv'
  <1> SUFFICES ASSUME TSInv, [TSNext]_tsVars PROVE TSInv'
    OBVIOUS
  <1>1. Move /\ ProgressTypeOK'
    BY TSNextMove
  <1>2. KeyInv'
    BY <1>1, MoveIsGoverned, NextKeyInv DEF TSInv
  <1>3. QED
    BY <1>1, <1>2, MoveKeepsBooks DEF TSInv

LEMMA TSInvCorrect == TSSpec => []TSInv
  BY TSInvInit, TSInvNext, PTL DEF TSSpec

\* The scripts' state and the ledger they work on stay well formed; with them,
\* a key pair that nothing names yet can always be generated.
THEOREM TSTypeCorrect == TSSpec => []TSTypeOK
  <1>1. TSInv => TSTypeOK
    BY DEF TSInv, KeyInv, ProgressTypeOK, TSTypeOK
  <1>2. QED
    BY <1>1, TSInvCorrect, PTL

\* The scripts implement the governor's specification: whatever order they are
\* run, killed and re-run in, and whichever of their transactions land late,
\* the ledger only goes through steps Governor allows.
THEOREM ScriptsAreGoverned == TSSpec => Spec
  <1>1. TSInit => Init
    BY DEF TSInit
  <1>2. TSInv /\ [TSNext]_tsVars => [Next]_vars
    BY TSNextMove, MoveIsGoverned
  <1>3. QED
    BY <1>1, <1>2, TSInvCorrect, PTL DEF TSSpec, Spec

\* Hence a pool the scripts deploy keeps the abstract wrapped token's promise.
THEOREM ScriptsKeepPromise == TSSpec => KeepsPromise
  BY ScriptsAreGoverned, GovernorKeepsPromise, PTL

-----------------------------------------------------------------------------
(* Nothing unbacked while a wrap is in doubt *)

\* A wrap is sent only when the pool PDA can issue, that is once activated.
DoubtIsActivated == (\E tx \in adrift : tx.do = "wrap") => Activated

LEMMA Compared ==
    ASSUME NEW a \in Nat, NEW b \in Nat, NEW c \in Nat, NEW d \in Nat, a + d <= b + c
    PROVE  a - b <= c - d
  OBVIOUS

LEMMA DoubtNext ==
    ASSUME TSInv, DoubtIsActivated, [TSNext]_tsVars
    PROVE  DoubtIsActivated'
  <1>1. Move /\ [Next]_vars
    BY TSNextMove, MoveIsGoverned
  <1>2. Activated => Activated'
    BY <1>1, ActivatedStays DEF TSInv, Activated
  <1>3. ASSUME NEW tx \in Transactions, Passes(tx), tx.do = "wrap"
        PROVE  Activated
    BY <1>3 DEF Passes, HasAuthority, Activated
  <1>4. CASE Drifts
    BY <1>2, <1>3, <1>4 DEF Drifts, DoubtIsActivated
  <1>5. CASE Rests \/ Lands \/ Fails \/ Settles
    BY <1>2, <1>5 DEF Rests, Lands, Confirmed, Fails, Settles, DoubtIsActivated
  <1>6. QED
    BY <1>1, <1>4, <1>5 DEF Move

\* While a wrap the operator gave up on may still land, the fallback of
\* create-wrapped-token cannot issue units the vault has nothing for: the wrap
\* passed simulation only because the pool PDA had become the authority.
THEOREM NoUnbackedWhileInDoubtCorrect == TSSpec => NoUnbackedWhileInDoubt
  <1>1. TSInit => DoubtIsActivated
    BY DEF TSInit, DoubtIsActivated
  <1>2. TSInv /\ DoubtIsActivated /\ [TSNext]_tsVars => DoubtIsActivated'
    BY DoubtNext
  <1>3. TSInv /\ DoubtIsActivated /\ [TSNext]_tsVars =>
        [(\E tx \in adrift : tx.do = "wrap") => supply' - supply <= vault' - vault]_tsVars
    <2> SUFFICES ASSUME TSInv, DoubtIsActivated, [TSNext]_tsVars,
                        \E tx \in adrift : tx.do = "wrap"
                 PROVE  supply' - supply <= vault' - vault
      OBVIOUS
    <2>1. supply' + vault <= supply + vault'
      BY TSNextMove, MoveIsGoverned, ActivatedBacking DEF TSInv, DoubtIsActivated
    <2>2. /\ supply \in Nat /\ vault \in Nat
          /\ supply' \in Nat /\ vault' \in Nat
      BY TSInvNext DEF TSInv, KeyInv, TypeOK, DMTypeOK, Amounts
    <2>3. QED
      BY <2>1, <2>2, Compared
  <1>4. QED
    BY <1>1, <1>2, <1>3, TSInvCorrect, PTL DEF TSSpec, NoUnbackedWhileInDoubt
=============================================================================
