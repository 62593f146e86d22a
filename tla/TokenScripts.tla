---------------------------- MODULE TokenScripts ----------------------------
(***************************************************************************)
(* The operator's scripts that bring a pool to life and administer it:     *)
(* deploy-governor-devnet, create-wrapped-token, whitelist-wallet,         *)
(* add-admin, setup-civic.  One operator runs one script at a time against *)
(* the programs of Governor.  A script may be killed, a transaction may be *)
(* refused by simulation, not reach the node, or be sent without being     *)
(* confirmed in time, and then land later or never.  All scripts are about *)
(* the pool of one underlying mint, whose address does not depend on the   *)
(* wrapped mint; the wrapped mint is a key pair a script generates.        *)
(***************************************************************************)
EXTENDS Governor

CONSTANTS Deployer,   \* the wallet of DEPLOY_KEYPAIR
          MintKeys,   \* key pairs generated for wrapped mints
          NoMintKey,
          Amount,     \* --amount
          MaxFaults   \* bound: crashes, RPC errors and lost confirmations

ASSUME ScriptsAssumption ==
    /\ Deployer \in Wallets
    /\ NoMintKey \notin MintKeys
    /\ Networks # {}
    /\ Amount \in Nat \ {0}
    /\ MaxFaults \in Nat
    \* A generated key pair is a new one, whatever the ledger, the file and the
    \* transactions adrift name.
    /\ IsFiniteSet(MintKeys) => Cardinality(MintKeys) > MaxFaults + 2

VARIABLES
    pool_mint,  \* PoolConfig.wrapped_mint
    deployment, \* pool.wrappedMint of configs/devnet/deployment.json
    script,     \* the script that runs, "none" between runs
    step,       \* where it stands
    found,      \* the wrapped mint it works with
    args,       \* its arguments: a wallet, a role, a network
    adrift,     \* transactions sent, not confirmed, that may still land
    faults      \* faults so far

ledger == <<vars, pool_mint>>
progress == <<script, step, found, args>>
tsVars == <<vars, pool_mint, deployment, script, step, found, args, adrift,
            faults>>

Scripts == {"deploy_governor", "create_wrapped_token", "whitelist_wallet",
            "add_admin", "setup_civic"}
Steps == {"look", "init", "register", "list", "activate", "wrap",
          "fallback", "save", "send", "co_authority", "gatekeeper", "done"}
Args == [wallet : Wallets, role : Roles, network : Networks]
SomeArgs == CHOOSE a \in Args : TRUE
TxKinds == {"initializePool", "registerLendingMarket", "addParticipant", "addAdmin",
            "activateWrapping", "wrap", "mintWrapped", "setCoAuthority",
            "setGatekeeperNetwork"}
Transactions == [do : TxKinds, mint : MintKeys \cup {NoMintKey}, args : Args]

TSTypeOK ==
    /\ TypeOK
    /\ pool_mint \in MintKeys \cup {NoMintKey}
    /\ deployment \in MintKeys \cup {NoMintKey}
    /\ script \in Scripts \cup {"none"}
    /\ step \in Steps
    /\ found \in MintKeys \cup {NoMintKey}
    /\ args \in Args
    /\ adrift \subseteq Transactions
    /\ faults \in 0 .. MaxFaults

-----------------------------------------------------------------------------
(* Transactions *)

Tx(kind) == [do |-> kind, mint |-> found, args |-> args]

\* What the programs do.  Instructions that name accounts of the wrapped mint
\* fail when it is not the pool's.
Execute(tx) ==
    \/ /\ tx.do = "initializePool"
       /\ initialize_pool(Deployer)
       /\ pool_mint' = tx.mint
    \/ /\ \/ /\ tx.do = "registerLendingMarket"
             /\ \E m \in Markets : register_lending_market(Deployer, m)
          \/ tx.do = "addAdmin" /\ add_admin(Deployer, tx.args.wallet)
          \/ /\ tx.do = "setGatekeeperNetwork"
             /\ set_gatekeeper_network(Deployer, tx.args.network)
       /\ UNCHANGED pool_mint
    \/ /\ tx.mint = pool_mint
       /\ \/ /\ tx.do = "addParticipant"
             /\ add_participant(Deployer, tx.args.wallet, tx.args.role)
          \/ tx.do = "activateWrapping" /\ activate_wrapping(Deployer)
          \/ tx.do = "wrap" /\ wrap(Deployer, Deployer, Deployer, Amount)
          \/ tx.do = "mintWrapped" /\ mint_wrapped(Deployer, Deployer, Deployer, Amount)
          \/ /\ tx.do = "setCoAuthority"
             /\ set_co_authority(Deployer, Pool)
             /\ UNCHANGED <<poolVars, cash>>
       /\ UNCHANGED pool_mint

\* The simulation before sending: Execute(tx) would succeed now.
CanIssue == entry[Deployer] = "Holder" /\ status = "Active" /\ supply + Amount \in Amounts
Passes(tx) ==
    \/ tx.do = "initializePool" /\ pool_layout = "absent" /\ layout = "absent"
    \/ tx.do = "registerLendingMarket" /\ RootSigns(Deployer) /\ status = "Initializing"
    \/ tx.do = "addAdmin" /\ RootSigns(Deployer) /\ tx.args.wallet \notin admins
    \/ tx.do = "setGatekeeperNetwork" /\ RootSigns(Deployer)
    \/ /\ tx.mint = pool_mint
       /\ \/ /\ tx.do = "addParticipant"
             /\ is_authorized(Deployer) /\ HasAuthority(Deployer) /\ CanCreate(tx.args.wallet)
          \/ tx.do = "activateWrapping" /\ RootSigns(Deployer) /\ HasAuthority(Deployer)
          \/ /\ tx.do = "wrap"
             /\ PoolDeserializes /\ HasAuthority(Pool) /\ CanIssue
             /\ underlying[Deployer] >= Amount
          \/ /\ tx.do = "mintWrapped"
             /\ is_authorized(Deployer) /\ HasAuthority(Deployer) /\ CanIssue
          \/ tx.do = "setCoAuthority" /\ layout = "v2" /\ authority = Deployer

Fault == faults < MaxFaults /\ faults' = faults + 1

\* The transaction is confirmed.
Confirmed(tx) == Execute(tx) /\ UNCHANGED <<adrift, faults>>

\* A program refused it: "custom program error", after simulation.
Refused(tx) == ~Passes(tx) /\ UNCHANGED <<ledger, adrift, faults>>

\* The node was not reached, or the confirmation did not come in time.
Unconfirmed(tx) ==
    /\ Fault
    /\ \/ UNCHANGED adrift
       \/ Passes(tx) /\ adrift' = adrift \cup {tx}
    /\ UNCHANGED ledger

Failed(tx) == Refused(tx) \/ Unconfirmed(tx)

\* A transaction adrift lands, or its blockhash expires.
Settle ==
    /\ \E tx \in adrift :
          /\ adrift' = adrift \ {tx}
          /\ Execute(tx) \/ UNCHANGED ledger
    /\ UNCHANGED <<deployment, progress, faults>>

-----------------------------------------------------------------------------
(* Running a script *)

At(s, st) == script = s /\ step = st
Goto(st) == step' = st /\ UNCHANGED <<script, found, args>>
GotoWith(st, key) == step' = st /\ found' = key /\ UNCHANGED <<script, args>>
Exit == script' = "none" /\ step' = "done" /\ found' = NoMintKey /\ args' = SomeArgs
Keep == UNCHANGED deployment

\* Keypair.generate()
FreshKey == CHOOSE k \in MintKeys :
    k \notin {pool_mint, deployment} \cup {tx.mint : tx \in adrift}

\* tsx starts a script; what it needs to know of deployment.json is its mint.
Start(s, first, a) ==
    /\ script = "none"
    /\ script' = s /\ step' = first /\ args' = a
    /\ found' = IF s \in {"deploy_governor", "create_wrapped_token"}
                THEN NoMintKey ELSE deployment
    /\ Keep /\ UNCHANGED <<ledger, adrift, faults>>

\* The process is killed, or an await outside any try block throws.
Abort ==
    /\ script # "none"
    /\ Fault
    /\ Exit /\ Keep /\ UNCHANGED <<ledger, adrift>>

-----------------------------------------------------------------------------
(* deploy-governor-devnet *)

\* The wrapped mint of the pool that exists, or a new one.
LookForPool(s, exists, absent) ==
    /\ At(s, "look")
    /\ \/ pool_layout # "absent" /\ GotoWith(exists, pool_mint)
       \/ pool_layout = "absent" /\ GotoWith(absent, FreshKey)
    /\ Keep /\ UNCHANGED <<ledger, adrift, faults>>

deploy_governor_look == LookForPool("deploy_governor", "save", "init")

\* A failure is printed and the script goes on.
deploy_governor_init ==
    /\ At("deploy_governor", "init")
    /\ Confirmed(Tx("initializePool")) \/ Failed(Tx("initializePool"))
    /\ Goto("save") /\ Keep

Mutant_deploy_governor_save_Once ==
    /\ At("deploy_governor", "save")
    /\ deployment' = IF deployment = NoMintKey THEN found ELSE deployment
    /\ Exit /\ UNCHANGED <<ledger, adrift, faults>>

deploy_governor_save ==
    /\ At("deploy_governor", "save")
    /\ deployment' = found
    /\ Exit /\ UNCHANGED <<ledger, adrift, faults>>

DeployGovernor == deploy_governor_look \/ deploy_governor_init \/ deploy_governor_save

-----------------------------------------------------------------------------
(* create-wrapped-token *)

\* Tries a transaction and goes on either way.
Try(s, st, tx, next) ==
    /\ At(s, st)
    /\ Confirmed(tx) \/ Failed(tx)
    /\ Goto(next) /\ Keep

create_token_look == LookForPool("create_wrapped_token", "list", "init")

\* Not caught: without the pool the script ends.
create_token_init ==
    /\ At("create_wrapped_token", "init")
    /\ \/ Confirmed(Tx("initializePool")) /\ Goto("register")
       \/ Failed(Tx("initializePool")) /\ Exit
    /\ Keep

\* Only the run that created the pool registers the market.
create_token_register ==
    Try("create_wrapped_token", "register", Tx("registerLendingMarket"), "list")

OwnEntry == [wallet |-> Deployer, role |-> "Holder", network |-> args.network]

create_token_list ==
    \/ /\ At("create_wrapped_token", "list")
       /\ found = pool_mint /\ entry[Deployer] # "None"
       /\ Goto("activate") /\ Keep /\ UNCHANGED <<ledger, adrift, faults>>
    \/ /\ ~(found = pool_mint /\ entry[Deployer] # "None")
       /\ Try("create_wrapped_token", "list",
              [Tx("addParticipant") EXCEPT !.args = OwnEntry], "activate")

Mutant_create_token_activate_Skipped ==
    /\ At("create_wrapped_token", "activate")
    /\ Goto("wrap") /\ Keep /\ UNCHANGED <<ledger, adrift, faults>>

create_token_activate ==
    Try("create_wrapped_token", "activate", Tx("activateWrapping"), "wrap")

create_token_wrap ==
    /\ At("create_wrapped_token", "wrap")
    /\ \/ Confirmed(Tx("wrap")) /\ Goto("save")
       \/ Failed(Tx("wrap")) /\ Goto("fallback")
    /\ Keep

Mutant_create_token_fallback_ByPool ==
    /\ At("create_wrapped_token", "fallback")
    /\ \/ /\ found = pool_mint /\ status = "Active"
          /\ mint_to(Pool, Deployer, Deployer, Amount)
          /\ UNCHANGED <<poolVars, cash, pool_mint, adrift, faults>>
       \/ Confirmed(Tx("mintWrapped")) \/ Failed(Tx("mintWrapped"))
    /\ Goto("save") /\ Keep

\* "legacy mode": unbacked units, when the wrap failed.
create_token_fallback ==
    Try("create_wrapped_token", "fallback", Tx("mintWrapped"), "save")

\* "Token Ready", whatever failed on the way.
create_token_save ==
    /\ At("create_wrapped_token", "save")
    /\ Exit /\ Keep /\ UNCHANGED <<ledger, adrift, faults>>

CreateWrappedToken ==
    \/ create_token_look \/ create_token_init \/ create_token_register
    \/ create_token_list \/ create_token_activate \/ create_token_wrap
    \/ create_token_fallback \/ create_token_save

-----------------------------------------------------------------------------
(* whitelist-wallet, add-admin, setup-civic *)

\* An entry that exists, at the address the file's mint gives, ends the script.
whitelist_wallet ==
    /\ At("whitelist_wallet", "send")
    /\ \/ /\ found = pool_mint /\ entry[args.wallet] # "None"
          /\ UNCHANGED <<ledger, adrift, faults>>
       \/ Confirmed(Tx("addParticipant")) \/ Failed(Tx("addParticipant"))
    /\ Exit /\ Keep

add_admin_script ==
    /\ At("add_admin", "send")
    /\ \/ args.wallet \in admins /\ UNCHANGED <<ledger, adrift, faults>>
       \/ Confirmed(Tx("addAdmin")) \/ Failed(Tx("addAdmin"))
    /\ Exit /\ Keep

\* A refusal passes as "may already be set" when the client library words it as
\* a custom program error, which it does not always; other errors end the script.
setup_civic_co_authority ==
    /\ At("setup_civic", "co_authority")
    /\ \/ Confirmed(Tx("setCoAuthority")) /\ Goto("gatekeeper")
       \/ Refused(Tx("setCoAuthority")) /\ Goto("gatekeeper")
       \/ Failed(Tx("setCoAuthority")) /\ Exit
    /\ Keep

setup_civic_gatekeeper ==
    /\ At("setup_civic", "gatekeeper")
    /\ Confirmed(Tx("setGatekeeperNetwork")) \/ Failed(Tx("setGatekeeperNetwork"))
    /\ Exit /\ Keep

SetupCivic == setup_civic_co_authority \/ setup_civic_gatekeeper

-----------------------------------------------------------------------------
\* whitelist-wallet, add-admin and setup-civic read deployment.json first.
Run ==
    \/ Start("deploy_governor", "look", SomeArgs)
    \/ Start("create_wrapped_token", "look", SomeArgs)
    \/ /\ deployment # NoMintKey
       /\ \/ \E a \in Args : Start("whitelist_wallet", "send", a)
          \/ \E w \in Wallets :
                Start("add_admin", "send", [SomeArgs EXCEPT !.wallet = w])
          \/ \E net \in Networks :
                Start("setup_civic", "co_authority", [SomeArgs EXCEPT !.network = net])

ScriptStep ==
    \/ DeployGovernor \/ CreateWrappedToken
    \/ whitelist_wallet \/ add_admin_script \/ SetupCivic

TSInit ==
    /\ Init
    /\ pool_mint = NoMintKey /\ deployment = NoMintKey
    /\ script = "none" /\ step = "done" /\ found = NoMintKey /\ args = SomeArgs
    /\ adrift = {} /\ faults = 0

TSNext == Run \/ ScriptStep \/ Abort \/ Settle

TSSpec == TSInit /\ [][TSNext]_tsVars

\* A script that runs gets on, what is adrift settles, and the operator runs
\* the two deployment scripts again and again.  Faults are finitely many.
OperatorRepeats ==
    /\ WF_tsVars(ScriptStep)
    /\ WF_tsVars(Settle)
    /\ SF_tsVars(Start("deploy_governor", "look", SomeArgs))
    /\ SF_tsVars(Start("create_wrapped_token", "look", SomeArgs))

TSFairSpec == TSSpec /\ OperatorRepeats

-----------------------------------------------------------------------------
(* Properties *)

\* While a wrap the operator gave up on may still land, no unit is issued
\* without backing: the fallback of create-wrapped-token cannot add to it.
NoUnbackedWhileInDoubt ==
    [][(\E tx \in adrift : tx.do = "wrap") => supply' - supply <= vault' - vault]_tsVars

\* However often deployment was interrupted, re-running it makes
\* deployment.json name the wrapped mint of the pool, for good.
DeploymentFileConverges == <>[](pool_mint # NoMintKey /\ deployment = pool_mint)

\* Re-running create-wrapped-token activates the pool's wrapping in the end.
RerunActivates == <>[](authority = Pool)

=============================================================================
