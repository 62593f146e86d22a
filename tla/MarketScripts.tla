--------------------------- MODULE MarketScripts ---------------------------
(***************************************************************************)
(* The operator's scripts that create klend markets and reserves for a     *)
(* pool: setup-devnet-oracles, deploy-governor-devnet, setup-devnet-market,*)
(* complete-devnet-setup and setup-localnet, whose steps mostly tolerate   *)
(* failure, and setup-eusx-market, setup-fresh-reserves and                *)
(* replace-reserve-irm, whose steps end the script when they fail.  They   *)
(* hand their results to each other, and to whoever configures the         *)
(* frontends, in JSON files.  The console's MarketPanel creates a reserve  *)
(* in the same way, tolerating what fails, and reports it on the screen.   *)
(*                                                                         *)
(* A script is a plan: the steps it has still to take.  One script runs at *)
(* a time.  A transaction may be refused, be lost, or be sent without      *)
(* being confirmed in time and land later.  Addresses are numbers; a key   *)
(* pair a script generates is the address of no account, file or plan.     *)
(***************************************************************************)
EXTENDS Naturals, Sequences, FiniteSets

CONSTANTS MaxAddress,  \* bound: addresses
          MaxRuns,     \* bound: runs of the scripts that always create accounts
          MaxFaults    \* bound: crashes, refusals by klend, lost confirmations

ASSUME MarketAssumption == MaxAddress \in Nat /\ MaxRuns \in Nat /\ MaxFaults \in Nat

VARIABLES
    accounts,      \* addresses of the oracles, markets and reserves that exist
    priced,        \* oracle accounts into which a price has been written
    config,        \* <<reserve, field>>: what update_reserve_config has set
    feed,          \* <<reserve, oracle>>: the oracle UpdatePythPrice has set
    pool,          \* status of the governor pool and what it has registered
    listed,        \* the operator has a whitelist entry
    seeded,        \* the operator holds wrapped units for a seed deposit
    oracles_file,  \* the USDC oracle of oracles-deployed.json
    deployment,    \* the USDC oracle of deployment.json
    market_file,   \* market-deployed.json
    local_file,    \* configs/localnet/deployment.json
    reserve_file,  \* what the three strict scripts saved or printed, and what
                   \* the panel reported as created and configured
    script, plan, output,  \* the script that runs, its remaining steps, its result
    adrift, faults, runs

ledger == <<accounts, priced, config, feed, pool, listed, seeded>>
files == <<oracles_file, deployment, market_file, local_file, reserve_file>>
process == <<script, plan, output>>
msVars == <<accounts, priced, config, feed, pool, listed, seeded, oracles_file,
            deployment, market_file, local_file, reserve_file, script, plan, output, adrift,
            faults, runs>>

NoAddress == 0
Main == 1              \* the MARKET the strict scripts build on, which exists
LiveFeed == 2          \* the Pyth feed of the underlying, which exists
Addresses == 3 .. MaxAddress
Strict == {"eusx", "fresh", "irm"}
Reporting == Strict \cup {"panel"}
Scripts == Reporting \cup {"oracles", "deploy", "market", "complete", "localnet"}

\* What configureReserve sets, in its order.
Fields == <<"name", "price_age", "twap_age", "oracle", "ltv", "threshold",
            "borrow_factor", "curve", "deposit_limit", "borrow_limit",
            "outside_limit">>
FieldSet == {Fields[i] : i \in DOMAIN Fields}

NoFile == [market |-> NoAddress, collateral |-> NoAddress, borrow |-> NoAddress,
           created |-> FALSE, collateral_oracle |-> NoAddress,
           borrow_oracle |-> NoAddress]

Known == Addresses \cup {NoAddress, Main, LiveFeed}

MSTypeOK ==
    /\ accounts \subseteq Addresses /\ priced \subseteq Addresses
    /\ config \subseteq accounts \X FieldSet
    /\ feed \subseteq accounts \X Known
    /\ pool \in [status : {"absent", "Initializing", "Active"},
                 market : Known, collateral : Known, borrow : Known]
    /\ {listed, seeded} \subseteq BOOLEAN
    /\ {oracles_file, deployment} \subseteq Known
    /\ script \in Scripts \cup {"none"}
    /\ faults \in 0 .. MaxFaults /\ runs \in 0 .. MaxRuns

-----------------------------------------------------------------------------
(* Transactions: what they need and what they do *)

Tx(do, at, in, field, value) ==
    [do |-> do, at |-> at, in |-> in, field |-> field, value |-> value]

CreateOracle(a) == Tx("create_oracle", a, NoAddress, "", NoAddress)
WriteOracle(a) == Tx("write_oracle", a, NoAddress, "", NoAddress)
InitMarket(a) == Tx("init_market", a, NoAddress, "", NoAddress)
InitReserve(a, market) == Tx("init_reserve", a, market, "", NoAddress)
InitWrappedReserve(a, market) == Tx("init_reserve", a, market, "wrapped", NoAddress)
Update(a, field, oracle) == Tx("update", a, NoAddress, field, oracle)
Register(market, collateral, borrow) == Tx("register", collateral, market, "", borrow)
Refresh(a, oracle) == Tx("refresh", a, NoAddress, "", oracle)
Simple(do) == Tx(do, NoAddress, NoAddress, "", NoAddress)
ForLocalPool(do, p) == Tx(do, p, NoAddress, "", NoAddress)

Creating == {"create_oracle", "init_market", "init_reserve", "init_local_pool"}

\* The pool setup-localnet creates is never registered, so nothing can be
\* minted for it.
CanExecute(tx) ==
    CASE tx.do \in Creating \ {"init_reserve"} -> tx.at \notin accounts
      [] tx.do = "write_oracle" -> tx.at \in accounts
      [] tx.do = "init_reserve" ->
            /\ tx.at \notin accounts /\ tx.in \in accounts \cup {Main}
            /\ tx.field = "wrapped" => seeded
      [] tx.do = "update" -> tx.at \in accounts
      [] tx.do = "refresh" -> <<tx.at, tx.value>> \in feed
      [] tx.do = "initialize_pool" -> pool.status = "absent"
      [] tx.do = "register" -> pool.status = "Initializing"
      [] tx.do = "add_participant" -> pool.status # "absent" /\ ~listed
      [] tx.do = "mint_wrapped" -> pool.status = "Active" /\ listed
      [] tx.do = "list_locally" -> tx.at \in accounts
      [] tx.do = "mint_locally" -> FALSE

Execute(tx) ==
    /\ CanExecute(tx)
    /\ accounts' = IF tx.do \in Creating
                   THEN accounts \cup {tx.at} ELSE accounts
    /\ priced' = IF tx.do = "write_oracle" THEN priced \cup {tx.at} ELSE priced
    /\ config' = IF tx.do = "update" THEN config \cup {<<tx.at, tx.field>>} ELSE config
    /\ feed' = IF tx.do = "update" /\ tx.field = "oracle"
               THEN {f \in feed : f[1] # tx.at} \cup {<<tx.at, tx.value>>} ELSE feed
    /\ pool' = CASE tx.do = "initialize_pool" -> [pool EXCEPT !.status = "Initializing"]
                 [] tx.do = "register" ->
                       [status |-> "Active", market |-> tx.in,
                        collateral |-> tx.at, borrow |-> tx.value]
                 [] OTHER -> pool
    /\ listed' = (listed \/ tx.do = "add_participant")
    /\ seeded' = (seeded \/ tx.do = "mint_wrapped")

Fault == faults < MaxFaults /\ faults' = faults + 1

Confirmed(tx) == Execute(tx) /\ UNCHANGED <<adrift, faults>>

\* Refused because of the ledger's state, or by klend for reasons of its own;
\* or lost; or sent and not confirmed.
Failed(tx) ==
    /\ \/ ~CanExecute(tx) /\ UNCHANGED <<adrift, faults>>
       \/ Fault /\ (UNCHANGED adrift \/ (CanExecute(tx) /\ adrift' = adrift \cup {tx}))
    /\ UNCHANGED ledger

Settle ==
    /\ \E tx \in adrift : adrift' = adrift \ {tx} /\ (Execute(tx) \/ UNCHANGED ledger)
    /\ UNCHANGED <<files, process, faults, runs>>

-----------------------------------------------------------------------------
(* Plans *)

Must(tx) == [tx |-> tx, must |-> TRUE]     \* failure ends the script
Try(tx) == [tx |-> tx, must |-> FALSE]     \* failure is printed
Look(what) == Try(Simple(what))            \* reads the ledger, then decides

AddressesOf(tx) == {tx.at, tx.in, tx.value}
InFile(f) == {f.market, f.collateral, f.borrow, f.collateral_oracle, f.borrow_oracle}
Used == accounts \cup {pool.market, pool.collateral, pool.borrow, oracles_file, deployment}
        \cup InFile(market_file) \cup InFile(local_file)
        \cup (UNION {InFile(reserve_file[s]) : s \in Reporting})
        \cup (UNION {AddressesOf(tx) : tx \in adrift})
        \cup (UNION {AddressesOf(plan[i].tx) : i \in DOMAIN plan}) \cup InFile(output)

\* The i-th of the key pairs generated together.
Generated(i) == CHOOSE a \in Addresses \ Used :
    Cardinality({b \in Addresses \ Used : b < a}) = i - 1

\* The bound on addresses leaves n key pairs to generate.
Left(n) == Cardinality(Addresses \ Used) >= n

\* createOracle of the strict scripts: allocate, then write_raw.
createOracle(a) == <<Must(CreateOracle(a)), Must(WriteOracle(a))>>

Mutant_configureReserve_Tolerant(reserve, oracle) ==
    [i \in DOMAIN Fields |-> Try(Update(reserve, Fields[i], oracle))]

Mutant_configureReserve_LimitsFirst(reserve, oracle) ==
    [i \in DOMAIN Fields |-> Must(Update(reserve, Fields[IF i = 1 THEN 1 ELSE 13 - i], oracle))]

configureReserve(reserve, oracle) ==
    [i \in DOMAIN Fields |-> Must(Update(reserve, Fields[i], oracle))]

\* setup-eusx-market and setup-fresh-reserves: two oracles, two reserves, then
\* their configurations.
TwoReserves(o1, o2, r1, r2) ==
    createOracle(o1) \o createOracle(o2)
    \o <<Must(InitReserve(r1, Main)), Must(InitReserve(r2, Main))>>
    \o configureReserve(r1, o1) \o configureReserve(r2, o2)

\* replace-reserve-irm: one oracle, one reserve, its configuration.
OneReserve(o, r) ==
    createOracle(o) \o <<Must(InitReserve(r, Main))>> \o configureReserve(r, o)

Updates(reserve, oracle, fields) ==
    [i \in DOMAIN fields |-> Try(Update(reserve, fields[i], oracle))]

Mutant_MarketPlan_GoesOn(market, collateral, borrow, oracle) ==
    <<Try(InitMarket(market)), Try(InitReserve(borrow, market))>>
    \o Updates(borrow, oracle, <<"oracle", "ltv", "threshold", "deposit_limit", "borrow_limit">>)
    \o <<Try(Register(market, collateral, borrow))>>

PanelFields == <<"name", "price_age", "twap_age", "oracle", "ltv", "threshold",
                 "borrow_factor", "deposit_limit", "borrow_limit", "outside_limit">>

\* MarketPanel: the curve stays klend's own; "Some configs may fail", and what
\* decides between its two reports is whether the reserve can be refreshed.
PanelPlan(reserve) ==
    <<Must(InitReserve(reserve, Main))>> \o Updates(reserve, LiveFeed, PanelFields)
    \o <<Must(Refresh(reserve, LiveFeed))>>

\* setup-devnet-market: only the market itself is indispensable.  The
\* collateral reserve is registered and left for complete-devnet-setup.
MarketPlan(market, collateral, borrow, oracle) ==
    <<Must(InitMarket(market)), Try(InitReserve(borrow, market))>>
    \o Updates(borrow, oracle, <<"oracle", "ltv", "threshold", "deposit_limit", "borrow_limit">>)
    \o <<Try(Register(market, collateral, borrow))>>

\* setup-localnet: mints of its own, so a pool, a market and a reserve of its
\* own every time; the oracle is the live feed.
LocalnetPlan(p, market, reserve) ==
    <<Try(ForLocalPool("init_local_pool", p)), Try(ForLocalPool("list_locally", p)),
      Try(ForLocalPool("mint_locally", p)), Must(InitMarket(market)),
      Try(InitReserve(reserve, market)), Try(Update(reserve, "oracle", LiveFeed))>>

CompleteFields == <<"oracle", "ltv", "threshold", "curve", "deposit_limit", "borrow_limit">>

CompletePlan == <<Look("look_borrow"), Look("look_entry"), Try(Simple("mint_wrapped")),
                  Look("look_collateral"), Look("look_configure")>>

\* What complete-devnet-setup decides when it looks, and the address it goes
\* on with: a key generated now, when the one in the file is no account.
CollateralExists == market_file.created /\ market_file.collateral \in accounts

Mutant_Decide_TrustsFile(what) ==
    CASE what = "look_borrow" ->
            IF market_file.borrow \in accounts
            THEN Updates(market_file.borrow, deployment, CompleteFields) ELSE <<>>
      [] what = "look_entry" -> IF listed THEN <<>> ELSE <<Try(Simple("add_participant"))>>
      [] what = "look_collateral" ->
            IF market_file.created THEN <<>>
            ELSE <<Try(InitWrappedReserve(Generated(1), market_file.market))>>
      [] what = "look_configure" ->
            IF output.collateral \in accounts
            THEN Updates(output.collateral, LiveFeed, CompleteFields) ELSE <<>>

Decide(what) ==
    CASE what = "look_borrow" ->
            IF market_file.borrow \in accounts
            THEN Updates(market_file.borrow, deployment, CompleteFields) ELSE <<>>
      [] what = "look_entry" -> IF listed THEN <<>> ELSE <<Try(Simple("add_participant"))>>
      [] what = "look_collateral" ->
            IF CollateralExists THEN <<>>
            ELSE <<Try(InitWrappedReserve(Generated(1), market_file.market))>>
      [] what = "look_configure" ->
            IF output.collateral \in accounts
            THEN Updates(output.collateral, LiveFeed, CompleteFields) ELSE <<>>

Looks == {"look_borrow", "look_entry", "look_collateral", "look_configure"}

-----------------------------------------------------------------------------
(* Running *)

Start(s, steps, result) ==
    /\ script = "none"
    /\ script' = s /\ plan' = steps /\ output' = result
    /\ UNCHANGED <<ledger, files, adrift, faults>>

Exit == script' = "none" /\ plan' = <<>> /\ output' = NoFile

\* Runs that leave accounts behind each time.
Creates == runs < MaxRuns /\ runs' = runs + 1

\* What the files and the panel say of what was made.
ReservesFile(r1, o1, r2, o2) ==
    [market |-> Main, collateral |-> r1, borrow |-> r2, created |-> TRUE,
     collateral_oracle |-> o1, borrow_oracle |-> o2]

\* The collateral reserve is "pending".
MarketFile(m, c, b, o) ==
    [market |-> m, collateral |-> c, borrow |-> b, created |-> FALSE,
     collateral_oracle |-> LiveFeed, borrow_oracle |-> o]

LocalFile(m, r) == [NoFile EXCEPT !.market = m, !.borrow = r, !.borrow_oracle = LiveFeed]

RunTwoReserves(s) ==
    LET o1 == Generated(1)  o2 == Generated(2)  r1 == Generated(3)  r2 == Generated(4) IN
    /\ Creates /\ Left(4)
    /\ Start(s, TwoReserves(o1, o2, r1, r2), ReservesFile(r1, o1, r2, o2))

setup_eusx_market == RunTwoReserves("eusx")
setup_fresh_reserves == RunTwoReserves("fresh")

replace_reserve_irm ==
    LET o == Generated(1)  r == Generated(2) IN
    /\ Creates /\ Left(2)
    /\ Start("irm", OneReserve(o, r), ReservesFile(r, o, r, o))

handleCreateReserve ==
    LET r == Generated(1) IN
    /\ Creates /\ Left(1)
    /\ Start("panel", PanelPlan(r),
             [NoFile EXCEPT !.market = Main, !.collateral = r, !.collateral_oracle = LiveFeed])

\* The data of the mock oracle is built and never written.
setup_devnet_oracles ==
    LET o == Generated(1) IN
    /\ Creates /\ Left(1)
    /\ Start("oracles", <<Try(CreateOracle(o))>>, [NoFile EXCEPT !.borrow_oracle = o])

deploy_governor ==
    /\ Start("deploy", IF pool.status = "absent" THEN <<Try(Simple("initialize_pool"))>>
                       ELSE <<>>,
             [NoFile EXCEPT !.borrow_oracle = oracles_file])
    /\ UNCHANGED runs

\* Without oracles-deployed.json the live feed serves both reserves.
setup_devnet_market ==
    LET m == Generated(1)  c == Generated(2)  b == Generated(3)
        o == IF oracles_file = NoAddress THEN LiveFeed ELSE oracles_file
    IN
    /\ Creates /\ Left(3)
    /\ Start("market", MarketPlan(m, c, b, o), MarketFile(m, c, b, o))

setup_localnet ==
    LET p == Generated(1)  m == Generated(2)  r == Generated(3) IN
    /\ Creates /\ Left(3)
    /\ Start("localnet", LocalnetPlan(p, m, r), LocalFile(m, r))

\* Needs both files, and an oracle address in deployment.json.
complete_devnet_setup ==
    /\ market_file # NoFile /\ deployment # NoAddress
    /\ Start("complete", CompletePlan, [market_file EXCEPT !.created = TRUE])
    /\ UNCHANGED runs

Run ==
    \/ setup_eusx_market \/ setup_fresh_reserves \/ replace_reserve_irm
    \/ setup_devnet_oracles \/ deploy_governor \/ setup_devnet_market
    \/ complete_devnet_setup \/ setup_localnet \/ handleCreateReserve

\* A step that looks; the address of a reserve about to be created is the one
\* that is saved, whether or not its creation succeeds.
LookAround ==
    LET what == Head(plan).tx.do IN
    /\ plan # <<>> /\ what \in Looks /\ Left(1)
    /\ plan' = Decide(what) \o Tail(plan)
    /\ output' = IF what = "look_collateral" /\ Decide(what) # <<>>
                 THEN [output EXCEPT !.collateral = Generated(1)] ELSE output
    /\ UNCHANGED <<ledger, files, script, adrift, faults, runs>>

SendNext ==
    LET step == Head(plan) IN
    /\ plan # <<>> /\ step.tx.do \notin Looks
    /\ \/ Confirmed(step.tx) /\ plan' = Tail(plan) /\ UNCHANGED <<script, output>>
       \/ Failed(step.tx) /\ ~step.must /\ plan' = Tail(plan) /\ UNCHANGED <<script, output>>
       \/ Failed(step.tx) /\ step.must /\ Exit
    /\ UNCHANGED <<files, runs>>

\* fs.writeFileSync, the last thing a script does.
Save ==
    /\ script # "none" /\ plan = <<>>
    /\ oracles_file' = IF script = "oracles" THEN output.borrow_oracle ELSE oracles_file
    /\ deployment' = IF script = "deploy" THEN output.borrow_oracle ELSE deployment
    /\ market_file' = IF script \in {"market", "complete"} THEN output ELSE market_file
    /\ local_file' = IF script = "localnet" THEN output ELSE local_file
    /\ reserve_file' = IF script \in Reporting THEN [reserve_file EXCEPT ![script] = output]
                       ELSE reserve_file
    /\ Exit /\ UNCHANGED <<ledger, adrift, faults, runs>>

\* The process is killed, or an await outside any try block throws.
Abort == script # "none" /\ Fault /\ Exit /\ UNCHANGED <<ledger, files, adrift, runs>>

ScriptStep == LookAround \/ SendNext \/ Save

MSInit ==
    /\ accounts = {} /\ priced = {} /\ config = {} /\ feed = {}
    /\ pool = [status |-> "absent", market |-> NoAddress, collateral |-> NoAddress,
               borrow |-> NoAddress]
    /\ listed = FALSE /\ seeded = FALSE
    /\ oracles_file = NoAddress /\ deployment = NoAddress
    /\ market_file = NoFile /\ local_file = NoFile /\ reserve_file = [s \in Reporting |-> NoFile]
    /\ script = "none" /\ plan = <<>> /\ output = NoFile
    /\ adrift = {} /\ faults = 0 /\ runs = 0

MSNext == Run \/ ScriptStep \/ Abort \/ Settle

MSSpec == MSInit /\ [][MSNext]_msVars

\* A script that runs gets on, what is adrift settles, and the operator runs
\* complete-devnet-setup again and again.  Faults are finitely many.
MSFairSpec ==
    /\ MSSpec
    /\ WF_msVars(ScriptStep) /\ WF_msVars(Settle) /\ SF_msVars(complete_devnet_setup)

-----------------------------------------------------------------------------
(* Properties *)

\* What setup-eusx-market or setup-fresh-reserves saved, or replace-reserve-irm
\* printed for the frontends' configuration, exists in full: reserves with
\* every field set, reading oracles that carry a price.  What MarketPanel
\* reports as configured reads the token's oracle, if nothing more.
SavedReservesAreReady ==
    /\ \A s \in Strict :
          LET f == reserve_file[s] IN
          f # NoFile =>
              \A p \in {<<f.collateral, f.collateral_oracle>>, <<f.borrow, f.borrow_oracle>>} :
                  /\ {p[1]} \X FieldSet \subseteq config
                  /\ p \in feed /\ p[2] \in priced
    /\ LET f == reserve_file["panel"] IN
       f # NoFile => <<f.collateral, f.collateral_oracle>> \in feed

\* A reserve of a strict script, which alone sets both a name and a curve,
\* accepts deposits only once it can value them, wherever the script was
\* interrupted and whatever landed late.  The types hold as well.
LimitsAreLast ==
    /\ MSTypeOK
    /\ \A r \in accounts :
          {r} \X {"name", "curve", "deposit_limit"} \subseteq config =>
              /\ {r} \X {"oracle", "ltv", "threshold"} \subseteq config
              /\ \E o \in priced : <<r, o>> \in feed

\* A market that a pool registered, which it can do once, or that a file names
\* for the frontends, is a market that exists.
NamedMarketExists ==
    {pool.market, market_file.market, local_file.market} \subseteq accounts \cup {NoAddress}

\* Re-running complete-devnet-setup for an active pool ends with a collateral
\* reserve that exists and is configured, at the address in market-deployed.json.
CollateralIsCompleted ==
    (pool.status = "Active" /\ market_file # NoFile /\ deployment # NoAddress) ~>
        (CollateralExists /\ {market_file.collateral}
                              \X {CompleteFields[i] : i \in DOMAIN CompleteFields} \subseteq config)

=============================================================================
