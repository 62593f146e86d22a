------------------------------ MODULE Savings ------------------------------
(***************************************************************************)
(* The retail savings page of one depositor: DepositCard and WithdrawCard  *)
(* over one klend reserve, the hooks that poll the reserve and the balance *)
(* of cTokens, and the faucet that mints the test USDC to deposit.         *)
(*                                                                         *)
(* The page converts between USDC and cTokens with a rate it read up to 30 *)
(* seconds ago, values a balance of up to 15 seconds ago, and nothing      *)
(* orders the answers of the polls that are under way.  Amounts are        *)
(* integers in native units, and rates are quotients of them, kept exact.  *)
(***************************************************************************)
EXTENDS Integers, Sequences, FiniteSets

CONSTANTS Tabs,          \* pages of the same wallet; deposits are made in Main
          Main,
          Amounts,       \* what is typed
          Enough, Grant, \* of USDC: hides the faucet; minted per request
          Cooldown,      \* COOLDOWN_MS, in ticks
          StartUsdc, StartAvailable, StartBorrowed, StartSupply,
          MaxPolls,      \* bound on polls under way
          MaxTicks, MaxEvents, MaxClicks, MaxFaults   \* bounds

ASSUME SavingsAssumption ==
    /\ Main \in Tabs /\ IsFiniteSet(Tabs)
    /\ Amounts \subseteq Nat \ {0}
    /\ {Enough, Grant, StartUsdc, StartAvailable, StartBorrowed, StartSupply,
        MaxTicks, MaxEvents, MaxClicks, MaxFaults} \subseteq Nat
    /\ 0 < StartSupply
    /\ StartSupply <= StartAvailable + StartBorrowed   \* klend's rate starts at 1
    /\ MaxPolls \in Nat \ {0} /\ Cooldown \in Nat \ {0}

VARIABLES
    reserve,    \* available, borrowed, fees, and the cTokens in circulation
    held,       \* the depositor's cTokens
    usdc,       \* and USDC
    rate,       \* useReserveData: what the page takes a cToken to be worth
    balance,    \* useCTokenBalance: cTokens and the rate they were valued with
    shownUsdc,  \* usdcBalance
    polls,      \* answers about the cTokens on their way
    card,       \* the cards, and the transaction each is about
    faucet,     \* FaucetCard of each tab
    cooldowns,  \* the server's map: time of the wallet's last request
    grants,     \* times of the requests granted since the server started
    clock, events, clicks, faults

ledger == <<reserve, held, usdc>>
shown == <<rate, balance, shownUsdc, polls>>
server == <<faucet, cooldowns, grants>>
savingsVars == <<ledger, shown, card, server, clock, events, clicks, faults>>

Never == -1
NoTx == [usdc |-> 0, cTokens |-> 0, of |-> 0, rate |-> <<1, 1>>]
Cards == {"deposit", "withdraw"}

SavingsTypeOK ==
    /\ \A f \in {"available", "borrowed", "fees", "supply"} : reserve[f] \in Nat
    /\ held \in 0 .. reserve.supply /\ usdc \in Nat /\ shownUsdc \in Nat
    /\ rate \in Seq(Nat \ {0}) /\ Len(rate) = 2
    /\ balance.cTokens \in Nat /\ Cardinality(polls) <= MaxPolls
    /\ \A c \in Cards : card[c].at \in {"idle", "built", "sent"}
    /\ faucet \in [Tabs -> {"idle", "minting", "success"}]
    /\ cooldowns \in {Never} \cup 0 .. MaxTicks

-----------------------------------------------------------------------------
(* klend: a reserve owes its depositors what it has and has lent, less fees *)

Liquidity == reserve.available + reserve.borrowed
Owed == Liquidity - reserve.fees

Minted(n) == (n * reserve.supply) \div Owed
Redeemed(c) == (c * Owed) \div reserve.supply

CanDeposit(tx) == tx.usdc <= usdc /\ Minted(tx.usdc) > 0
CanRedeem(tx) ==
    /\ 0 < tx.cTokens /\ tx.cTokens <= held
    /\ 0 < Redeemed(tx.cTokens) /\ Redeemed(tx.cTokens) <= reserve.available

-----------------------------------------------------------------------------
(* What the page reads *)

\* decodeReserveInfo: fees that are not the depositors' are counted in.
decodeReserveInfo ==
    IF Liquidity > 0 /\ reserve.supply > 0 THEN <<Liquidity, reserve.supply>> ELSE <<1, 1>>

useReserveData_fetch ==
    /\ rate # decodeReserveInfo
    /\ rate' = decodeReserveInfo
    /\ UNCHANGED <<ledger, balance, shownUsdc, polls, card, server, clock, events,
                   clicks, faults>>

\* The ledger's answer, with the rate the effect closed over.  An error is
\* shown as no deposit.
Answer == [cTokens |-> held, rate |-> rate]

Mutant_fetchBal_Once ==
    /\ balance.cTokens = 0 /\ polls = {} /\ held = 0
    /\ polls' = {Answer}
    /\ UNCHANGED <<ledger, rate, balance, shownUsdc, card, server, clock, events,
                   clicks, faults>>

fetchBal ==
    /\ Cardinality(polls) < MaxPolls /\ balance # Answer
    /\ polls' = polls \cup {Answer}
    /\ UNCHANGED <<ledger, rate, balance, shownUsdc, card, server, clock, events,
                   clicks, faults>>

fetchBal_answers ==
    /\ \E a \in polls : balance' = a /\ polls' = polls \ {a}
    /\ UNCHANGED <<ledger, rate, shownUsdc, card, server, clock, events, clicks, faults>>

fetchBal_fails ==
    /\ faults < MaxFaults /\ faults' = faults + 1
    /\ \E a \in polls : polls' = polls \ {a}
    /\ balance' = [cTokens |-> 0, rate |-> rate]
    /\ UNCHANGED <<ledger, rate, shownUsdc, card, server, clock, events, clicks>>

-----------------------------------------------------------------------------
(* The cards *)

Busy(c) == card[c].at \in {"built", "sent"}
Fill(c, tx) == card' = [card EXCEPT ![c] = [at |-> "built", tx |-> tx]]
Click == clicks < MaxClicks /\ clicks' = clicks + 1

handleDeposit ==
    /\ ~Busy("deposit") /\ Click
    /\ \E n \in Amounts : n <= shownUsdc /\ Fill("deposit", [NoTx EXCEPT !.usdc = n])
    /\ UNCHANGED <<ledger, shown, server, clock, events, faults>>

\* n USDC is no more than the balance is valued at.
WithinMax(n) == n * balance.rate[2] <= balance.cTokens * balance.rate[1]

Mutant_ToCTokens_Inverted(n) == (n * rate[1]) \div rate[2]
Mutant_ToCTokens_WholeRate(n) == n \div ((rate[1] + rate[2] - 1) \div rate[2])

\* floor(usdcNative / exchangeRate)
ToCTokens(n) == (n * rate[2]) \div rate[1]

handleWithdraw ==
    /\ ~Busy("withdraw") /\ Click
    /\ balance.cTokens > 0
    /\ \E n \in Amounts :
          /\ WithinMax(n)
          /\ Fill("withdraw", [usdc |-> n, cTokens |-> ToCTokens(n),
                               of |-> balance.cTokens, rate |-> rate])
    /\ UNCHANGED <<ledger, shown, server, clock, events, faults>>

\* Simulated when it is sent; a user may decline.
SignAndSend(c) ==
    /\ card[c].at = "built"
    /\ \/ /\ IF c = "deposit" THEN CanDeposit(card[c].tx) ELSE CanRedeem(card[c].tx)
          /\ card' = [card EXCEPT ![c].at = "sent"]
       \/ card' = [card EXCEPT ![c] = [at |-> "idle", tx |-> NoTx]]
    /\ UNCHANGED <<ledger, shown, server, clock, events, clicks, faults>>

\* An error is shown as no USDC.
refreshUsdcBalance == shownUsdc' \in {0, usdc'}

\* confirmTransaction resolves for a transaction that failed, too.  onSuccess
\* reads both balances again, not the rate.
Confirmed(c) ==
    /\ card' = [card EXCEPT ![c] = [at |-> "idle", tx |-> NoTx]]
    /\ refreshUsdcBalance
    /\ polls' = IF Cardinality(polls) < MaxPolls
                THEN polls \cup {[cTokens |-> held', rate |-> rate]} ELSE polls
    /\ UNCHANGED <<rate, balance, server, clock, events, clicks, faults>>

Deposited ==
    LET tx == card["deposit"].tx IN
    /\ card["deposit"].at = "sent"
    /\ IF CanDeposit(tx)
       THEN /\ usdc' = usdc - tx.usdc
            /\ held' = held + Minted(tx.usdc)
            /\ reserve' = [reserve EXCEPT !.available = @ + tx.usdc,
                                          !.supply = @ + Minted(tx.usdc)]
       ELSE UNCHANGED ledger
    /\ Confirmed("deposit")

Withdrawn ==
    LET tx == card["withdraw"].tx  got == Redeemed(tx.cTokens) IN
    /\ card["withdraw"].at = "sent"
    /\ IF CanRedeem(tx)
       THEN /\ usdc' = usdc + got
            /\ held' = held - tx.cTokens
            /\ reserve' = [reserve EXCEPT !.available = @ - got, !.supply = @ - tx.cTokens]
       ELSE UNCHANGED ledger
    /\ Confirmed("withdraw")

-----------------------------------------------------------------------------
(* The faucet: FaucetCard and faucet-server.ts *)

Mutant_faucet_server_LateCooldown(t) ==
    /\ faucet' = [faucet EXCEPT ![t] = "minting"]
    /\ grants' = Append(grants, clock)
    /\ cooldowns' = IF \E u \in Tabs : faucet[u] = "success" THEN clock ELSE cooldowns

\* The cooldown starts with the request, before the tokens are minted.
faucet_server(t) ==
    IF cooldowns # Never /\ clock - cooldowns < Cooldown
    THEN UNCHANGED server
    ELSE /\ faucet' = [faucet EXCEPT ![t] = "minting"]
         /\ cooldowns' = clock /\ grants' = Append(grants, clock)

requestUsdc(t) ==
    /\ faucet[t] # "minting" /\ (t = Main => shownUsdc < Enough)
    /\ faucet_server(t)
    /\ UNCHANGED <<ledger, shown, card, clock, events, clicks, faults>>

mintTo(t) ==
    /\ faucet[t] = "minting"
    /\ faucet' = [faucet EXCEPT ![t] = "success"] /\ usdc' = usdc + Grant
    /\ UNCHANGED <<reserve, held, shown, card, cooldowns, grants, clock, events,
                   clicks, faults>>

mintTo_fails(t) ==
    /\ faucet[t] = "minting" /\ faults < MaxFaults /\ faults' = faults + 1
    /\ faucet' = [faucet EXCEPT ![t] = "idle"]
    /\ UNCHANGED <<ledger, shown, card, cooldowns, grants, clock, events, clicks>>

onMinted(t) ==
    /\ faucet[t] = "success" /\ faucet' = [faucet EXCEPT ![t] = "idle"]
    /\ UNCHANGED <<ledger, rate, balance, polls, card, cooldowns, grants, clock, events,
                   clicks, faults>>
    /\ IF t = Main THEN refreshUsdcBalance ELSE UNCHANGED shownUsdc

\* The map is kept in memory.
Restart ==
    /\ faults < MaxFaults /\ faults' = faults + 1
    /\ cooldowns' = Never /\ grants' = <<>>
    /\ faucet' = [t \in Tabs |-> IF faucet[t] = "minting" THEN "idle" ELSE faucet[t]]
    /\ UNCHANGED <<ledger, shown, card, clock, events, clicks>>

Tick ==
    /\ cooldowns # Never /\ clock < MaxTicks /\ clock' = clock + 1
    /\ UNCHANGED <<ledger, shown, card, server, events, clicks, faults>>

\* Interest accrues, a part of it as fees; others borrow, repay and deposit.
Others ==
    /\ events < MaxEvents /\ events' = events + 1
    /\ \/ \E fee \in 0 .. 1 :
             reserve.borrowed > 0
             /\ reserve' = [reserve EXCEPT !.borrowed = @ + 3, !.fees = @ + fee]
       \/ /\ reserve.available > 0
          /\ reserve' = [reserve EXCEPT !.borrowed = @ + reserve.available, !.available = 0]
       \/ /\ reserve.borrowed > 0
          /\ reserve' = [reserve EXCEPT !.available = @ + reserve.borrowed, !.borrowed = 0]
       \/ \E n \in Amounts :
             reserve' = [reserve EXCEPT !.available = @ + n, !.supply = @ + Minted(n)]
    /\ UNCHANGED <<held, usdc, shown, card, server, clock, clicks, faults>>

\* A reserve is created with a deposit that nobody can redeem.
SavingsInit ==
    /\ reserve = [available |-> StartAvailable, borrowed |-> StartBorrowed, fees |-> 0,
                   supply |-> StartSupply]
    /\ held = 0 /\ usdc = StartUsdc /\ shownUsdc = StartUsdc
    /\ rate = <<1, 1>> /\ balance = [cTokens |-> 0, rate |-> <<1, 1>>] /\ polls = {}
    /\ card = [c \in Cards |-> [at |-> "idle", tx |-> NoTx]]
    /\ faucet = [t \in Tabs |-> "idle"] /\ cooldowns = Never /\ grants = <<>>
    /\ clock = 0 /\ events = 0 /\ clicks = 0 /\ faults = 0

SavingsNext ==
    \/ useReserveData_fetch \/ fetchBal \/ fetchBal_answers \/ fetchBal_fails
    \/ handleDeposit \/ handleWithdraw \/ Deposited \/ Withdrawn
    \/ \E c \in Cards : SignAndSend(c)
    \/ \E t \in Tabs : requestUsdc(t) \/ mintTo(t) \/ mintTo_fails(t)
                       \/ onMinted(t)
    \/ Restart \/ Tick \/ Others

SavingsSpec == SavingsInit /\ [][SavingsNext]_savingsVars

\* The hooks poll for as long as the page is open.
SavingsFairSpec ==
    /\ SavingsSpec
    /\ WF_savingsVars(useReserveData_fetch) /\ WF_savingsVars(fetchBal)
    /\ WF_savingsVars(fetchBal_answers)

-----------------------------------------------------------------------------
(* Properties *)

\* The state is well typed, and WithdrawCard asks for no more cTokens than the
\* page shows: the rate it divides by is never below the one the balance was
\* valued with, though the two are read at different times.  Fees break this:
\* the shown rate counts them, so a deposit made after they accrued lowers it.
RedeemsAtMostShown ==
    /\ SavingsTypeOK
    /\ card["withdraw"].at \in {"built", "sent"} /\ reserve.fees = 0 =>
          card["withdraw"].tx.cTokens <= card["withdraw"].tx.of

\* A redemption pays what was typed, but for the rounding (a unit, and the
\* worth of a cToken) and the fees' share of the liquidity the shown rate
\* counts in.
PaysWhatWasAsked ==
    [][Withdrawn /\ CanRedeem(card["withdraw"].tx) =>
          LET tx == card["withdraw"].tx IN
          (usdc' - usdc + 1) * tx.rate[1] * tx.rate[2] >=
             (tx.usdc * tx.rate[2] - tx.rate[1]) * (tx.rate[1] - reserve.fees)]_savingsVars

\* However many tabs ask, the server that runs grants a wallet one request
\* per cooldown.
GrantsAreSpaced ==
    \A i, j \in DOMAIN grants : i < j => grants[j] - grants[i] >= Cooldown

\* Whatever order the polls were answered in, the page comes to show the
\* depositor's cTokens.
BalanceConverges == <>[](balance.cTokens = held)

=============================================================================
