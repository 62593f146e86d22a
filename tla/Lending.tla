------------------------------ MODULE Lending ------------------------------
(***************************************************************************)
(* The pages with which one wallet prepares collateral, deposits, borrows, *)
(* repays and withdraws: PositionsPage, BorrowPage, CollateralPage and     *)
(* PreparePage of the institutional frontend, LendingPanel of the console, *)
(* open in several tabs over one klend market.                             *)
(*                                                                         *)
(* A handler checks what its page shows, reads the ledger, builds one      *)
(* transaction, has it signed and simulated, sends it and waits.  Between  *)
(* any two of these the ledger may change, by another tab or from outside. *)
(* A transaction that fails only when it is executed is confirmed all the  *)
(* same: confirmTransaction resolves, and the pages do not look at its err.*)
(***************************************************************************)
EXTENDS Integers, FiniteSets, Functions

CONSTANTS Collateral,    \* reserves for collateral: COLLATERAL_ASSETS
          First,         \* deUSX, the only one BorrowPage knows
          Second,        \* dtUSDY, the only one the console knows
          Usdc,          \* USDC_RESERVE
          Ltv, Threshold,   \* per reserve, in percent
          Quoted,        \* the price PositionsPage is built with
          Prices,        \* prices an oracle may carry
          StartWallet, StartLiquidity,
          StartPositions,  \* what the wallet may hold when the pages are opened
          Amounts,       \* amounts a user enters
          MaxClicks, MaxEvents, MaxTabs  \* bounds

ASSUME LendingAssumption ==
    /\ IsFiniteSet(Collateral) /\ Usdc \notin Collateral /\ {First, Second} \subseteq Collateral
    /\ (Collateral \cup {Usdc}) \cap {"usdc_in", "usx", "eusx"} = {}
    /\ Ltv \in [Collateral -> 0 .. 100] /\ Threshold \in [Collateral -> 0 .. 100]
    /\ Prices \subseteq Nat \ {0} /\ Quoted \in Prices
    /\ StartPositions \subseteq [exists : {TRUE}, deposits : [Collateral -> Nat], debt : Nat]
    /\ StartWallet \in [Collateral \cup {Usdc, "usdc_in", "usx", "eusx"} -> Nat]
    /\ StartLiquidity \in Nat /\ Amounts \subseteq Nat \ {0}
    /\ {MaxClicks, MaxEvents, MaxTabs} \subseteq Nat

VARIABLES
    obligation,  \* the wallet's two obligations: OB_ID 3 of the pages, 0 of the console
    wallet,      \* its tokens
    liquidity,   \* available in the USDC reserve
    price,       \* what the oracles carry
    page,        \* the tabs
    adrift,      \* sent, given up, may still be executed
    clicks, events

ledger == <<obligation, wallet, liquidity, price>>
lendingVars == <<ledger, page, adrift, clicks, events>>

Institutional == {"positions", "borrow", "collateral", "prepare"}
Pages == Institutional \cup {"console"}
ObligationOf(p) == IF p = "console" THEN "console" ELSE "pages"
Raw == {"usdc_in", "usx", "eusx"}     \* what PreparePage turns into First
Tokens == Collateral \cup {Usdc} \cup Raw

NoTx == [op |-> "none", id |-> "pages", reserve |-> Usdc, into |-> Usdc, amount |-> 0,
         init |-> FALSE, refreshed |-> {}, last |-> Usdc, listed |-> {}, seen |-> {}]
Closed == [at |-> "closed", shown |-> [obligation |-> FALSE], tx |-> NoTx]

Sum(f) == FoldFunction(+, 0, f)

\* findObligationReserves: the reserves an obligation has positions in.
Reserves(o) == {r \in Collateral : o.deposits[r] > 0} \cup (IF o.debt > 0 THEN {Usdc} ELSE {})

LendingTypeOK ==
    /\ \A i \in {"pages", "console"} :
          /\ obligation[i].exists \in BOOLEAN
          /\ obligation[i].deposits \in [Collateral -> Nat]
          /\ obligation[i].debt \in Nat
          /\ ~obligation[i].exists => Reserves(obligation[i]) = {}
    /\ wallet \in [Tokens -> Nat]
    /\ liquidity \in Nat
    /\ price \in [Collateral -> Prices]
    /\ clicks \in 0 .. MaxClicks /\ events \in 0 .. MaxEvents

-----------------------------------------------------------------------------
(* klend: what makes a transaction fail, and what it does *)

\* Every reserve of the obligation is refreshed and listed, and the reserve
\* the operation is about is refreshed last.
RefreshFits(tx, o) ==
    /\ tx.init = ~o.exists
    /\ tx.listed = Reserves(o) /\ Reserves(o) \subseteq tx.refreshed
    /\ tx.last = tx.reserve

Limit(deposits) == Sum([r \in Collateral |-> deposits[r] * price[r] * Ltv[r]])
Least(a, b) == IF a < b THEN a ELSE b

Mutant_OperationFits_Unchecked(tx, o) ==
    CASE tx.op = "withdraw" -> o.debt * 100 <= Limit(o.deposits)
      [] tx.op = "borrow" -> (o.debt + tx.amount) * 100 <= Limit(o.deposits)
      [] OTHER -> TRUE

OperationFits(tx, o) ==
    CASE tx.op = "deposit" -> wallet[tx.reserve] >= tx.amount
      [] tx.op = "withdraw" ->
            /\ o.deposits[tx.reserve] >= tx.amount
            /\ o.debt * 100 <= Limit([o.deposits EXCEPT ![tx.reserve] = @ - tx.amount])
      [] tx.op = "borrow" ->
            /\ tx.amount <= liquidity
            /\ (o.debt + tx.amount) * 100 <= Limit(o.deposits)
      [] tx.op = "repay" -> o.debt > 0 /\ wallet[Usdc] >= Least(tx.amount, o.debt)
      [] tx.op = "convert" -> wallet[tx.reserve] >= tx.amount
      [] tx.op = "none" -> FALSE

Accepts(tx) ==
    LET o == obligation[tx.id] IN
    /\ tx.op \in {"convert", "none"} \/ RefreshFits(tx, o)
    /\ OperationFits(tx, o)

Execute(tx) ==
    LET r == tx.reserve  n == tx.amount  paid == Least(n, obligation[tx.id].debt) IN
    /\ UNCHANGED price
    /\ \/ /\ tx.op = "deposit"
          /\ obligation' = [obligation EXCEPT ![tx.id].exists = TRUE, ![tx.id].deposits[r] = @ + n]
          /\ wallet' = [wallet EXCEPT ![r] = @ - n] /\ UNCHANGED liquidity
       \/ /\ tx.op = "withdraw"
          /\ obligation' = [obligation EXCEPT ![tx.id].deposits[r] = @ - n]
          /\ wallet' = [wallet EXCEPT ![r] = @ + n] /\ UNCHANGED liquidity
       \/ /\ tx.op = "borrow"
          /\ obligation' = [obligation EXCEPT ![tx.id].debt = @ + n]
          /\ wallet' = [wallet EXCEPT ![Usdc] = @ + n] /\ liquidity' = liquidity - n
       \/ /\ tx.op = "repay"
          /\ obligation' = [obligation EXCEPT ![tx.id].debt = @ - paid]
          /\ wallet' = [wallet EXCEPT ![Usdc] = @ - paid] /\ liquidity' = liquidity + paid
       \/ /\ tx.op = "convert"
          /\ wallet' = [wallet EXCEPT ![r] = @ - n, ![tx.into] = @ + n]
          /\ UNCHANGED <<obligation, liquidity>>

\* Executed, with or without success.
Executed(tx) == IF Accepts(tx) THEN Execute(tx) ELSE UNCHANGED ledger

-----------------------------------------------------------------------------
(* What the pages show and enable *)

\* Position and reserve are read, prices are the page's own.
PositionsPage_loadPosition ==
    [position |-> obligation["pages"], liquidity |-> liquidity]

Worth(o) == Sum([r \in Collateral |-> o.deposits[r] * Quoted])
Deposited(o) == {r \in Collateral : o.deposits[r] > 0}

\* The terms of deposits[0] stand for all; deposits are in the order of
\* RESERVE_META.
TermsOf(o) == IF o.deposits[First] > 0 THEN First ELSE Second

Mutant_PositionsPage_maxBorrow_Threshold(o) ==
    IF Deposited(o) = {} THEN 0
    ELSE (Worth(o) * Threshold[TermsOf(o)]) \div 100 - o.debt

\* In amounts; negative values count as 0.
PositionsPage_maxBorrow(o) ==
    IF Deposited(o) = {} THEN 0
    ELSE (Worth(o) * Ltv[TermsOf(o)]) \div 100 - o.debt

PositionsPage_withdrawable(o, r, n) ==
    /\ r \in Deposited(o) /\ n <= o.deposits[r]
    /\ o.debt > 0 => (Worth(o) - n * Quoted) * Threshold[TermsOf(o)] >= o.debt * 100

PositionsPage_enables(s, op, r, n) ==
    CASE op = "deposit" -> r \in Collateral
      [] op = "withdraw" -> PositionsPage_withdrawable(s.position, r, n)
      [] op = "borrow" ->
            r = Usdc /\ n <= Least(PositionsPage_maxBorrow(s.position), s.liquidity)
      [] op = "repay" -> r = Usdc /\ s.position.debt > 0
      [] op = "convert" -> FALSE

\* Counts the deposit of First only, at the price its oracle carries.
BorrowPage_loadPosition ==
    LET o == obligation["pages"]  worth == o.deposits[First] * price[First] IN
    [borrowed |-> o.debt,
     available |-> Least((worth * Ltv[First]) \div 100 - o.debt, liquidity)]

BorrowPage_enables(s, op, r, n) ==
    /\ r = Usdc
    /\ \/ op = "borrow" /\ n <= s.available
       \/ op = "repay" /\ s.borrowed > 0

PreparePage_loadBalances == [balances |-> [t \in Raw |-> wallet[t]]]

\* The amount to mint is entered; locked and wrapped is all there is.
PreparePage_enables(s, op, r, n) ==
    /\ op = "convert" /\ r \in Raw
    /\ IF r = "usdc_in" THEN n <= s.balances[r] ELSE s.balances[r] > 0 /\ n = s.balances[r]

\* The console and CollateralPage show whether there is an obligation.
LendingPanel_load == [obligation |-> obligation["console"].exists]
CollateralPage_load == [obligation |-> obligation["pages"].exists]

Loads(p) ==
    CASE p = "positions" -> PositionsPage_loadPosition
      [] p = "borrow" -> BorrowPage_loadPosition
      [] p = "collateral" -> CollateralPage_load
      [] p = "prepare" -> PreparePage_loadBalances
      [] p = "console" -> LendingPanel_load

Enables(p, op, r, n) ==
    LET s == page[p].shown IN
    CASE p = "positions" -> PositionsPage_enables(s, op, r, n)
      [] p = "borrow" -> BorrowPage_enables(s, op, r, n)
      [] p = "collateral" -> op = "deposit" /\ r \in Collateral
      [] p = "prepare" -> PreparePage_enables(s, op, r, n)
      [] p = "console" ->
            \/ op = "deposit" /\ r = Second
            \/ op = "borrow" /\ r = Usdc /\ s.obligation

-----------------------------------------------------------------------------
(* The transactions the handlers build from what they read *)

Intent(op, r, n, id) == [NoTx EXCEPT !.op = op, !.reserve = r, !.amount = n, !.id = id]

Refreshing(tx, o, reserves) ==
    [tx EXCEPT !.refreshed = reserves, !.last = tx.reserve, !.listed = Reserves(o),
               !.init = ~o.exists, !.seen = {o}]

\* Others first, the reserve of the deposit last; an obligation is created on
\* the way when there is none.
PositionsPage_handleDeposit(tx, o) == Refreshing(tx, o, Reserves(o) \cup {tx.reserve})

PositionsPage_handleWithdraw(tx, o) == Refreshing(tx, o, Reserves(o) \cup {tx.reserve})

Mutant_PositionsPage_handleBorrow_Held(tx, o) ==
    [Refreshing(tx, o, Reserves(o)) EXCEPT
        !.last = IF Usdc \in Reserves(o) THEN Usdc ELSE First]

\* The borrow reserve is refreshed although the obligation may not hold it yet.
PositionsPage_handleBorrow(tx, o) == Refreshing(tx, o, Reserves(o) \cup {Usdc})

PositionsPage_handleRepay(tx, o) == Refreshing(tx, o, Reserves(o) \cup {Usdc})

\* Lists every reserve, refreshes two.
BorrowPage_handleBorrow(tx, o) == Refreshing(tx, o, {First, Usdc})

BorrowPage_handleRepay(tx, o) == Refreshing(tx, o, Reserves(o) \cup {Usdc})

CollateralPage_handleDeposit(tx, o) == Refreshing(tx, o, Reserves(o) \cup {tx.reserve})

\* Solstice converts USDC and USX, the governor wraps eUSX.
PreparePage_handleMintUSX(tx) == [tx EXCEPT !.into = "usx"]
PreparePage_handleLockUSX(tx) == [tx EXCEPT !.into = "eusx"]
PreparePage_handleWrapEUSX(tx) == [tx EXCEPT !.into = First]

\* What the panel believes decides, not what it reads.
LendingPanel_handleDeposit(tx, known) ==
    [tx EXCEPT !.refreshed = {Second}, !.last = Second, !.init = ~known,
               !.listed = IF known THEN {Second} ELSE {}]

LendingPanel_handleBorrow(tx) ==
    [tx EXCEPT !.refreshed = {Second, Usdc}, !.last = Usdc, !.listed = {Second}]

Builds(p, tx) ==
    LET o == obligation["pages"] IN
    CASE p = "positions" /\ tx.op = "deposit" -> PositionsPage_handleDeposit(tx, o)
      [] p = "positions" /\ tx.op = "withdraw" -> PositionsPage_handleWithdraw(tx, o)
      [] p = "positions" /\ tx.op = "borrow" -> PositionsPage_handleBorrow(tx, o)
      [] p = "positions" /\ tx.op = "repay" -> PositionsPage_handleRepay(tx, o)
      [] p = "borrow" /\ tx.op = "borrow" -> BorrowPage_handleBorrow(tx, o)
      [] p = "borrow" /\ tx.op = "repay" -> BorrowPage_handleRepay(tx, o)
      [] p = "collateral" -> CollateralPage_handleDeposit(tx, o)
      [] tx.reserve = "usdc_in" -> PreparePage_handleMintUSX(tx)
      [] tx.reserve = "usx" -> PreparePage_handleLockUSX(tx)
      [] tx.reserve = "eusx" -> PreparePage_handleWrapEUSX(tx)
      [] p = "console" /\ tx.op = "deposit" -> LendingPanel_handleDeposit(tx, page[p].shown.obligation)
      [] p = "console" /\ tx.op = "borrow" -> LendingPanel_handleBorrow(tx)

\* What a handler checks on the ledger before it builds.
Reads(p, tx) ==
    CASE tx.op \in {"withdraw", "borrow", "repay"} /\ p # "console" ->
            obligation["pages"].exists
      [] p = "collateral" -> tx.amount <= wallet[tx.reserve]
      [] OTHER -> TRUE

-----------------------------------------------------------------------------
(* The pages at work *)

At(p, where) == page[p].at = where

Open(p) ==
    /\ At(p, "closed")
    /\ Cardinality({q \in Pages : ~At(q, "closed")}) < MaxTabs
    /\ page' = [page EXCEPT ![p].at = "idle", ![p].shown = Loads(p)]
    /\ UNCHANGED <<ledger, adrift, clicks, events>>

Leave(p) ==
    /\ At(p, "idle")
    /\ page' = [page EXCEPT ![p] = Closed]
    /\ UNCHANGED <<ledger, adrift, clicks, events>>

Click(p) ==
    /\ At(p, "idle") /\ clicks < MaxClicks
    /\ \E op \in {"deposit", "withdraw", "borrow", "repay", "convert"},
          r \in Tokens, n \in Amounts :
          /\ Enables(p, op, r, n)
          /\ page' = [page EXCEPT ![p].at = "reading",
                                  ![p].tx = Intent(op, r, n, ObligationOf(p))]
    /\ clicks' = clicks + 1
    /\ UNCHANGED <<ledger, adrift, events>>

Ends(p) == page' = [page EXCEPT ![p].at = "idle", ![p].tx = NoTx]

Build(p) ==
    /\ At(p, "reading")
    /\ IF Reads(p, page[p].tx)
       THEN page' = [page EXCEPT ![p].at = "built", ![p].tx = Builds(p, page[p].tx)]
       ELSE Ends(p)
    /\ UNCHANGED <<ledger, adrift, clicks, events>>

\* Simulated before it is sent; a user may decline.
Sign(p) ==
    /\ At(p, "built")
    /\ \/ Accepts(page[p].tx) /\ page' = [page EXCEPT ![p].at = "sent"]
       \/ Ends(p)
    /\ UNCHANGED <<ledger, adrift, clicks, events>>

\* Confirmed.  The pages that show a position load it again, and go on showing
\* the old one when that fails; the console and CollateralPage take the
\* obligation for created.
Confirm(p) ==
    /\ At(p, "sent")
    /\ Executed(page[p].tx)
    /\ \E fails \in BOOLEAN :
          /\ fails => p \in {"positions", "borrow"}
          /\ page' = [page EXCEPT ![p].at = "idle", ![p].tx = NoTx,
                ![p].shown = IF p \in {"console", "collateral"} THEN [obligation |-> TRUE]
                             ELSE IF fails THEN @ ELSE Loads(p)']
    /\ UNCHANGED <<adrift, clicks, events>>

Event == events < MaxEvents /\ events' = events + 1

\* The confirmation does not come in time.
GiveUp(p) ==
    /\ At(p, "sent") /\ Event
    /\ adrift' = adrift \cup {page[p].tx}
    /\ Ends(p) /\ UNCHANGED <<ledger, clicks>>

Settle ==
    /\ \E tx \in adrift :
          adrift' = adrift \ {tx} /\ (Executed(tx) \/ UNCHANGED ledger)
    /\ UNCHANGED <<page, clicks, events>>

\* From outside: an oracle is written, interest accrues, others borrow or repay.
Outside ==
    /\ Event
    /\ \/ \E r \in Collateral, x \in Prices :
             price' = [price EXCEPT ![r] = x] /\ UNCHANGED <<obligation, liquidity>>
       \/ \E i \in {"pages", "console"} :
             /\ obligation[i].debt > 0
             /\ obligation' = [obligation EXCEPT ![i].debt = @ + 1]
             /\ UNCHANGED <<price, liquidity>>
       \/ /\ liquidity' \in {0, StartLiquidity}
          /\ UNCHANGED <<obligation, price>>
    /\ UNCHANGED <<wallet, page, adrift, clicks>>

NoObligation == [exists |-> FALSE, deposits |-> [r \in Collateral |-> 0], debt |-> 0]

LendingInit ==
    /\ \E o \in {NoObligation} \cup StartPositions :
          obligation = [i \in {"pages", "console"} |-> IF i = "pages" THEN o ELSE NoObligation]
    /\ wallet = StartWallet /\ liquidity = StartLiquidity
    /\ price = [r \in Collateral |-> Quoted]
    /\ page = [p \in Pages |-> Closed]
    /\ adrift = {} /\ clicks = 0 /\ events = 0

LendingNext ==
    \/ \E p \in Pages : Open(p) \/ Leave(p) \/ Click(p) \/ Build(p) \/ Sign(p)
                        \/ Confirm(p) \/ GiveUp(p)
    \/ Settle \/ Outside

LendingSpec == LendingInit /\ [][LendingNext]_lendingVars

-----------------------------------------------------------------------------
(* Properties *)

\* What klend asks of a transaction's refreshes is met, whatever the wallet
\* holds and owes, if the obligation is still what the handler read.  Not so
\* for BorrowPage's borrow and for the console.
FreshTransactionsFit ==
    \A p \in Pages :
        LET tx == page[p].tx IN
        /\ At(p, "built") /\ tx.seen = {obligation["pages"]}
        /\ p # "borrow" \/ tx.op = "repay"
        => RefreshFits(tx, obligation["pages"])

\* When the page is up to date, its quotes are the oracles' and the terms of
\* the collateral are the same, klend lends what the page offers.
OfferIsGranted ==
    LET s == page["positions"].shown  o == obligation["pages"] IN
    /\ At("positions", "idle") /\ s = PositionsPage_loadPosition
    /\ \A r \in Deposited(o) : price[r] = Quoted /\ Ltv[r] = Ltv[TermsOf(o)]
    => \A n \in Amounts :
          PositionsPage_enables(s, "borrow", Usdc, n) =>
             Accepts(PositionsPage_handleBorrow(Intent("borrow", Usdc, n, "pages"), o))

=============================================================================
