--------------------------- MODULE FrontendProofs ---------------------------
(***************************************************************************)
(* Theorems about the gates, for any wallets and any bounds, and about the *)
(* pages behind them, for any reserves, terms, prices and amounts.         *)
(***************************************************************************)
EXTENDS Gate, Lending, FiniteSetTheorems, WellFoundedInduction, TLAPS

-----------------------------------------------------------------------------
(* The gates: the invariant *)

Tasks == [wallet : Wallets, at : Stages]
Statuses == {"none", "checking", "approved", "closed", "error", "unknown", "busy"}

\* GateTypeOK but for what GeoGate adds to it.
TabShape ==
    /\ app \in {"institutional", "retail"}
    /\ connected \in Wallets \cup {Nobody}
    /\ status \in Statuses
    /\ work \subseteq Tasks
    /\ record \in [Wallets -> {"none", "pending", "approved"}]

\* The backend's approvals count as earned, so that an answer of the backend
\* may be remembered when it arrives.
Earned ==
    /\ session \subseteq granted
    /\ \A w \in Wallets : record[w] = "approved" => w \in granted

\* Behind a closed GeoGate nothing happens, and a blocked tab knows why.
GeoInv ==
    /\ country \in {Blocked, Allowed}
    /\ cached_country \in {"none", "UNKNOWN", Blocked, Allowed}
    /\ geo # "allowed" => connected = Nobody /\ work = {}
    /\ geo = "blocked" => cached_country = Blocked

GateInv == TabShape /\ Earned /\ GeoInv

LEMMA GateInvImplies == GateInv => SessionIsEarned
  BY DEF GateInv, TabShape, Statuses, Tasks, Earned, GeoInv, SessionIsEarned, GateTypeOK

LEMMA GateInitInv == GateInit => GateInv
  BY DEF GateInit, GateInv, TabShape, Statuses, Tasks, Earned, GeoInv

\* GeoGate itself.
LEMMA GeoGateInv ==
    ASSUME GateInv, GeoGate_lookup \/ GeoGate_fails \/ GeoGate_cached
    PROVE  GateInv'
  <1>1. UNCHANGED <<app, gate, outside, country>>
    BY DEF GeoGate_lookup, GeoGate_fails, GeoGate_cached
  <1>2. TabShape' /\ Earned'
    BY <1>1 DEF GateInv, TabShape, Earned, gate, outside
  <1>3. GeoInv'
    BY <1>1, GateAssumption DEF GateAssumption, GateInv, GeoInv, gate, GeoOf,
       GeoGate_lookup, GeoGate_fails, GeoGate_cached
  <1>4. QED
    BY <1>2, <1>3 DEF GateInv

\* Whatever else happens in the tab happens behind an open GeoGate.
LEMMA BehindGeoGate ==
    ASSUME GateInv, geo = "allowed", UNCHANGED world, TabShape', Earned'
    PROVE  GateInv'
  BY DEF GateInv, GeoInv, world

LEMMA checkWhitelistInv ==
    ASSUME GateInv, NEW w \in Wallets, NEW running \in SUBSET Tasks,
           checkWhitelist(w, running)
    PROVE  status' \in Statuses /\ work' \subseteq Tasks
  <1>1. [wallet |-> w, at |-> "ledger"] \in Tasks
    BY DEF Tasks, Stages
  <1>2. QED
    BY <1>1 DEF checkWhitelist, Statuses

\* The awaits of a check.
LEMMA CheckInv ==
    ASSUME GateInv, NEW t \in work, Checking(t) \/ LedgerFails(t)
    PROVE  GateInv'
  <1>1. geo = "allowed" /\ t.wallet \in Wallets /\ t \in Tasks
    BY DEF GateInv, GeoInv, TabShape, Tasks
  <1>2. [t EXCEPT !.at = "backend"] \in Tasks
    BY <1>1 DEF Tasks, Stages
  <1>3. ASSUME CheckLedger(t) PROVE GateInv'
    <2>1. /\ work' \subseteq Tasks /\ status' \in Statuses
          /\ granted \subseteq granted' /\ session' \subseteq granted'
      BY <1>1, <1>2, <1>3 DEF CheckLedger, ApprovedByLedger, Approved, GateInv, TabShape,
         Earned, Statuses
    <2>2. UNCHANGED <<app, connected, record, world>>
      BY <1>3 DEF CheckLedger
    <2>3. TabShape' /\ Earned'
      BY <2>1, <2>2 DEF GateInv, TabShape, Earned
    <2>4. QED
      BY <1>1, <2>2, <2>3, BehindGeoGate
  <1>4. ASSUME CheckBackend(t) \/ LedgerFails(t) PROVE GateInv'
    <2>1. /\ work' \subseteq Tasks /\ status' \in Statuses
          /\ session' \subseteq granted'
      BY <1>1, <1>4 DEF CheckBackend, LedgerFails, Approved, GateInv, TabShape,
         Earned, Statuses, outside
    <2>2. UNCHANGED <<app, connected, outside, world>>
      BY <1>4 DEF CheckBackend, LedgerFails
    <2>3. TabShape' /\ Earned'
      BY <2>1, <2>2 DEF GateInv, TabShape, Earned, outside
    <2>4. QED
      BY <1>1, <2>2, <2>3, BehindGeoGate
  <1>5. QED
    BY <1>3, <1>4 DEF Checking

\* The awaits of a verification or a registration.
LEMMA VerifyInv ==
    ASSUME GateInv, NEW t \in work,
           Submit(t) \/ Approve(t) \/ VerificationFails(t) \/ Registered(t)
    PROVE  GateInv'
  <1>1. geo = "allowed" /\ t.wallet \in Wallets /\ t \in Tasks
    BY DEF GateInv, GeoInv, TabShape, Tasks
  <1>2. ASSUME Submit(t) PROVE GateInv'
    <2>1. [t EXCEPT !.at = "approve"] \in Tasks
      BY <1>1 DEF Tasks, Stages
    <2>2. TabShape'
      BY <1>1, <1>2, <2>1 DEF Submit, GateInv, TabShape
    <2>3. Earned'
      BY <1>1, <1>2 DEF Submit, GateInv, TabShape, Earned
    <2>4. QED
      BY <1>1, <1>2, <2>2, <2>3, BehindGeoGate DEF Submit
  <1>3. ASSUME Approve(t) PROVE GateInv'
    <2>1. status' \in Statuses /\ work' \subseteq Tasks
      <3>1. CASE app = "institutional"
        BY <1>3, <3>1 DEF Approve, Approved, GateInv, TabShape, Statuses
      <3>2. CASE app # "institutional" /\ connected \in {t.wallet, Nobody}
        BY <1>3, <3>2 DEF Approve, Statuses
      <3>3. CASE app # "institutional" /\ connected \notin {t.wallet, Nobody}
        <4>1. connected \in Wallets /\ checkWhitelist(connected, {})
          BY <1>3, <3>3 DEF Approve, GateInv, TabShape
        <4>2. QED
          BY <4>1, checkWhitelistInv
      <3>4. QED
        BY <3>1, <3>2, <3>3
    <2>2. /\ session' = session \cup {t.wallet} /\ granted' = granted \cup {t.wallet}
          /\ record' = [record EXCEPT ![t.wallet] = "approved"]
          /\ UNCHANGED <<app, connected, world>>
      BY <1>3 DEF Approve, Approved
    <2>3. TabShape'
      BY <2>1, <2>2 DEF GateInv, TabShape
    <2>4. Earned'
      BY <1>1, <2>2 DEF GateInv, TabShape, Earned
    <2>5. QED
      BY <1>1, <2>2, <2>3, <2>4, BehindGeoGate
  <1>4. ASSUME VerificationFails(t) PROVE GateInv'
    <2>1. TabShape' /\ Earned'
      BY <1>4 DEF VerificationFails, GateInv, TabShape, Earned, outside
    <2>2. QED
      BY <1>1, <1>4, <2>1, BehindGeoGate DEF VerificationFails
  <1>5. ASSUME Registered(t) PROVE GateInv'
    <2>1. status' \in Statuses /\ work' \subseteq Tasks
      <3>1. work \ {t} \in SUBSET Tasks
        BY DEF GateInv, TabShape
      <3>2. CASE checkWhitelist(t.wallet, work \ {t})
        BY <1>1, <3>1, <3>2, checkWhitelistInv
      <3>3. CASE work' = work \ {t} /\ status' \in {"approved", "closed", status}
        BY <3>1, <3>3 DEF GateInv, TabShape, Statuses
      <3>4. QED
        BY <1>5, <3>2, <3>3 DEF Registered
    <2>2. /\ granted \subseteq granted'
          /\ UNCHANGED <<app, connected, session, record, world>>
      BY <1>5 DEF Registered
    <2>3. TabShape' /\ Earned'
      BY <2>1, <2>2 DEF GateInv, TabShape, Earned
    <2>4. QED
      BY <1>1, <2>2, <2>3, BehindGeoGate
  <1>6. QED
    BY <1>2, <1>3, <1>4, <1>5

\* What the user does in the tab.
LEMMA UserInv ==
    ASSUME GateInv,
           \/ handleBackendVerification \/ Register \/ Retry
           \/ \E w \in Wallets \cup {Nobody} : Connect(w)
    PROVE  GateInv'
  <1>1. ASSUME handleBackendVerification \/ Register PROVE GateInv'
    <2>1. geo = "allowed" /\ connected \in Wallets
      BY <1>1 DEF handleBackendVerification, Register, GateInv, TabShape
    <2>2. \A s \in {"submit", "register"} : [wallet |-> connected, at |-> s] \in Tasks
      BY <2>1 DEF Tasks, Stages
    <2>3. /\ work' \subseteq Tasks /\ status' \in Statuses
          /\ UNCHANGED <<app, connected, session, outside, world>>
      BY <1>1, <2>2 DEF handleBackendVerification, Register, GateInv, TabShape, Statuses
    <2>4. TabShape' /\ Earned'
      BY <2>3 DEF GateInv, TabShape, Earned, outside
    <2>5. QED
      BY <2>1, <2>3, <2>4, BehindGeoGate
  <1>2. ASSUME Retry PROVE GateInv'
    <2>1. geo = "allowed" /\ connected \in Wallets
      BY <1>2 DEF Retry, GateInv, TabShape, GeoInv
    <2>2. work' \subseteq Tasks /\ status' \in Statuses
      BY <1>2, <2>1, checkWhitelistInv DEF Retry, GateInv, TabShape
    <2>3. TabShape' /\ Earned'
      BY <1>2, <2>2 DEF Retry, GateInv, TabShape, Earned, outside
    <2>4. QED
      BY <1>2, <2>1, <2>3, BehindGeoGate DEF Retry
  <1>3. ASSUME NEW w \in Wallets \cup {Nobody}, Connect(w) PROVE GateInv'
    <2>1. work' \subseteq Tasks /\ status' \in Statuses
      <3>1. CASE w = Nobody
        BY <1>3, <3>1 DEF Connect, GateInv, TabShape, Statuses
      <3>2. CASE w # Nobody
        BY <1>3, <3>2, checkWhitelistInv DEF Connect, GateInv, TabShape
      <3>3. QED
        BY <3>1, <3>2
    <2>2. TabShape' /\ Earned'
      BY <1>3, <2>1 DEF Connect, GateInv, TabShape, Earned, outside
    <2>3. QED
      BY <1>3, <2>2, BehindGeoGate DEF Connect
  <1>4. QED
    BY <1>1, <1>2, <1>3

\* What happens to the tab from outside.
LEMMA AroundInv ==
    ASSUME GateInv,
           \/ Reload \/ Travel \/ UNCHANGED gateVars
           \/ \E w \in Wallets : Elsewhere(w)
    PROVE  GateInv'
  <1>1. ASSUME Reload PROVE GateInv'
    BY <1>1 DEF Reload, GateInv, TabShape, Statuses, Earned, GeoInv, outside
  <1>2. ASSUME Travel PROVE GateInv'
    BY <1>2 DEF Travel, GateInv, TabShape, Earned, GeoInv, gate, outside
  <1>3. ASSUME NEW w \in Wallets, Elsewhere(w) PROVE GateInv'
    <2>1. /\ granted \subseteq granted' /\ UNCHANGED <<app, gate, world>>
          /\ \/ UNCHANGED record
             \/ record' = [record EXCEPT ![w] = "approved"] /\ w \in granted'
      BY <1>3 DEF Elsewhere
    <2>2. TabShape'
      BY <2>1 DEF GateInv, TabShape, gate
    <2>3. Earned'
      BY <2>1 DEF GateInv, TabShape, Earned, gate
    <2>4. GeoInv'
      BY <2>1 DEF GateInv, GeoInv, gate, world
    <2>5. QED
      BY <2>2, <2>3, <2>4 DEF GateInv
  <1>4. ASSUME UNCHANGED gateVars PROVE GateInv'
    BY <1>4 DEF gateVars, gate, outside, world, GateInv, TabShape, Earned, GeoInv
  <1>5. QED
    BY <1>1, <1>2, <1>3, <1>4

LEMMA GateNextInv == GateInv /\ [GateNext]_gateVars => GateInv'
  BY GeoGateInv, CheckInv, VerifyInv, UserInv, AroundInv DEF GateNext

LEMMA GateInvCorrect == GateSpec => []GateInv
  BY GateInitInv, GateNextInv, PTL DEF GateSpec

\* The session storage lets in only wallets that the ledger or the backend let
\* in, for any number of checks that overlap, fail and answer for a wallet that
\* is no longer connected.
THEOREM SessionIsEarnedCorrect == GateSpec => []SessionIsEarned
  BY GateInvCorrect, GateInvImplies, PTL

-----------------------------------------------------------------------------
(* GeoGate *)

\* What a blocked tab has stored keeps it closed.
StoredBlock == cached_country = Blocked /\ geo # "allowed"

LEMMA StoredBlockStays ==
    ASSUME GateInv, StoredBlock, [GateNext]_gateVars
    PROVE  StoredBlock'
  <1>1. ~GeoGate_lookup /\ ~GeoGate_fails
    BY GateAssumption DEF GateAssumption, StoredBlock, GeoGate_lookup, GeoGate_fails
  <1>2. ASSUME GeoGate_cached PROVE StoredBlock'
    BY <1>2 DEF GeoGate_cached, GeoOf, StoredBlock
  <1>3. ASSUME NEW t \in work PROVE FALSE
    BY <1>3 DEF GateInv, GeoInv, StoredBlock
  <1>4. ~handleBackendVerification /\ ~Register
    BY DEF handleBackendVerification, Register, StoredBlock
  <1>5. ASSUME Retry \/ (\E w \in Wallets \cup {Nobody} : Connect(w)) PROVE StoredBlock'
    BY <1>5 DEF Retry, Connect, world, StoredBlock
  <1>6. ASSUME Reload \/ Travel \/ UNCHANGED gateVars PROVE StoredBlock'
    BY <1>6 DEF Reload, Travel, gateVars, world, StoredBlock
  <1>7. ASSUME NEW w \in Wallets, Elsewhere(w) PROVE StoredBlock'
    BY <1>7 DEF Elsewhere, world, StoredBlock
  <1>8. QED
    BY <1>1, <1>2, <1>3, <1>4, <1>5, <1>6, <1>7 DEF GateNext

\* Neither a reload, nor another network, nor a failing lookup opens a tab that
\* was blocked.
THEOREM BlockedStaysBlockedCorrect == GateSpec => BlockedStaysBlocked
  <1>1. GateInv /\ geo = "blocked" => StoredBlock
    BY DEF GateInv, GeoInv, StoredBlock
  <1>2. StoredBlock => geo # "allowed"
    BY DEF StoredBlock
  <1>3. GateInv /\ StoredBlock /\ [GateNext]_gateVars => StoredBlock'
    BY StoredBlockStays
  <1>4. QED
    BY GateInvCorrect, <1>1, <1>2, <1>3, PTL DEF GateSpec, BlockedStaysBlocked

-----------------------------------------------------------------------------
(* The pages: the invariant *)

Ops == {"none", "deposit", "withdraw", "borrow", "repay", "convert"}
Ids == {"pages", "console"}
Obligations == [exists : BOOLEAN, deposits : [Collateral -> Nat], debt : Nat]
Txs == [op : Ops, id : Ids, reserve : Tokens, into : Tokens, amount : Nat,
        init : BOOLEAN, refreshed : SUBSET Tokens, last : Tokens,
        listed : SUBSET Tokens, seen : SUBSET Obligations]

\* What the pages may show.
Shown == [obligation : BOOLEAN]
         \cup [position : Obligations, liquidity : Nat]
         \cup [borrowed : Nat, available : Int]
         \cup [balances : [Raw -> Nat]]

Tabs == [at : {"closed", "idle", "reading", "built", "sent"}, shown : Shown, tx : Txs]

LedgerInv ==
    /\ obligation \in [Ids -> Obligations]
    /\ \A i \in Ids : ~obligation[i].exists => Reserves(obligation[i]) = {}
    /\ wallet \in [Tokens -> Nat]
    /\ liquidity \in Nat
    /\ price \in [Collateral -> Prices]

\* A transaction about collateral names a collateral reserve, and one that
\* needs an obligation was built for one that exists.
Sane(tx) ==
    /\ tx.op \in {"deposit", "withdraw"} => tx.reserve \in Collateral
    /\ tx.op \in {"withdraw", "borrow", "repay"} => ~tx.init

\* What a page asks for, before its handler has read anything.
Asked(p, tx) ==
    /\ tx.seen = {} /\ ~tx.init
    /\ \/ p = "positions" /\ tx.op \in {"deposit", "withdraw"} /\ tx.reserve \in Collateral
       \/ p \in {"positions", "borrow"} /\ tx.op \in {"borrow", "repay"} /\ tx.reserve = Usdc
       \/ p = "collateral" /\ tx.op = "deposit" /\ tx.reserve \in Collateral
       \/ p = "prepare" /\ tx.op = "convert" /\ tx.reserve \in Raw
       \/ p = "console" /\ tx.op = "deposit" /\ tx.reserve = Second
       \/ p = "console" /\ tx.op = "borrow" /\ tx.reserve = Usdc

\* A transaction built for the obligation o has the refreshes o asks for.
FitsWhatItRead(p, tx) ==
    p # "borrow" \/ tx.op = "repay" =>
        \A o \in Obligations : tx.seen = {o} => RefreshFits(tx, o)

TabFits(p, tab) ==
    /\ p = "console" => tab.shown \in [obligation : BOOLEAN]
    /\ Sane(tab.tx)
    /\ tab.at = "reading" => Asked(p, tab.tx)
    /\ FitsWhatItRead(p, tab.tx)

PagesInv == page \in [Pages -> Tabs] /\ \A p \in Pages : TabFits(p, page[p])

LendInv ==
    /\ LedgerInv /\ PagesInv
    /\ adrift \subseteq Txs /\ \A tx \in adrift : Sane(tx)
    /\ clicks \in 0 .. MaxClicks /\ events \in 0 .. MaxEvents

-----------------------------------------------------------------------------
(* What klend does to the ledger *)

LEMMA TokenKinds ==
    /\ Collateral \subseteq Tokens /\ Usdc \in Tokens /\ Raw \subseteq Tokens
    /\ First \in Collateral /\ Second \in Collateral /\ Usdc \notin Collateral
  BY LendingAssumption DEF LendingAssumption, Tokens

LEMMA NoReserves ==
    ASSUME NEW o \in Obligations
    PROVE  Reserves(o) = {} <=> (o.debt = 0 /\ \A r \in Collateral : o.deposits[r] = 0)
  BY DEF Reserves, Obligations

LEMMA LeastType ==
    ASSUME NEW a \in Int, NEW b \in Int
    PROVE  Least(a, b) \in {a, b} /\ Least(a, b) <= a /\ Least(a, b) <= b
  BY DEF Least

LEMMA ObligationUpdate ==
    ASSUME NEW o \in Obligations, NEW r \in Collateral, NEW m \in Nat
    PROVE  LET after == [o EXCEPT !.exists = TRUE, !.deposits[r] = m] IN
           after \in Obligations /\ after.exists
  <1>1. o.deposits \in [Collateral -> Nat] /\ [o.deposits EXCEPT ![r] = m] \in [Collateral -> Nat]
    BY DEF Obligations
  <1>2. QED
    BY <1>1 DEF Obligations

LEMMA ExecutedLedger ==
    ASSUME LedgerInv, NEW tx \in Txs, Sane(tx), Executed(tx)
    PROVE  LedgerInv'
  <1> DEFINE o == obligation[tx.id]
             n == tx.amount
             r == tx.reserve
  <1>1. CASE UNCHANGED ledger
    BY <1>1 DEF ledger, LedgerInv
  <1>2. CASE Accepts(tx) /\ Execute(tx)
    <2>1. /\ tx.id \in Ids /\ n \in Nat /\ r \in Tokens /\ tx.into \in Tokens
          /\ obligation \in [Ids -> Obligations] /\ wallet \in [Tokens -> Nat]
          /\ liquidity \in Nat
          /\ o \in Obligations /\ o.deposits \in [Collateral -> Nat] /\ o.debt \in Nat
          /\ o.exists \in BOOLEAN
      BY DEF Txs, LedgerInv, Obligations
    <2>2. \A i \in Ids : ~obligation[i].exists => Reserves(obligation[i]) = {}
      BY DEF LedgerInv
    <2>3. price' = price /\ price \in [Collateral -> Prices]
      BY <1>2 DEF Execute, LedgerInv
    <2>4. CASE tx.op = "deposit"
      <3>1. /\ obligation' = [obligation EXCEPT ![tx.id].exists = TRUE, ![tx.id].deposits[r] = @ + n]
            /\ wallet' = [wallet EXCEPT ![r] = @ - n] /\ liquidity' = liquidity
            /\ wallet[r] >= n /\ r \in Collateral
        BY <1>2, <2>4 DEF Execute, Accepts, OperationFits, Sane
      <3> DEFINE after == [o EXCEPT !.exists = TRUE, !.deposits[r] = o.deposits[r] + n]
      <3>a. o.deposits[r] + n \in Nat
        BY <2>1, <3>1
      <3>b. after \in Obligations /\ after.exists
        BY <2>1, <3>1, <3>a, ObligationUpdate
      <3>c. obligation' = [obligation EXCEPT ![tx.id] = after]
        BY <2>1, <3>1
      <3> HIDE DEF after
      <3>2. /\ obligation' \in [Ids -> Obligations]
            /\ obligation'[tx.id].exists
            /\ \A i \in Ids \ {tx.id} : obligation'[i] = obligation[i]
        BY <2>1, <3>b, <3>c
      <3>3. wallet' \in [Tokens -> Nat]
        BY <2>1, <3>1
      <3>4. QED
        BY <2>1, <2>2, <2>3, <3>1, <3>2, <3>3 DEF LedgerInv
    <2>5. CASE tx.op = "withdraw"
      <3>1. /\ obligation' = [obligation EXCEPT ![tx.id].deposits[r] = @ - n]
            /\ wallet' = [wallet EXCEPT ![r] = @ + n] /\ liquidity' = liquidity
            /\ o.deposits[r] >= n /\ r \in Collateral /\ o.exists
        BY <1>2, <2>1, <2>5 DEF Execute, Accepts, OperationFits, RefreshFits, Sane
      <3>2. o.deposits[r] - n \in Nat
        BY <2>1, <3>1
      <3>3. /\ obligation' \in [Ids -> Obligations]
            /\ obligation'[tx.id].exists
            /\ \A i \in Ids \ {tx.id} : obligation'[i] = obligation[i]
        BY <2>1, <3>1, <3>2 DEF Obligations
      <3>4. wallet' \in [Tokens -> Nat]
        BY <2>1, <3>1
      <3>5. QED
        BY <2>1, <2>2, <2>3, <3>1, <3>3, <3>4 DEF LedgerInv
    <2>6. CASE tx.op = "borrow"
      <3>1. /\ obligation' = [obligation EXCEPT ![tx.id].debt = @ + n]
            /\ wallet' = [wallet EXCEPT ![Usdc] = @ + n] /\ liquidity' = liquidity - n
            /\ n <= liquidity /\ o.exists
        BY <1>2, <2>1, <2>6 DEF Execute, Accepts, OperationFits, RefreshFits, Sane
      <3>2. /\ obligation' \in [Ids -> Obligations]
            /\ obligation'[tx.id].exists
            /\ \A i \in Ids \ {tx.id} : obligation'[i] = obligation[i]
        BY <2>1, <3>1 DEF Obligations
      <3>3. wallet' \in [Tokens -> Nat] /\ liquidity' \in Nat
        BY <2>1, <3>1, TokenKinds
      <3>4. QED
        BY <2>1, <2>2, <2>3, <3>1, <3>2, <3>3 DEF LedgerInv
    <2>7. CASE tx.op = "repay"
      <3> DEFINE paid == Least(n, o.debt)
      <3>1. /\ obligation' = [obligation EXCEPT ![tx.id].debt = @ - paid]
            /\ wallet' = [wallet EXCEPT ![Usdc] = @ - paid] /\ liquidity' = liquidity + paid
            /\ wallet[Usdc] >= paid /\ o.exists
        BY <1>2, <2>1, <2>7 DEF Execute, Accepts, OperationFits, RefreshFits, Sane
      <3>2. paid \in Nat /\ o.debt - paid \in Nat
        BY <2>1, LeastType
      <3> HIDE DEF paid
      <3>3. /\ obligation' \in [Ids -> Obligations]
            /\ obligation'[tx.id].exists
            /\ \A i \in Ids \ {tx.id} : obligation'[i] = obligation[i]
        BY <2>1, <3>1, <3>2 DEF Obligations
      <3>4. wallet' \in [Tokens -> Nat] /\ liquidity' \in Nat
        BY <2>1, <3>1, <3>2, TokenKinds
      <3>5. QED
        BY <2>1, <2>2, <2>3, <3>1, <3>3, <3>4 DEF LedgerInv
    <2>8. CASE tx.op = "convert"
      <3>1. /\ wallet' = [wallet EXCEPT ![r] = @ - n, ![tx.into] = @ + n]
            /\ wallet[r] >= n /\ UNCHANGED <<obligation, liquidity>>
        BY <1>2, <2>8 DEF Execute, Accepts, OperationFits
      <3>2. wallet' \in [Tokens -> Nat]
        BY <2>1, <3>1
      <3>3. QED
        BY <2>1, <2>2, <2>3, <3>1, <3>2 DEF LedgerInv
    <2>9. QED
      BY <1>2, <2>4, <2>5, <2>6, <2>7, <2>8 DEF Execute
  <1>3. QED
    BY <1>1, <1>2 DEF Executed

-----------------------------------------------------------------------------
(* What the pages show and build *)

LEMMA ReservesAreTokens ==
    ASSUME NEW o \in Obligations
    PROVE  Reserves(o) \subseteq Tokens
  BY TokenKinds DEF Reserves

LoadsFit ==
    \A p \in Pages : /\ Loads(p) \in Shown
                     /\ p = "console" => Loads(p) \in [obligation : BOOLEAN]

LEMMA LoadsAreShown == LedgerInv => LoadsFit
  <1> SUFFICES ASSUME LedgerInv, NEW p \in Pages
               PROVE  Loads(p) \in Shown /\ (p = "console" => Loads(p) \in [obligation : BOOLEAN])
    BY DEF LoadsFit
  <1>1. /\ obligation["pages"] \in Obligations /\ obligation["console"] \in Obligations
        /\ liquidity \in Nat /\ wallet \in [Tokens -> Nat] /\ price \in [Collateral -> Prices]
    BY DEF LedgerInv, Ids
  <1>2. CASE p = "positions"
    BY <1>1, <1>2 DEF Loads, Shown, PositionsPage_loadPosition
  <1>3. CASE p = "borrow"
    <2> DEFINE o == obligation["pages"]
               share == (o.deposits[First] * price[First] * Ltv[First]) \div 100 - o.debt
    <2>1. o.debt \in Nat /\ o.deposits[First] \in Nat
      BY <1>1, TokenKinds DEF Obligations
    <2>a. price[First] \in Nat
      BY <1>1, TokenKinds, LendingAssumption DEF LendingAssumption
    <2>b. Ltv[First] \in Nat
      BY TokenKinds, LendingAssumption DEF LendingAssumption
    <2>2. share \in Int
      BY <2>1, <2>a, <2>b
    <2>3. Least(share, liquidity) \in Int
      BY <1>1, <2>2, LeastType
    <2> HIDE DEF share
    <2>4. Loads(p) = [borrowed |-> o.debt, available |-> Least(share, liquidity)]
      BY <1>3 DEF Loads, BorrowPage_loadPosition, share
    <2>5. QED
      BY <1>3, <2>1, <2>3, <2>4 DEF Shown
  <1>4. CASE p = "prepare"
    <2>1. [t \in Raw |-> wallet[t]] \in [Raw -> Nat]
      BY <1>1, TokenKinds
    <2>2. QED
      BY <1>4, <2>1 DEF Loads, Shown, PreparePage_loadBalances
  <1>5. CASE p = "collateral"
    BY <1>1, <1>5 DEF Loads, Shown, CollateralPage_load, Obligations
  <1>6. CASE p = "console"
    BY <1>1, <1>6 DEF Loads, Shown, LendingPanel_load, Obligations
  <1>7. QED
    BY <1>2, <1>3, <1>4, <1>5, <1>6 DEF Pages, Institutional

LEMMA NoTxFits == NoTx \in Txs /\ Sane(NoTx) /\ \A p \in Pages : FitsWhatItRead(p, NoTx)
  BY TokenKinds DEF NoTx, Txs, Ops, Ids, Sane, FitsWhatItRead

LEMMA IntentType ==
    ASSUME NEW op \in Ops, NEW r \in Tokens, NEW n \in Nat, NEW id \in Ids
    PROVE  /\ Intent(op, r, n, id) \in Txs
           /\ Intent(op, r, n, id).op = op /\ Intent(op, r, n, id).reserve = r
           /\ Intent(op, r, n, id).seen = {} /\ ~Intent(op, r, n, id).init
  BY NoTxFits, TokenKinds DEF Intent, NoTx, Txs

LEMMA RefreshingFits ==
    ASSUME NEW tx \in Txs, NEW o \in Obligations, NEW R \in SUBSET Tokens
    PROVE  LET t == Refreshing(tx, o, R) IN
           /\ t \in Txs /\ t.op = tx.op /\ t.reserve = tx.reserve
           /\ t.init = ~o.exists /\ t.seen = {o}
           /\ (o.exists => ~t.init)
           /\ Reserves(o) \subseteq R => RefreshFits(t, o)
  <1> DEFINE t == Refreshing(tx, o, R)
  <1>1. Reserves(o) \in SUBSET Tokens /\ (~o.exists) \in BOOLEAN /\ {o} \in SUBSET Obligations
    <2>1. Reserves(o) \in SUBSET Tokens
      BY ReservesAreTokens
    <2>2. QED
      BY <2>1
  <1>2. /\ t \in Txs /\ t.op = tx.op /\ t.reserve = tx.reserve /\ t.refreshed = R
        /\ t.last = tx.reserve /\ t.listed = Reserves(o) /\ t.init = ~o.exists /\ t.seen = {o}
    BY <1>1 DEF Refreshing, Txs
  <1> HIDE DEF t
  <1>3. Reserves(o) \subseteq R => RefreshFits(t, o)
    BY <1>2 DEF RefreshFits
  <1>4. QED
    BY <1>2, <1>3 DEF t

\* What a page enables is what it may ask for.
LEMMA EnabledIsAsked ==
    ASSUME NEW p \in Pages, NEW op \in Ops \ {"none"}, NEW r \in Tokens, NEW n \in Nat,
           Enables(p, op, r, n)
    PROVE  Asked(p, Intent(op, r, n, ObligationOf(p)))
  <1> DEFINE tx == Intent(op, r, n, ObligationOf(p))
  <1>1. tx.op = op /\ tx.reserve = r /\ tx.seen = {} /\ ~tx.init
    BY IntentType DEF ObligationOf, Ids
  <1> SUFFICES Asked(p, tx)
    OBVIOUS
  <1> HIDE DEF tx
  <1>2. CASE p = "positions"
    BY <1>1, <1>2 DEF Enables, Asked, PositionsPage_enables, PositionsPage_withdrawable,
                      Deposited, Ops
  <1>3. CASE p = "borrow"
    BY <1>1, <1>3 DEF Enables, Asked, BorrowPage_enables
  <1>4. CASE p = "collateral"
    BY <1>1, <1>4 DEF Enables, Asked
  <1>5. CASE p = "prepare"
    BY <1>1, <1>5 DEF Enables, Asked, PreparePage_enables
  <1>6. CASE p = "console"
    BY <1>1, <1>6 DEF Enables, Asked
  <1>7. QED
    BY <1>2, <1>3, <1>4, <1>5, <1>6 DEF Pages, Institutional

\* What a handler builds fits the obligation it has read.
LEMMA BuiltFits ==
    ASSUME NEW p \in Pages, NEW tx \in Txs, Asked(p, tx), Reads(p, tx), LedgerInv,
           page[p].shown \in Shown, p = "console" => page[p].shown \in [obligation : BOOLEAN]
    PROVE  Builds(p, tx) \in Txs /\ Sane(Builds(p, tx)) /\ FitsWhatItRead(p, Builds(p, tx))
  <1> DEFINE o == obligation["pages"]
             b == Builds(p, tx)
  <1> SUFFICES b \in Txs /\ Sane(b) /\ FitsWhatItRead(p, b)
    OBVIOUS
  <1>1. o \in Obligations /\ Reserves(o) \in SUBSET Tokens /\ tx.reserve \in Tokens
    BY ReservesAreTokens DEF LedgerInv, Ids, Txs
  <1>2. \A e \in Obligations : {o} = {e} => o = e
    OBVIOUS
  <1>3. ASSUME tx.op \in {"deposit", "withdraw", "borrow", "repay"}, Sane(Refreshing(tx, o, {})),
               NEW R \in SUBSET Tokens, b = Refreshing(tx, o, R),
               Reserves(o) \subseteq R \/ (p = "borrow" /\ tx.op = "borrow")
        PROVE  b \in Txs /\ Sane(b) /\ FitsWhatItRead(p, b)
    <2>1. /\ b \in Txs /\ b.op = tx.op /\ b.reserve = tx.reserve /\ b.init = ~o.exists
          /\ b.seen = {o} /\ (Reserves(o) \subseteq R => RefreshFits(b, o))
      BY <1>1, <1>3, RefreshingFits
    <2>2. Sane(b)
      BY <1>1, <1>3, <2>1, RefreshingFits DEF Sane
    <2>3. FitsWhatItRead(p, b)
      BY <1>2, <1>3, <2>1 DEF FitsWhatItRead
    <2>4. QED
      BY <2>1, <2>2, <2>3
  <1>4. CASE p \in {"positions", "borrow", "collateral"}
    <2>1. /\ tx.op \in {"deposit", "withdraw", "borrow", "repay"}
          /\ tx.op \in {"deposit", "withdraw"} => tx.reserve \in Collateral
          /\ tx.op \in {"borrow", "repay"} => tx.reserve = Usdc
          /\ tx.op \in {"withdraw", "borrow", "repay"} => o.exists
      BY <1>4 DEF Asked, Reads
    <2>a. tx.reserve \notin {"usdc_in", "usx", "eusx"}
      BY <2>1, LendingAssumption DEF LendingAssumption
    <2>2. Sane(Refreshing(tx, o, {}))
      <3> DEFINE t == Refreshing(tx, o, {})
      <3>1. t.op = tx.op /\ t.reserve = tx.reserve /\ (o.exists => ~t.init)
        BY <1>1, RefreshingFits
      <3> HIDE DEF t
      <3>2. Sane(t)
        BY <2>1, <3>1 DEF Sane
      <3>3. QED
        BY <3>2 DEF t
    <2>3. CASE p = "borrow" /\ tx.op = "borrow"
      <3>1. b = Refreshing(tx, o, {First, Usdc}) /\ {First, Usdc} \in SUBSET Tokens
        BY <2>3, <2>a, TokenKinds DEF Builds, BorrowPage_handleBorrow
      <3>2. QED
        BY <1>3, <2>1, <2>2, <2>3, <3>1
    <2>4. CASE ~(p = "borrow" /\ tx.op = "borrow")
      <3>1. b = Refreshing(tx, o, Reserves(o) \cup {tx.reserve})
        <4>1. CASE p = "positions"
          BY <2>1, <2>a, <4>1 DEF Builds, PositionsPage_handleDeposit,
             PositionsPage_handleWithdraw, PositionsPage_handleBorrow, PositionsPage_handleRepay
        <4>2. CASE p = "borrow"
          <5>1. tx.op = "repay" /\ tx.reserve = Usdc
            BY <2>1, <2>4, <4>2 DEF Asked
          <5>2. QED
            BY <2>a, <4>2, <5>1 DEF Builds, BorrowPage_handleRepay
        <4>3. CASE p = "collateral"
          BY <2>a, <4>3 DEF Builds, CollateralPage_handleDeposit
        <4>4. QED
          BY <1>4, <4>1, <4>2, <4>3
      <3>2. Reserves(o) \cup {tx.reserve} \in SUBSET Tokens
        BY <1>1
      <3>3. QED
        BY <1>3, <2>1, <2>2, <3>1, <3>2
    <2>5. QED
      BY <2>3, <2>4
  <1>5. CASE p = "prepare"
    <2>1. tx.seen = {} /\ tx.op = "convert" /\ tx.reserve \in Raw /\ tx.reserve \notin Collateral
      BY <1>5, LendingAssumption DEF Asked, LendingAssumption, Raw
    <2>2. PICK t \in Tokens : b = [tx EXCEPT !.into = t]
      BY <1>5, <2>1, TokenKinds DEF Builds, Raw, PreparePage_handleMintUSX,
           PreparePage_handleLockUSX, PreparePage_handleWrapEUSX
    <2>3. b \in Txs /\ b.op = "convert" /\ b.seen = {}
      BY <2>1, <2>2 DEF Txs
    <2> HIDE DEF b
    <2>4. QED
      BY <2>3 DEF Sane, FitsWhatItRead
  <1>6. CASE p = "console"
    <2>1. tx.seen = {} /\ ~tx.init /\ Second \in Tokens /\ Usdc \in Tokens
      BY TokenKinds DEF Asked
    <2>2. CASE tx.op = "deposit"
      <3> DEFINE known == page[p].shown.obligation
      <3>1. tx.reserve = Second /\ known \in BOOLEAN /\ Second \notin Raw
        BY <1>6, <2>2, TokenKinds, LendingAssumption DEF Asked, LendingAssumption, Raw
      <3>2. b = LendingPanel_handleDeposit(tx, known)
        BY <1>6, <2>2, <3>1 DEF Builds, Raw
      <3>3. b \in Txs /\ b.op = "deposit" /\ b.reserve = Second /\ b.seen = {}
        <4>1. /\ {Second} \in SUBSET Tokens /\ (~known) \in BOOLEAN
              /\ (IF known THEN {Second} ELSE {}) \in SUBSET Tokens
          BY <2>1
        <4> HIDE DEF known
        <4>2. QED
          BY <2>1, <2>2, <3>1, <3>2, <4>1 DEF LendingPanel_handleDeposit, Txs
      <3> HIDE DEF b
      <3>4. QED
        BY <3>3, TokenKinds DEF Sane, FitsWhatItRead
    <2>3. CASE tx.op = "borrow"
      <3>1. tx.reserve = Usdc /\ Usdc \notin Raw
        BY <1>6, <2>3, LendingAssumption DEF Asked, LendingAssumption, Raw
      <3>2. b = LendingPanel_handleBorrow(tx)
        BY <1>6, <2>3, <3>1 DEF Builds, Raw
      <3>3. b \in Txs /\ b.op = "borrow" /\ b.seen = {} /\ ~b.init
        <4>1. {Second, Usdc} \in SUBSET Tokens /\ {Second} \in SUBSET Tokens
          BY <2>1
        <4>2. QED
          BY <2>1, <2>3, <3>2, <4>1 DEF LendingPanel_handleBorrow, Txs
      <3> HIDE DEF b
      <3>4. QED
        BY <3>3 DEF Sane, FitsWhatItRead
    <2>4. QED
      BY <1>6, <2>2, <2>3 DEF Asked
  <1>7. QED
    BY <1>4, <1>5, <1>6 DEF Pages, Institutional

-----------------------------------------------------------------------------
(* The steps *)

LEMMA TabChanges ==
    ASSUME PagesInv, NEW p \in Pages, NEW tab \in Tabs, TabFits(p, tab),
           page' = [page EXCEPT ![p] = tab]
    PROVE  PagesInv'
  <1>1. page \in [Pages -> Tabs] /\ \A q \in Pages : TabFits(q, page[q])
    BY DEF PagesInv
  <1>2. page' \in [Pages -> Tabs]
    BY <1>1
  <1>3. \A q \in Pages : TabFits(q, page'[q])
    BY <1>1
  <1>4. QED
    BY <1>2, <1>3 DEF PagesInv, TabFits, Sane, Asked, FitsWhatItRead, RefreshFits, Reserves

LEMMA IdleTabFits ==
    ASSUME NEW p \in Pages, NEW tab \in Tabs, tab.at = "idle", tab.tx = NoTx,
           p = "console" => tab.shown \in [obligation : BOOLEAN]
    PROVE  TabFits(p, tab)
  BY NoTxFits DEF TabFits

LEMMA ClosedFits == Closed \in Tabs /\ \A p \in Pages : TabFits(p, Closed)
  BY NoTxFits DEF Closed, Tabs, TabFits, Shown

LEMMA TabOf ==
    ASSUME PagesInv, NEW p \in Pages
    PROVE  /\ page[p] \in Tabs /\ TabFits(p, page[p]) /\ page[p].tx \in Txs /\ Sane(page[p].tx)
           /\ page[p].shown \in Shown /\ FitsWhatItRead(p, page[p].tx)
           /\ p = "console" => page[p].shown \in [obligation : BOOLEAN]
  BY DEF PagesInv, Tabs, TabFits

LEMMA Ending ==
    ASSUME PagesInv, NEW p \in Pages, Ends(p)
    PROVE  PagesInv'
  <1> DEFINE tab == [page[p] EXCEPT !.at = "idle", !.tx = NoTx]
  <1>1. tab \in Tabs /\ tab.at = "idle" /\ tab.tx = NoTx /\ tab.shown = page[p].shown
    BY TabOf, NoTxFits DEF Tabs
  <1>2. page' = [page EXCEPT ![p] = tab]
    BY DEF Ends, PagesInv
  <1> HIDE DEF tab
  <1>3. TabFits(p, tab)
    BY <1>1, TabOf, IdleTabFits
  <1>4. QED
    BY <1>1, <1>2, <1>3, TabChanges

LEMMA OpenTab ==
    ASSUME LedgerInv, PagesInv, NEW p \in Pages, Open(p)
    PROVE  PagesInv'
  <1> DEFINE tab == [page[p] EXCEPT !.at = "idle", !.shown = Loads(p)]
  <1>1. Loads(p) \in Shown /\ (p = "console" => Loads(p) \in [obligation : BOOLEAN])
    BY LoadsAreShown DEF LoadsFit
  <1>2. /\ tab \in Tabs /\ tab.at = "idle" /\ tab.shown = Loads(p) /\ tab.tx = page[p].tx
    BY <1>1, TabOf DEF Tabs
  <1>3. page' = [page EXCEPT ![p] = tab]
    BY DEF Open, PagesInv
  <1> HIDE DEF tab
  <1>4. TabFits(p, tab)
    BY <1>1, <1>2, TabOf DEF TabFits
  <1>5. QED
    BY <1>2, <1>3, <1>4, TabChanges

LEMMA ClickTab ==
    ASSUME LedgerInv, PagesInv, NEW p \in Pages, Click(p)
    PROVE  PagesInv'
  <1>1. PICK op \in {"deposit", "withdraw", "borrow", "repay", "convert"}, r \in Tokens, n \in Amounts :
          /\ Enables(p, op, r, n)
          /\ page' = [page EXCEPT ![p].at = "reading", ![p].tx = Intent(op, r, n, ObligationOf(p))]
    BY DEF Click
  <1> DEFINE tx == Intent(op, r, n, ObligationOf(p))
             tab == [page[p] EXCEPT !.at = "reading", !.tx = tx]
  <1>2. n \in Nat /\ op \in Ops \ {"none"} /\ ObligationOf(p) \in Ids
    BY LendingAssumption DEF LendingAssumption, Ops, ObligationOf, Ids
  <1>3. Asked(p, tx) /\ tx \in Txs
    BY <1>1, <1>2, EnabledIsAsked, IntentType
  <1>4. page' = [page EXCEPT ![p] = tab]
    BY <1>1 DEF PagesInv
  <1> HIDE DEF tx
  <1>5. tab \in Tabs /\ tab.at = "reading" /\ tab.shown = page[p].shown /\ tab.tx = tx
    BY <1>3, TabOf DEF Tabs
  <1>6. Sane(tx) /\ FitsWhatItRead(p, tx)
    BY <1>3, TokenKinds DEF Asked, Sane, FitsWhatItRead
  <1> HIDE DEF tab
  <1>7. TabFits(p, tab)
    BY <1>3, <1>5, <1>6, TabOf DEF TabFits
  <1>8. QED
    BY <1>4, <1>5, <1>7, TabChanges

LEMMA BuildTab ==
    ASSUME LedgerInv, PagesInv, NEW p \in Pages, Build(p)
    PROVE  PagesInv'
  <1>1. CASE Ends(p)
    BY <1>1, Ending
  <1>2. CASE /\ Reads(p, page[p].tx)
             /\ page' = [page EXCEPT ![p].at = "built", ![p].tx = Builds(p, page[p].tx)]
    <2> DEFINE tx == Builds(p, page[p].tx)
               tab == [page[p] EXCEPT !.at = "built", !.tx = tx]
    <2>1. Asked(p, page[p].tx)
      BY TabOf DEF TabFits, Build, At
    <2>2. tx \in Txs /\ Sane(tx) /\ FitsWhatItRead(p, tx)
      BY <1>2, <2>1, TabOf, BuiltFits
    <2>3. page' = [page EXCEPT ![p] = tab]
      BY <1>2 DEF PagesInv
    <2> HIDE DEF tx
    <2>4. tab \in Tabs /\ tab.at = "built" /\ tab.shown = page[p].shown /\ tab.tx = tx
      BY <2>2, TabOf DEF Tabs
    <2> HIDE DEF tab
    <2>5. TabFits(p, tab)
      BY <2>2, <2>4, TabOf DEF TabFits
    <2>6. QED
      BY <2>3, <2>4, <2>5, TabChanges
  <1>3. QED
    BY <1>1, <1>2 DEF Build

LEMMA SignTab ==
    ASSUME PagesInv, NEW p \in Pages, Sign(p)
    PROVE  PagesInv'
  <1>1. CASE Ends(p)
    BY <1>1, Ending
  <1>2. CASE page' = [page EXCEPT ![p].at = "sent"]
    <2> DEFINE tab == [page[p] EXCEPT !.at = "sent"]
    <2>1. page' = [page EXCEPT ![p] = tab]
      BY <1>2 DEF PagesInv
    <2>2. tab \in Tabs /\ tab.at = "sent" /\ tab.shown = page[p].shown /\ tab.tx = page[p].tx
      BY TabOf DEF Tabs
    <2> HIDE DEF tab
    <2>3. TabFits(p, tab)
      BY <2>2, TabOf DEF TabFits
    <2>4. QED
      BY <2>1, <2>2, <2>3, TabChanges
  <1>3. QED
    BY <1>1, <1>2 DEF Sign

LEMMA ConfirmTab ==
    ASSUME LedgerInv, LedgerInv', PagesInv, NEW p \in Pages, Confirm(p)
    PROVE  PagesInv'
  <1>1. PICK fails \in BOOLEAN :
          /\ fails => p \in {"positions", "borrow"}
          /\ page' = [page EXCEPT ![p].at = "idle", ![p].tx = NoTx,
                ![p].shown = IF p \in {"console", "collateral"} THEN [obligation |-> TRUE]
                             ELSE IF fails THEN @ ELSE Loads(p)']
    BY DEF Confirm
  <1> DEFINE shown == IF p \in {"console", "collateral"} THEN [obligation |-> TRUE]
                      ELSE IF fails THEN page[p].shown ELSE Loads(p)'
             tab == [page[p] EXCEPT !.at = "idle", !.tx = NoTx, !.shown = shown]
  <1>2. Loads(p)' \in Shown
    <2>1. LoadsFit'
      BY LoadsAreShown, PTL
    <2>2. QED
      BY <2>1 DEF LoadsFit
  <1>3. [obligation |-> TRUE] \in [obligation : BOOLEAN] /\ [obligation |-> TRUE] \in Shown
    BY DEF Shown
  <1>4. shown \in Shown /\ (p = "console" => shown \in [obligation : BOOLEAN])
    BY <1>2, <1>3, TabOf
  <1>5. page' = [page EXCEPT ![p] = tab]
    BY <1>1 DEF PagesInv
  <1> HIDE DEF shown
  <1>6. tab \in Tabs /\ tab.at = "idle" /\ tab.tx = NoTx /\ tab.shown = shown
    BY <1>4, TabOf, NoTxFits DEF Tabs
  <1> HIDE DEF tab
  <1>7. TabFits(p, tab)
    BY <1>4, <1>6, IdleTabFits
  <1>8. QED
    BY <1>5, <1>6, <1>7, TabChanges

LEMMA OutsideLedger ==
    ASSUME LedgerInv, Outside
    PROVE  LedgerInv'
  <1>0. /\ obligation \in [Ids -> Obligations] /\ price \in [Collateral -> Prices]
        /\ \A i \in Ids : ~obligation[i].exists => Reserves(obligation[i]) = {}
        /\ wallet \in [Tokens -> Nat] /\ wallet' = wallet /\ liquidity \in Nat
    BY DEF LedgerInv, Outside
  <1>1. CASE \E r \in Collateral, x \in Prices :
                price' = [price EXCEPT ![r] = x] /\ UNCHANGED <<obligation, liquidity>>
    BY <1>0, <1>1 DEF LedgerInv
  <1>2. CASE \E i \in {"pages", "console"} :
                /\ obligation[i].debt > 0
                /\ obligation' = [obligation EXCEPT ![i].debt = @ + 1]
                /\ UNCHANGED <<price, liquidity>>
    <2>1. PICK i \in Ids : /\ obligation[i].debt > 0
                           /\ obligation' = [obligation EXCEPT ![i].debt = @ + 1]
                           /\ UNCHANGED <<price, liquidity>>
      BY <1>2 DEF Ids
    <2> DEFINE o == obligation[i]
    <2>2. o \in Obligations /\ o.debt \in Nat /\ o.debt + 1 \in Nat
      BY <1>0 DEF Obligations
    <2>3. o.exists
      <3>1. o.debt # 0
        BY <2>1, <2>2
      <3>2. QED
        BY <1>0, <2>2, <3>1, NoReserves
    <2>4. /\ obligation' \in [Ids -> Obligations] /\ obligation'[i].exists
          /\ \A j \in Ids \ {i} : obligation'[j] = obligation[j]
      BY <1>0, <2>1, <2>2, <2>3 DEF Obligations
    <2>5. QED
      BY <1>0, <2>1, <2>4 DEF LedgerInv
  <1>3. CASE liquidity' \in {0, StartLiquidity} /\ UNCHANGED <<obligation, price>>
    BY <1>0, <1>3, LendingAssumption DEF LendingAssumption, LedgerInv
  <1>4. QED
    BY <1>1, <1>2, <1>3 DEF Outside

LEMMA LedgerStays ==
    ASSUME LedgerInv, UNCHANGED ledger
    PROVE  LedgerInv'
  BY DEF LedgerInv, ledger

LEMMA PagesStay ==
    ASSUME PagesInv, UNCHANGED page
    PROVE  PagesInv'
  BY DEF PagesInv, TabFits, Sane, Asked, FitsWhatItRead, RefreshFits, Reserves

\* The counters stay in their bounds.
LEMMA EventCounts ==
    ASSUME Event, events \in 0 .. MaxEvents
    PROVE  events' \in 0 .. MaxEvents
  BY LendingAssumption DEF LendingAssumption, Event

LEMMA LendInvInit == LendingInit => LendInv
  <1> SUFFICES ASSUME LendingInit PROVE LendInv
    OBVIOUS
  <1>1. PICK o \in {NoObligation} \cup StartPositions :
          obligation = [i \in {"pages", "console"} |-> IF i = "pages" THEN o ELSE NoObligation]
    BY DEF LendingInit
  <1>2. NoObligation \in Obligations /\ Reserves(NoObligation) = {}
    BY DEF NoObligation, Obligations, Reserves
  <1>3. o \in Obligations /\ (~o.exists => Reserves(o) = {})
    <2>1. CASE o = NoObligation
      BY <1>2, <2>1
    <2>2. CASE o \in StartPositions
      BY <2>2, LendingAssumption DEF LendingAssumption, Obligations
    <2>3. QED
      BY <2>1, <2>2
  <1>4. obligation["pages"] = o /\ obligation["console"] = NoObligation
        /\ obligation \in [Ids -> Obligations]
    BY <1>1, <1>2, <1>3 DEF Ids
  <1>5. wallet \in [Tokens -> Nat]
    BY LendingAssumption DEF LendingAssumption, LendingInit, Tokens, Raw
  <1>6. liquidity \in Nat /\ price \in [Collateral -> Prices]
    BY LendingAssumption DEF LendingAssumption, LendingInit
  <1>7. LedgerInv
    BY <1>2, <1>3, <1>4, <1>5, <1>6 DEF LedgerInv, Ids
  <1>8. PagesInv
    BY ClosedFits DEF LendingInit, PagesInv
  <1>9. QED
    BY <1>7, <1>8, LendingAssumption DEF LendInv, LendingInit, LendingAssumption

LEMMA LendInvNext == LendInv /\ [LendingNext]_lendingVars => LendInv'
  <1> SUFFICES ASSUME LendInv, [LendingNext]_lendingVars PROVE LendInv'
    OBVIOUS
  <1>0. /\ LedgerInv /\ PagesInv /\ adrift \subseteq Txs /\ (\A tx \in adrift : Sane(tx))
        /\ clicks \in 0 .. MaxClicks /\ events \in 0 .. MaxEvents
    BY DEF LendInv
  <1>1. ASSUME NEW p \in Pages, Open(p) PROVE LendInv'
    <2>1. UNCHANGED <<ledger, adrift, clicks, events>>
      BY <1>1 DEF Open
    <2>2. LedgerInv' /\ PagesInv'
      BY <1>0, <1>1, <2>1, LedgerStays, OpenTab
    <2>3. QED
      BY <1>0, <2>1, <2>2 DEF LendInv, Sane
  <1>2. ASSUME NEW p \in Pages, Leave(p) PROVE LendInv'
    <2>1. UNCHANGED <<ledger, adrift, clicks, events>> /\ page' = [page EXCEPT ![p] = Closed]
      BY <1>2 DEF Leave
    <2>2. LedgerInv' /\ PagesInv'
      BY <1>0, <2>1, LedgerStays, ClosedFits, TabChanges
    <2>3. QED
      BY <1>0, <2>1, <2>2 DEF LendInv, Sane
  <1>3. ASSUME NEW p \in Pages, Click(p) PROVE LendInv'
    <2>1. UNCHANGED <<ledger, adrift, events>> /\ clicks < MaxClicks /\ clicks' = clicks + 1
      BY <1>3 DEF Click
    <2>2. LedgerInv' /\ PagesInv'
      BY <1>0, <1>3, <2>1, LedgerStays, ClickTab
    <2>3. clicks' \in 0 .. MaxClicks
      BY <1>0, <2>1, LendingAssumption DEF LendingAssumption
    <2>4. QED
      BY <1>0, <2>1, <2>2, <2>3 DEF LendInv, Sane
  <1>4. ASSUME NEW p \in Pages, Build(p) PROVE LendInv'
    <2>1. UNCHANGED <<ledger, adrift, clicks, events>>
      BY <1>4 DEF Build
    <2>2. LedgerInv' /\ PagesInv'
      BY <1>0, <1>4, <2>1, LedgerStays, BuildTab
    <2>3. QED
      BY <1>0, <2>1, <2>2 DEF LendInv, Sane
  <1>5. ASSUME NEW p \in Pages, Sign(p) PROVE LendInv'
    <2>1. UNCHANGED <<ledger, adrift, clicks, events>>
      BY <1>5 DEF Sign
    <2>2. LedgerInv' /\ PagesInv'
      BY <1>0, <1>5, <2>1, LedgerStays, SignTab
    <2>3. QED
      BY <1>0, <2>1, <2>2 DEF LendInv, Sane
  <1>6. ASSUME NEW p \in Pages, Confirm(p) PROVE LendInv'
    <2>1. UNCHANGED <<adrift, clicks, events>> /\ Executed(page[p].tx)
      BY <1>6 DEF Confirm
    <2>2. LedgerInv'
      BY <1>0, <2>1, TabOf, ExecutedLedger
    <2>3. PagesInv'
      BY <1>0, <1>6, <2>2, ConfirmTab
    <2>4. QED
      BY <1>0, <2>1, <2>2, <2>3 DEF LendInv, Sane
  <1>7. ASSUME NEW p \in Pages, GiveUp(p) PROVE LendInv'
    <2>1. /\ UNCHANGED <<ledger, clicks>> /\ Event /\ Ends(p)
          /\ adrift' = adrift \cup {page[p].tx}
      BY <1>7 DEF GiveUp
    <2>2. LedgerInv' /\ PagesInv' /\ events' \in 0 .. MaxEvents
      BY <1>0, <2>1, LedgerStays, Ending, EventCounts
    <2>3. adrift' \subseteq Txs /\ \A tx \in adrift' : Sane(tx)
      BY <1>0, <2>1, TabOf
    <2>4. QED
      BY <1>0, <2>1, <2>2, <2>3 DEF LendInv, Sane
  <1>8. CASE Settle
    <2>1. PICK tx \in adrift : adrift' = adrift \ {tx} /\ (Executed(tx) \/ UNCHANGED ledger)
      BY <1>8 DEF Settle
    <2>2. UNCHANGED <<page, clicks, events>>
      BY <1>8 DEF Settle
    <2>3. LedgerInv' /\ PagesInv'
      BY <1>0, <2>1, <2>2, ExecutedLedger, LedgerStays, PagesStay
    <2>4. QED
      BY <1>0, <2>1, <2>2, <2>3 DEF LendInv, Sane
  <1>9. CASE Outside
    <2>1. UNCHANGED <<page, adrift, clicks>> /\ Event
      BY <1>9 DEF Outside
    <2>2. LedgerInv' /\ PagesInv' /\ events' \in 0 .. MaxEvents
      BY <1>0, <1>9, <2>1, OutsideLedger, PagesStay, EventCounts
    <2>3. QED
      BY <1>0, <2>1, <2>2 DEF LendInv, Sane
  <1>10. CASE UNCHANGED lendingVars
    <2>1. UNCHANGED <<ledger, page, adrift, clicks, events>>
      BY <1>10 DEF lendingVars
    <2>2. LedgerInv' /\ PagesInv'
      BY <1>0, <2>1, LedgerStays, PagesStay
    <2>3. QED
      BY <1>0, <2>1, <2>2 DEF LendInv, Sane
  <1>11. QED
    BY <1>1, <1>2, <1>3, <1>4, <1>5, <1>6, <1>7, <1>8, <1>9, <1>10 DEF LendingNext

LEMMA LendInvAlways == LendingSpec => []LendInv
  BY LendInvInit, LendInvNext, PTL DEF LendingSpec

-----------------------------------------------------------------------------
(* The pages: sums over the collateral *)

\* FoldFunction adds f up along one choice of elements after the other.
AddsUp(f, it) ==
    it = [s \in SUBSET DOMAIN f |->
             IF s = {} THEN 0
             ELSE LET x == CHOOSE x \in s : TRUE IN f[x] + it[s \ {x}]]

LEMMA SumAddsUp ==
    ASSUME NEW f
    PROVE  Sum(f) = (CHOOSE it : AddsUp(f, it))[DOMAIN f]
  BY DEF Sum, FoldFunction, FoldFunctionOnSet, MapThenFoldSet, AddsUp

\* A set of numbers with 0 and all successors has every number.
LEMMA NumbersFromZero ==
    ASSUME NEW G, 0 \in G, \A n \in Nat : n \in G => n + 1 \in G
    PROVE  Nat \subseteq G
  <1> DEFINE R == OpToRel(<, Nat)
  <1>1. IsWellFoundedOn(R, Nat)
    BY NatLessThanWellFounded
  <1>2. SUFFICES ASSUME Nat \ G # {} PROVE FALSE
    OBVIOUS
  <1>3. PICK m \in Nat \ G : \A k \in Nat \ G : <<k, m>> \notin R
    BY <1>1, <1>2, WFMin
  <1>4. m # 0 /\ m - 1 \in Nat /\ (m - 1) + 1 = m
    <2>1. m # 0 /\ m \in Nat
      BY <1>3
    <2>2. QED
      BY <2>1
  <1>5. m - 1 \in G
    <2>1. <<m - 1, m>> \in R
      BY <1>4 DEF OpToRel
    <2>2. QED
      BY <1>3, <1>4, <2>1
  <1>6. QED
    BY <1>3, <1>4, <1>5

\* Subsets with at most n elements, and the element the fold takes next.
UpTo(S, n) == {s \in SUBSET S : Cardinality(s) <= n}
Chosen(s) == CHOOSE x \in s : TRUE

LEMMA Smaller ==
    ASSUME NEW S, IsFiniteSet(S), NEW n \in Nat, NEW s \in UpTo(S, n + 1), s # {}
    PROVE  Chosen(s) \in s /\ Chosen(s) \in S /\ s \ {Chosen(s)} \in UpTo(S, n)
  <1>1. Chosen(s) \in s /\ s \subseteq S
    BY DEF Chosen, UpTo
  <1>2. IsFiniteSet(s) /\ Cardinality(s) \in Nat /\ Cardinality(s) <= n + 1
    BY <1>1, FS_Subset, FS_CardinalityType DEF UpTo
  <1>3. Cardinality(s \ {Chosen(s)}) = Cardinality(s) - 1
    BY <1>1, <1>2, FS_RemoveElement
  <1>4. QED
    BY <1>1, <1>2, <1>3 DEF UpTo

LEMMA UpToAll ==
    ASSUME NEW S, IsFiniteSet(S)
    PROVE  Cardinality(S) \in Nat /\ UpTo(S, Cardinality(S)) = SUBSET S
           /\ UpTo(S, 0) = {{}}
  <1>1. Cardinality(S) \in Nat
    BY FS_CardinalityType
  <1>2. \A s \in SUBSET S : Cardinality(s) <= Cardinality(S)
    BY FS_Subset
  <1>3. UpTo(S, 0) = {{}}
    <2>1. \A s \in SUBSET S : IsFiniteSet(s) /\ Cardinality(s) \in Nat
      BY FS_Subset, FS_CardinalityType
    <2>2. \A s \in SUBSET S : Cardinality(s) <= 0 => s = {}
      BY <2>1, FS_EmptySet
    <2>3. QED
      BY <2>2, FS_EmptySet DEF UpTo
  <1>4. QED
    BY <1>1, <1>2, <1>3 DEF UpTo

\* The function the fold is defined by exists.
LEMMA FoldExists ==
    ASSUME NEW f, IsFiniteSet(DOMAIN f)
    PROVE  \E it : AddsUp(f, it)
  <1> DEFINE S == DOMAIN f
             Adds(n, it) == it = [s \in UpTo(S, n) |->
                                     IF s = {} THEN 0 ELSE f[Chosen(s)] + it[s \ {Chosen(s)}]]
             G == {n \in Nat : \E it : Adds(n, it)}
  <1>1. 0 \in G
    <2> DEFINE it == [s \in {{}} |-> 0]
    <2>1. Adds(0, it)
      BY UpToAll
    <2>2. QED
      BY <2>1
  <1>2. ASSUME NEW n \in Nat, n \in G PROVE n + 1 \in G
    <2>1. PICK it : Adds(n, it)
      BY <1>2
    <2> DEFINE next == [s \in UpTo(S, n + 1) |->
                           IF s = {} THEN 0 ELSE f[Chosen(s)] + it[s \ {Chosen(s)}]]
    <2>2. \A s \in UpTo(S, n) : s \in UpTo(S, n + 1) /\ next[s] = it[s]
      <3>1. ASSUME NEW s \in UpTo(S, n) PROVE s \in UpTo(S, n + 1)
        BY <3>1, FS_Subset, FS_CardinalityType DEF UpTo
      <3>2. QED
        BY <2>1, <3>1
    <2>3. \A s \in UpTo(S, n + 1) : s # {} => next[s \ {Chosen(s)}] = it[s \ {Chosen(s)}]
      BY <2>2, Smaller
    <2>4. Adds(n + 1, next)
      BY <2>3
    <2> HIDE DEF next, Adds
    <2>5. QED
      BY <2>4
  <1>3. Cardinality(S) \in G
    <2> HIDE DEF G
    <2>1. QED
      BY <1>1, <1>2, NumbersFromZero, UpToAll
  <1>4. PICK it : Adds(Cardinality(S), it)
    BY <1>3
  <1>5. AddsUp(f, it)
    BY <1>4, UpToAll DEF AddsUp, Chosen
  <1>6. QED
    BY <1>5

LEMMA DistributeSum ==
    ASSUME NEW a \in Int, NEW b \in Int, NEW k \in Int
    PROVE  k * a + k * b = k * (a + b) /\ k * a \in Int
  OBVIOUS

\* A factor that all share can be taken out of a sum.
LEMMA SumScales ==
    ASSUME NEW S, IsFiniteSet(S), NEW f \in [S -> Int], NEW g \in [S -> Int], NEW k \in Int,
           \A x \in S : f[x] = k * g[x]
    PROVE  Sum(g) \in Int /\ Sum(f) = k * Sum(g)
  <1> DEFINE F == CHOOSE it : AddsUp(f, it)
             H == CHOOSE it : AddsUp(g, it)
             Scaled(s) == H[s] \in Int /\ F[s] = k * H[s]
             G == {n \in Nat : \A s \in UpTo(S, n) : Scaled(s)}
  <1>1. AddsUp(f, F) /\ AddsUp(g, H)
    BY FoldExists
  <1> HIDE DEF F, H
  <1>2. \A s \in SUBSET S :
           /\ F[s] = IF s = {} THEN 0 ELSE f[Chosen(s)] + F[s \ {Chosen(s)}]
           /\ H[s] = IF s = {} THEN 0 ELSE g[Chosen(s)] + H[s \ {Chosen(s)}]
    BY <1>1 DEF AddsUp, Chosen
  <1>3. Scaled({})
    <2>1. F[{}] = 0 /\ H[{}] = 0
      BY <1>2
    <2>2. QED
      BY <2>1
  <1>4. 0 \in G
    <2> HIDE DEF Scaled
    <2>1. QED
      BY <1>3, UpToAll
  <1>5. ASSUME NEW n \in Nat, n \in G PROVE n + 1 \in G
    <2>1. ASSUME NEW s \in UpTo(S, n + 1), s # {} PROVE Scaled(s)
      <3> DEFINE c == Chosen(s)
                 t == s \ {Chosen(s)}
      <3>1. c \in S /\ t \in UpTo(S, n) /\ s \in SUBSET S
        BY <2>1, Smaller DEF UpTo
      <3>2. H[t] \in Int /\ F[t] = k * H[t] /\ g[c] \in Int /\ f[c] = k * g[c]
        BY <1>5, <3>1
      <3>3. F[s] = f[c] + F[t] /\ H[s] = g[c] + H[t]
        BY <1>2, <2>1, <3>1
      <3> HIDE DEF c, t
      <3>4. H[s] \in Int /\ F[s] = k * g[c] + k * H[t]
        BY <3>2, <3>3
      <3>5. k * g[c] + k * H[t] = k * (g[c] + H[t])
        BY <3>2, DistributeSum
      <3>6. QED
        BY <3>3, <3>4, <3>5
    <2> HIDE DEF Scaled
    <2>2. \A s \in UpTo(S, n + 1) : Scaled(s)
      BY <1>3, <2>1
    <2>3. QED
      BY <2>2
  <1>6. Cardinality(S) \in G
    <2> HIDE DEF G
    <2>1. QED
      BY <1>4, <1>5, NumbersFromZero, UpToAll
  <1>7. Scaled(S)
    BY <1>6, UpToAll
  <1>8. Sum(f) = F[S] /\ Sum(g) = H[S]
    BY SumAddsUp DEF F, H
  <1>9. QED
    BY <1>7, <1>8

\* What the page quotes is the whole limit, when every deposit has the page's
\* price and the terms of the first.
LEMMA LimitIsQuoted ==
    ASSUME LedgerInv, NEW o \in Obligations,
           \A r \in Deposited(o) : price[r] = Quoted /\ Ltv[r] = Ltv[TermsOf(o)]
    PROVE  /\ Worth(o) \in Int /\ Ltv[TermsOf(o)] \in 0 .. 100
           /\ Limit(o.deposits) = Ltv[TermsOf(o)] * Worth(o)
  <1> DEFINE k == Ltv[TermsOf(o)]
             f == [r \in Collateral |-> o.deposits[r] * price[r] * Ltv[r]]
             g == [r \in Collateral |-> o.deposits[r] * Quoted]
  <1>1. k \in 0 .. 100
    BY LendingAssumption DEF TermsOf
  <1>2. /\ o.deposits \in [Collateral -> Nat] /\ price \in [Collateral -> Nat]
        /\ Ltv \in [Collateral -> Nat] /\ Quoted \in Nat
    <2>1. Prices \subseteq Nat /\ Quoted \in Nat
      BY LendingAssumption
    <2>2. o.deposits \in [Collateral -> Nat] /\ price \in [Collateral -> Prices]
      BY DEF LedgerInv, Obligations
    <2>3. Ltv \in [Collateral -> 0 .. 100]
      BY LendingAssumption
    <2>4. 0 .. 100 \subseteq Nat
      OBVIOUS
    <2>5. price \in [Collateral -> Nat] /\ Ltv \in [Collateral -> Nat]
      BY <2>1, <2>2, <2>3, <2>4
    <2>6. QED
      BY <2>1, <2>2, <2>5
  <1>3. \A r \in Collateral : o.deposits[r] = 0 \/ (price[r] = Quoted /\ Ltv[r] = k)
    BY <1>2 DEF Deposited
  <1> HIDE DEF k
  <1>4. ASSUME NEW r \in Collateral
        PROVE  f[r] \in Int /\ g[r] \in Int /\ f[r] = k * g[r]
    <2> DEFINE d == o.deposits[r]
    <2>1. d \in Nat /\ price[r] \in Nat /\ Ltv[r] \in Nat /\ k \in Nat
      BY <1>1, <1>2
    <2>2. d = 0 \/ (price[r] = Quoted /\ Ltv[r] = k)
      BY <1>3
    <2> HIDE DEF d
    <2>3. /\ d * price[r] * Ltv[r] \in Int /\ d * Quoted \in Int
          /\ d * price[r] * Ltv[r] = k * (d * Quoted)
      BY <1>2, <2>1, <2>2
    <2>4. QED
      BY <2>3 DEF d
  <1>5. f \in [Collateral -> Int] /\ g \in [Collateral -> Int]
    BY <1>4
  <1>6. Limit(o.deposits) = Sum(f) /\ Worth(o) = Sum(g)
    BY DEF Limit, Worth
  <1> HIDE DEF f, g
  <1>7. Sum(g) \in Int /\ Sum(f) = k * Sum(g)
    BY <1>1, <1>4, <1>5, SumScales, LendingAssumption
  <1>8. QED
    BY <1>1, <1>6, <1>7 DEF k

\* The transaction of a borrow on PositionsPage.
LEMMA BorrowBuilt ==
    ASSUME NEW o \in Obligations, NEW n \in Nat
    PROVE  LET tx == PositionsPage_handleBorrow(Intent("borrow", Usdc, n, "pages"), o) IN
           tx.op = "borrow" /\ tx.id = "pages" /\ tx.amount = n /\ RefreshFits(tx, o)
  <1> DEFINE i == Intent("borrow", Usdc, n, "pages")
  <1>1. i \in Txs /\ i.op = "borrow" /\ i.reserve = Usdc
    BY IntentType, TokenKinds DEF Ops, Ids
  <1>2. i.id = "pages" /\ i.amount = n
    BY DEF Intent, NoTx
  <1> HIDE DEF i
  <1>3. Reserves(o) \cup {Usdc} \in SUBSET Tokens
    BY ReservesAreTokens, TokenKinds
  <1>4. LET tx == PositionsPage_handleBorrow(i, o) IN RefreshFits(tx, o) /\ tx.op = "borrow"
    BY <1>1, <1>3, RefreshingFits DEF PositionsPage_handleBorrow
  <1>5. LET tx == PositionsPage_handleBorrow(i, o) IN tx.id = "pages" /\ tx.amount = n
    BY <1>1, <1>2 DEF PositionsPage_handleBorrow, Refreshing, Txs
  <1>6. QED
    BY <1>4, <1>5 DEF i

\* The division of the quote rounds down, in the lender's favour.
LEMMA QuoteFits ==
    ASSUME NEW m \in Int, NEW b \in Int, NEW n \in Int, n <= (m \div 100) - b
    PROVE  (b + n) * 100 <= m
  OBVIOUS

-----------------------------------------------------------------------------
(* The pages: theorems *)

\* What klend keeps for the wallet stays well formed whatever the tabs send:
\* no balance, deposit or debt is ever negative, and an obligation that does
\* not exist holds nothing.
THEOREM LendingTypeCorrect == LendingSpec => []LendingTypeOK
  <1>1. LendInv => LendingTypeOK
    BY DEF LendInv, LedgerInv, LendingTypeOK, Ids, Obligations
  <1>2. QED
    BY <1>1, LendInvAlways, PTL

\* A transaction built by the institutional pages, except for BorrowPage's
\* borrow, refreshes and lists what klend asks for, as long as the obligation
\* is still the one its handler read: for any deposits and any debt.
THEOREM FreshTransactionsFitCorrect == LendingSpec => []FreshTransactionsFit
  <1>1. LendInv => FreshTransactionsFit
    <2> SUFFICES ASSUME LendInv, NEW p \in Pages, page[p].tx.seen = {obligation["pages"]},
                        p # "borrow" \/ page[p].tx.op = "repay"
                 PROVE  RefreshFits(page[p].tx, obligation["pages"])
      BY DEF FreshTransactionsFit
    <2>1. obligation["pages"] \in Obligations
      BY DEF LendInv, LedgerInv, Ids
    <2>2. FitsWhatItRead(p, page[p].tx)
      BY TabOf DEF LendInv
    <2>3. QED
      BY <2>1, <2>2 DEF FitsWhatItRead
  <1>2. QED
    BY <1>1, LendInvAlways, PTL

\* When PositionsPage shows the ledger as it is, its quotes are the oracles'
\* and the terms of all deposits are those of the first, klend grants every
\* borrow the page enables: for any deposits, debt, terms, prices and amounts.
THEOREM OfferIsGrantedCorrect == LendingSpec => []OfferIsGranted
  <1>1. LendInv => OfferIsGranted
    <2> DEFINE o == obligation["pages"]
               s == PositionsPage_loadPosition
    <2> SUFFICES ASSUME LendInv,
                        \A r \in Deposited(o) : price[r] = Quoted /\ Ltv[r] = Ltv[TermsOf(o)],
                        NEW n \in Amounts, PositionsPage_enables(s, "borrow", Usdc, n)
                 PROVE  Accepts(PositionsPage_handleBorrow(Intent("borrow", Usdc, n, "pages"), o))
      BY DEF OfferIsGranted
    <2>1. o \in Obligations /\ o.debt \in Nat /\ liquidity \in Nat /\ LedgerInv
      BY DEF LendInv, LedgerInv, Ids, Obligations
    <2>2. n \in Nat \ {0}
      BY LendingAssumption
    <2>3. n <= Least(PositionsPage_maxBorrow(o), liquidity)
      BY DEF PositionsPage_enables, PositionsPage_loadPosition
    <2> DEFINE W == Worth(o)
               L == Ltv[TermsOf(o)]
    <2>4. W \in Int /\ L \in 0 .. 100 /\ Limit(o.deposits) = L * W
      BY <2>1, LimitIsQuoted
    <2>5. PositionsPage_maxBorrow(o) = IF Deposited(o) = {} THEN 0 ELSE (W * L) \div 100 - o.debt
      BY DEF PositionsPage_maxBorrow
    <2> DEFINE tx == PositionsPage_handleBorrow(Intent("borrow", Usdc, n, "pages"), o)
    <2>6. tx.op = "borrow" /\ tx.id = "pages" /\ tx.amount = n /\ RefreshFits(tx, o)
      BY <2>1, <2>2, BorrowBuilt
    <2> HIDE DEF W, L, tx
    <2>7. W * L \in Int /\ L * W = W * L
      BY <2>4
    <2>8. n <= (W * L) \div 100 - o.debt /\ n <= liquidity
      <3> DEFINE q == (W * L) \div 100
      <3>1. q \in Int
        BY <2>7
      <3> HIDE DEF q
      <3>2. PositionsPage_maxBorrow(o) = IF Deposited(o) = {} THEN 0 ELSE q - o.debt
        BY <2>5 DEF q
      <3>3. n <= q - o.debt /\ n <= liquidity
        BY <2>1, <2>2, <2>3, <3>1, <3>2 DEF Least
      <3>4. QED
        BY <3>3 DEF q
    <2>9. (o.debt + n) * 100 <= Limit(o.deposits)
      BY <2>1, <2>2, <2>4, <2>7, <2>8, QuoteFits
    <2>10. OperationFits(tx, o)
      BY <2>6, <2>8, <2>9 DEF OperationFits
    <2>11. QED
      BY <2>6, <2>10 DEF Accepts, tx
  <1>2. QED
    BY <1>1, LendInvAlways, PTL

=============================================================================
