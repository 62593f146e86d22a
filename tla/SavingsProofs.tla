---------------------------- MODULE SavingsProofs ----------------------------
(***************************************************************************)
(* Theorems about the savings page, for every amount, reserve and          *)
(* cooldown.  Rates are fractions; that one is no greater than another is  *)
(* a comparison of products, and the lemmas about products come first.     *)
(***************************************************************************)
EXTENDS Savings, FiniteSetTheorems, SequenceTheorems, TLAPS

-----------------------------------------------------------------------------
(* Products and quotients *)

LEMMA TimesMonotone ==
    ASSUME NEW a \in Int, NEW b \in Int, NEW k \in Nat, a <= b
    PROVE  a * k <= b * k
  OBVIOUS

LEMMA TimesCancels ==
    ASSUME NEW a \in Int, NEW b \in Int, NEW k \in Nat \ {0}, a * k <= b * k
    PROVE  a <= b
  OBVIOUS

\* What a division rounds away is less than the divisor.
LEMMA Quotient ==
    ASSUME NEW a \in Nat, NEW b \in Nat \ {0}
    PROVE  /\ a \div b \in Nat
           /\ (a \div b) * b <= a
           /\ a < ((a \div b) + 1) * b
  OBVIOUS

\* a/b <= c/d and c/d <= e/f give a/b <= e/f.
LEMMA FractionsTransitive ==
    ASSUME NEW a \in Int, NEW b \in Nat, NEW c \in Int, NEW d \in Nat \ {0},
           NEW e \in Int, NEW f \in Nat,
           a * d <= c * b, c * f <= e * d
    PROVE  a * f <= e * b
  <1>1. (a * d) * f <= (c * b) * f
    BY TimesMonotone
  <1>2. (c * f) * b <= (e * d) * b
    BY TimesMonotone
  <1>3. (a * f) * d = (a * d) * f /\ (c * b) * f = (c * f) * b /\ (e * b) * d = (e * d) * b
    OBVIOUS
  <1>4. (a * f) * d <= (e * b) * d
    BY <1>1, <1>2, <1>3
  <1>5. a * f \in Int /\ e * b \in Int
    OBVIOUS
  <1>6. QED
    BY <1>4, <1>5, TimesCancels

-----------------------------------------------------------------------------
(* The invariant *)

Rates == (Nat \ {0}) \X (Nat \ {0})
Balances == [cTokens : Nat, rate : Rates]
CardTxs == [usdc : Nat, cTokens : Nat, of : Nat, rate : Rates]

\* The rate r is no greater than q.
NotAbove(r, q) == r[1] * q[2] <= q[1] * r[2]

\* Less the fees there are by now, the rate r is no greater than what the
\* reserve owes per cToken.
Behind(r) == (r[1] - reserve.fees) * reserve.supply <= Owed * r[2]

Reserves == [available : Nat, borrowed : Nat, fees : Nat, supply : Nat]

\* The reserve owes something, and some cTokens are nobody's to redeem.
ReserveInv ==
    /\ reserve \in Reserves
    /\ reserve.fees < Liquidity
    /\ held \in Nat /\ held + StartSupply <= reserve.supply

PageInv ==
    /\ usdc \in Nat /\ shownUsdc \in Nat
    /\ rate \in Rates /\ balance \in Balances /\ polls \subseteq Balances
    /\ IsFiniteSet(polls) /\ Cardinality(polls) <= MaxPolls
    /\ card \in [Cards -> [at : {"idle", "built", "sent"}, tx : CardTxs]]

\* The page's rate is behind the reserve's, and while there are no fees the
\* rates balances are valued with are behind the page's.
RateInv ==
    /\ Behind(rate)
    /\ reserve.fees = 0 =>
          /\ NotAbove(balance.rate, rate)
          /\ \A a \in polls : NotAbove(a.rate, rate)

\* What a withdrawal was filled in with, until it is confirmed.
Filled(w) ==
    w.at # "idle" =>
        /\ Behind(w.tx.rate)
        /\ w.tx.cTokens = (w.tx.usdc * w.tx.rate[2]) \div w.tx.rate[1]
        /\ reserve.fees = 0 => w.tx.cTokens <= w.tx.of

\* The server remembers the last request it granted.
FaucetInv ==
    /\ faucet \in [Tabs -> {"idle", "minting", "success"}]
    /\ clock \in 0 .. MaxTicks /\ cooldowns \in {Never} \cup 0 .. MaxTicks
    /\ cooldowns <= clock
    /\ grants \in Seq(Nat)
    /\ Len(grants) > 0 => grants[Len(grants)] = cooldowns
    /\ GrantsAreSpaced

SavInv == ReserveInv /\ PageInv /\ RateInv /\ Filled(card["withdraw"]) /\ FaucetInv

-----------------------------------------------------------------------------
(* The reserve never owes less per cToken *)

\* Rates that are behind stay behind.
Grows ==
    /\ Owed * reserve'.supply <= Owed' * reserve.supply
    /\ reserve.fees <= reserve'.fees

LEMMA ReserveTypes ==
    ASSUME ReserveInv
    PROVE  /\ reserve.available \in Nat /\ reserve.borrowed \in Nat
           /\ reserve.fees \in Nat /\ reserve.supply \in Nat \ {0}
           /\ Liquidity \in Nat \ {0} /\ Owed \in Nat \ {0}
           /\ Liquidity = reserve.available + reserve.borrowed
           /\ Owed = Liquidity - reserve.fees
           /\ held \in Nat /\ held < reserve.supply
           /\ StartSupply \in Nat \ {0}
  <1>1. StartSupply \in Nat \ {0}
    BY SavingsAssumption DEF SavingsAssumption
  <1>2. QED
    BY <1>1 DEF ReserveInv, Reserves, Liquidity, Owed

LEMMA BehindStays ==
    ASSUME ReserveInv, ReserveInv', Grows, NEW r \in Rates, Behind(r)
    PROVE  Behind(r)'
  <1> DEFINE a == r[1] - reserve'.fees
             O == Owed
             P == Owed'
             S == reserve.supply
             T == reserve'.supply
  <1>1. /\ r[1] \in Nat /\ r[2] \in Nat
        /\ O \in Nat /\ S \in Nat \ {0} /\ reserve.fees \in Nat
    BY ReserveTypes DEF Rates
  <1>2. P \in Nat /\ T \in Nat \ {0} /\ reserve'.fees \in Nat
    <2>1. (reserve.fees \in Nat /\ reserve.supply \in Nat \ {0} /\ Owed \in Nat \ {0})'
      BY ReserveTypes, PTL
    <2>2. QED
      BY <2>1
  <1>3. a \in Int /\ r[1] - reserve.fees \in Int /\ a <= r[1] - reserve.fees
    BY <1>1, <1>2 DEF Grows
  <1>4. O * T <= P * S
    BY DEF Grows
  <1>5. (r[1] - reserve.fees) * S <= O * r[2]
    BY DEF Behind
  <1>6. a * S <= (r[1] - reserve.fees) * S
    BY <1>1, <1>3, TimesMonotone
  <1>7. Behind(r)' <=> a * T <= P * r[2]
    BY DEF Behind
  <1> HIDE DEF a, O, P, S, T
  <1>8. a * S <= O * r[2]
    BY <1>1, <1>3, <1>5, <1>6
  <1>9. a * T <= P * r[2]
    BY <1>1, <1>2, <1>3, <1>4, <1>8, FractionsTransitive
  <1>10. QED
    BY <1>7, <1>9

\* Adding n, and the cTokens it is worth or fewer.
LEMMA DepositGrows ==
    ASSUME NEW O \in Nat \ {0}, NEW S \in Nat, NEW n \in Nat
    PROVE  O * (S + ((n * S) \div O)) <= (O + n) * S
  <1> DEFINE m == (n * S) \div O
  <1>1. n * S \in Nat
    OBVIOUS
  <1>2. m \in Nat /\ m * O <= n * S
    BY <1>1, Quotient
  <1> HIDE DEF m
  <1>3. O * (S + m) = O * S + m * O /\ (O + n) * S = O * S + n * S
    BY <1>2
  <1>4. O * (S + m) <= (O + n) * S
    BY <1>1, <1>2, <1>3
  <1>5. QED
    BY <1>4 DEF m

\* Burning c cTokens, and paying what they are worth or less, which is never all.
LEMMA RedeemGrows ==
    ASSUME NEW O \in Nat \ {0}, NEW S \in Nat \ {0}, NEW c \in Nat, c < S
    PROVE  /\ (c * O) \div S \in Nat /\ (c * O) \div S < O
           /\ O * (S - c) <= (O - ((c * O) \div S)) * S
  <1> DEFINE g == (c * O) \div S
  <1>1. c * O \in Nat
    OBVIOUS
  <1>2. g \in Nat /\ g * S <= c * O
    BY <1>1, Quotient
  <1> HIDE DEF g
  <1>3. c * O <= (S - 1) * O /\ (S - 1) * O = S * O - O
    BY TimesMonotone
  <1>4. g < O
    <2> SUFFICES ASSUME O <= g PROVE FALSE
      BY <1>2
    <2>1. O * S <= g * S
      BY <1>2, TimesMonotone
    <2>2. O * S \in Nat /\ O * S = S * O
      OBVIOUS
    <2>3. QED
      BY <1>1, <1>2, <1>3, <2>1, <2>2
  <1>5. O * (S - c) = O * S - c * O /\ (O - g) * S = O * S - g * S
    BY <1>2
  <1>6. O * (S - c) <= (O - g) * S
    BY <1>1, <1>2, <1>5
  <1>7. QED
    BY <1>2, <1>4, <1>6 DEF g

LEMMA DepositedReserve ==
    ASSUME SavInv, Deposited
    PROVE  ReserveInv' /\ Grows
  <1> DEFINE tx == card["deposit"].tx
  <1>1. tx \in CardTxs /\ tx.usdc \in Nat
    BY DEF SavInv, PageInv, Cards, CardTxs
  <1>2. ReserveInv
    BY DEF SavInv
  <1>3. CASE UNCHANGED ledger
    BY <1>2, <1>3, ReserveTypes DEF ledger, ReserveInv, Liquidity, Owed, Grows
  <1>4. CASE CanDeposit(tx) /\ ~UNCHANGED ledger
    <2> DEFINE m == Minted(tx.usdc)
    <2>1. /\ held' = held + m
          /\ reserve' = [reserve EXCEPT !.available = @ + tx.usdc, !.supply = @ + m]
      BY <1>4 DEF Deposited
    <2>2. m \in Nat /\ Owed * (reserve.supply + m) <= (Owed + tx.usdc) * reserve.supply
      <3>1. m = (tx.usdc * reserve.supply) \div Owed
        BY DEF Minted
      <3>2. tx.usdc * reserve.supply \in Nat
        BY <1>1, <1>2, ReserveTypes
      <3>3. m \in Nat
        BY <1>2, <3>1, <3>2, ReserveTypes, Quotient
      <3>4. QED
        BY <1>1, <1>2, <3>1, <3>3, ReserveTypes, DepositGrows
    <2> HIDE DEF m, tx
    <2>3. /\ reserve'.available = reserve.available + tx.usdc
          /\ reserve'.supply = reserve.supply + m
          /\ reserve'.borrowed = reserve.borrowed /\ reserve'.fees = reserve.fees
          /\ reserve' \in Reserves
      <3>1. reserve.available + tx.usdc \in Nat /\ reserve.supply + m \in Nat
        BY <1>1, <1>2, <2>2, ReserveTypes
      <3>2. reserve \in Reserves
        BY <1>2 DEF ReserveInv
      <3>3. QED
        BY <2>1, <3>1, <3>2 DEF Reserves
    <2>4. Liquidity' = Liquidity + tx.usdc /\ Owed' = Owed + tx.usdc
      BY <1>1, <1>2, <2>3, ReserveTypes DEF Liquidity, Owed
    <2>5. Grows
      BY <1>2, <2>2, <2>3, <2>4, ReserveTypes DEF Grows
    <2>6. ReserveInv'
      BY <1>1, <1>2, <2>1, <2>2, <2>3, <2>4, ReserveTypes DEF ReserveInv
    <2>7. QED
      BY <2>5, <2>6
  <1>5. QED
    BY <1>3, <1>4 DEF Deposited

LEMMA WithdrawnReserve ==
    ASSUME SavInv, Withdrawn
    PROVE  ReserveInv' /\ Grows
  <1> DEFINE tx == card["withdraw"].tx
  <1>1. tx \in CardTxs /\ tx.cTokens \in Nat
    BY DEF SavInv, PageInv, Cards, CardTxs
  <1>2. ReserveInv
    BY DEF SavInv
  <1>3. CASE UNCHANGED ledger
    BY <1>2, <1>3, ReserveTypes DEF ledger, ReserveInv, Liquidity, Owed, Grows
  <1>4. CASE CanRedeem(tx) /\ ~UNCHANGED ledger
    <2> DEFINE g == Redeemed(tx.cTokens)
               c == tx.cTokens
    <2>1. /\ held' = held - c
          /\ reserve' = [reserve EXCEPT !.available = @ - g, !.supply = @ - c]
          /\ c <= held /\ g <= reserve.available /\ c \in Nat
      BY <1>1, <1>4 DEF Withdrawn, CanRedeem
    <2>2. /\ g \in Nat /\ g < Owed
          /\ Owed * (reserve.supply - c) <= (Owed - g) * reserve.supply
      <3>1. g = (c * Owed) \div reserve.supply
        BY DEF Redeemed
      <3>2. c < reserve.supply
        BY <1>2, <2>1, ReserveTypes
      <3>3. QED
        BY <1>1, <1>2, <3>1, <3>2, ReserveTypes, RedeemGrows
    <2> HIDE DEF g, c, tx
    <2>3. /\ reserve'.available = reserve.available - g
          /\ reserve'.supply = reserve.supply - c
          /\ reserve'.borrowed = reserve.borrowed /\ reserve'.fees = reserve.fees
          /\ reserve' \in Reserves
      <3>1. reserve.available - g \in Nat /\ reserve.supply - c \in Nat
        BY <1>2, <2>1, <2>2, ReserveTypes
      <3>2. reserve \in Reserves
        BY <1>2 DEF ReserveInv
      <3>3. QED
        BY <2>1, <3>1, <3>2 DEF Reserves
    <2>4. Liquidity' = Liquidity - g /\ Owed' = Owed - g
      BY <1>2, <2>2, <2>3, ReserveTypes DEF Liquidity, Owed
    <2>5. Grows
      BY <1>2, <2>2, <2>3, <2>4, ReserveTypes DEF Grows
    <2>6. held' \in Nat /\ held' + StartSupply <= reserve'.supply
      BY <1>2, <2>1, <2>3, ReserveTypes DEF ReserveInv
    <2>7. reserve'.fees < Liquidity'
      BY <1>2, <2>2, <2>3, <2>4, ReserveTypes
    <2>8. QED
      BY <2>3, <2>5, <2>6, <2>7 DEF ReserveInv
  <1>5. QED
    BY <1>3, <1>4 DEF Withdrawn

LEMMA OthersReserve ==
    ASSUME SavInv, Others
    PROVE  ReserveInv' /\ Grows
  <1>0. reserve \in Reserves
    BY DEF SavInv, ReserveInv
  <1>1. ReserveInv /\ held' = held
    BY DEF SavInv, Others
  <1>2. /\ reserve.available \in Nat /\ reserve.borrowed \in Nat
        /\ reserve.fees \in Nat /\ reserve.supply \in Nat \ {0}
        /\ Owed = (reserve.available + reserve.borrowed) - reserve.fees
        /\ Owed \in Nat \ {0}
        /\ Liquidity = reserve.available + reserve.borrowed
    BY <1>1, ReserveTypes
  <1>3. ASSUME NEW fee \in 0 .. 1,
               reserve' = [reserve EXCEPT !.borrowed = @ + 3, !.fees = @ + fee]
        PROVE  ReserveInv' /\ Grows
    <2>1. /\ reserve'.available = reserve.available /\ reserve'.supply = reserve.supply
          /\ reserve'.borrowed = reserve.borrowed + 3 /\ reserve'.fees = reserve.fees + fee
          /\ reserve' \in Reserves
      <3>1. reserve.borrowed + 3 \in Nat /\ reserve.fees + fee \in Nat
        BY <1>2
      <3>2. QED
        BY <1>0, <1>3, <3>1 DEF Reserves
    <2>2. Liquidity' = Liquidity + 3 /\ Owed' = Owed + (3 - fee)
      BY <1>2, <2>1 DEF Liquidity, Owed
    <2>3. Owed \in Int /\ Owed' \in Int /\ Owed <= Owed' /\ reserve.supply \in Nat
      BY <1>2, <2>2
    <2>4. Owed * reserve.supply <= Owed' * reserve.supply
      BY <2>3, TimesMonotone
    <2>5. Grows
      BY <1>2, <2>1, <2>4 DEF Grows
    <2>6. reserve'.fees < Liquidity'
      BY <1>1, <1>2, <2>1, <2>2 DEF ReserveInv
    <2>7. QED
      BY <1>1, <2>1, <2>5, <2>6 DEF ReserveInv
  <1>4. ASSUME \/ reserve' = [reserve EXCEPT !.borrowed = @ + reserve.available, !.available = 0]
               \/ reserve' = [reserve EXCEPT !.available = @ + reserve.borrowed, !.borrowed = 0]
        PROVE  ReserveInv' /\ Grows
    <2>1. /\ reserve'.available + reserve'.borrowed = reserve.available + reserve.borrowed
          /\ reserve'.supply = reserve.supply /\ reserve'.fees = reserve.fees
          /\ reserve' \in Reserves
      <3>1. /\ reserve.available + reserve.borrowed \in Nat
            /\ reserve.borrowed + reserve.available = reserve.available + reserve.borrowed
            /\ reserve.available \in Nat /\ reserve.borrowed \in Nat /\ 0 \in Nat
        BY <1>2
      <3>2. \/ /\ reserve'.available = 0
               /\ reserve'.borrowed = reserve.borrowed + reserve.available
            \/ /\ reserve'.borrowed = 0
               /\ reserve'.available = reserve.available + reserve.borrowed
        BY <1>0, <1>4 DEF Reserves
      <3>3. /\ reserve'.supply = reserve.supply /\ reserve'.fees = reserve.fees
            /\ reserve' \in Reserves
        BY <1>0, <1>4, <3>1 DEF Reserves
      <3>4. QED
        BY <3>1, <3>2, <3>3
    <2>2. Liquidity' = Liquidity /\ Owed' = Owed
      BY <2>1 DEF Liquidity, Owed
    <2>3. Owed * reserve.supply \in Nat
      BY <1>2
    <2>4. QED
      BY <1>1, <1>2, <2>1, <2>2, <2>3 DEF ReserveInv, Grows
  <1>5. ASSUME NEW n \in Amounts,
               reserve' = [reserve EXCEPT !.available = @ + n, !.supply = @ + Minted(n)]
        PROVE  ReserveInv' /\ Grows
    <2> DEFINE m == Minted(n)
    <2>1. n \in Nat
      BY SavingsAssumption DEF SavingsAssumption
    <2>2. m \in Nat /\ Owed * (reserve.supply + m) <= (Owed + n) * reserve.supply
      <3>1. m = (n * reserve.supply) \div Owed /\ n * reserve.supply \in Nat
        BY <1>2, <2>1 DEF Minted
      <3>2. m \in Nat
        BY <1>2, <3>1, Quotient
      <3>3. QED
        BY <1>2, <2>1, <3>1, <3>2, DepositGrows
    <2>3. reserve' = [reserve EXCEPT !.available = @ + n, !.supply = @ + m]
      BY <1>5
    <2> HIDE DEF m
    <2>4. /\ reserve'.available = reserve.available + n
          /\ reserve'.supply = reserve.supply + m
          /\ reserve'.borrowed = reserve.borrowed /\ reserve'.fees = reserve.fees
          /\ reserve' \in Reserves
      <3>1. reserve.available + n \in Nat /\ reserve.supply + m \in Nat
        BY <1>2, <2>1, <2>2
      <3>2. QED
        BY <1>0, <2>3, <3>1 DEF Reserves
    <2>5. Liquidity' = Liquidity + n /\ Owed' = Owed + n
      BY <1>2, <2>1, <2>4 DEF Liquidity, Owed
    <2>6. Grows
      BY <1>2, <2>2, <2>4, <2>5 DEF Grows
    <2>7. held' + StartSupply <= reserve'.supply
      BY <1>1, <2>2, <2>4, ReserveTypes DEF ReserveInv
    <2>8. QED
      BY <1>1, <1>2, <2>1, <2>4, <2>5, <2>6, <2>7 DEF ReserveInv
  <1>6. QED
    BY <1>3, <1>4, <1>5 DEF Others

\* Everything else leaves the reserve alone.
LEMMA NextReserve ==
    ASSUME SavInv, [SavingsNext]_savingsVars
    PROVE  ReserveInv' /\ Grows
  <1>1. ASSUME UNCHANGED <<reserve, held>> PROVE ReserveInv' /\ Grows
    <2>1. ReserveInv /\ Owed * reserve.supply \in Nat /\ reserve.fees \in Nat
      <3>1. ReserveInv
        BY DEF SavInv
      <3>2. QED
        BY <3>1, ReserveTypes
    <2>2. QED
      BY <1>1, <2>1 DEF ReserveInv, Liquidity, Owed, Grows
  <1>2. ASSUME \/ useReserveData_fetch \/ fetchBal \/ fetchBal_answers \/ fetchBal_fails
               \/ handleDeposit \/ handleWithdraw \/ (\E c \in Cards : SignAndSend(c))
               \/ (\E t \in Tabs : requestUsdc(t) \/ mintTo(t) \/ mintTo_fails(t)
                                   \/ onMinted(t))
               \/ Restart \/ Tick \/ UNCHANGED savingsVars
        PROVE  UNCHANGED <<reserve, held>>
    BY <1>2 DEF useReserveData_fetch, fetchBal, fetchBal_answers, fetchBal_fails,
       handleDeposit, handleWithdraw, SignAndSend, requestUsdc, mintTo, mintTo_fails,
       onMinted, Restart, Tick, savingsVars, ledger
  <1>3. QED
    BY <1>1, <1>2, DepositedReserve, WithdrawnReserve, OthersReserve DEF SavingsNext

-----------------------------------------------------------------------------
(* What the page holds *)

LEMMA MorePolls ==
    ASSUME PageInv, Cardinality(polls) < MaxPolls, NEW a \in Balances,
           polls' = polls \cup {a}
    PROVE  polls' \subseteq Balances /\ IsFiniteSet(polls') /\ Cardinality(polls') <= MaxPolls
  <1>1. IsFiniteSet(polls) /\ polls \subseteq Balances /\ MaxPolls \in Nat
    BY SavingsAssumption DEF SavingsAssumption, PageInv
  <1>2. /\ IsFiniteSet(polls')
        /\ \/ Cardinality(polls') = Cardinality(polls)
           \/ Cardinality(polls') = Cardinality(polls) + 1
    BY <1>1, FS_AddElement
  <1>3. Cardinality(polls) \in Nat
    BY <1>1, FS_CardinalityType
  <1>4. QED
    BY <1>1, <1>2, <1>3

LEMMA FewerPolls ==
    ASSUME PageInv, NEW a \in polls, polls' = polls \ {a}
    PROVE  polls' \subseteq Balances /\ IsFiniteSet(polls') /\ Cardinality(polls') <= MaxPolls
  <1>1. IsFiniteSet(polls) /\ polls \subseteq Balances /\ MaxPolls \in Nat
        /\ Cardinality(polls) <= MaxPolls
    BY SavingsAssumption DEF SavingsAssumption, PageInv
  <1>2. IsFiniteSet(polls') /\ Cardinality(polls') <= Cardinality(polls)
    BY <1>1, FS_Subset
  <1>3. Cardinality(polls) \in Nat /\ Cardinality(polls') \in Nat
    BY <1>1, <1>2, FS_CardinalityType
  <1>4. QED
    BY <1>1, <1>2, <1>3

LEMMA RateType ==
    ASSUME ReserveInv
    PROVE  decodeReserveInfo = <<Liquidity, reserve.supply>> /\ decodeReserveInfo \in Rates
  <1>1. Liquidity \in Nat \ {0} /\ reserve.supply \in Nat \ {0}
    BY ReserveTypes
  <1>2. QED
    BY <1>1 DEF decodeReserveInfo, Rates

LEMMA NoTxType == NoTx \in CardTxs
  BY DEF NoTx, CardTxs, Rates

LEMMA CardTypes ==
    ASSUME PageInv, NEW c \in Cards, NEW at \in {"idle", "built", "sent"}, NEW tx \in CardTxs,
           card' = [card EXCEPT ![c] = [at |-> at, tx |-> tx]]
    PROVE  card' \in [Cards -> [at : {"idle", "built", "sent"}, tx : CardTxs]]
  BY DEF PageInv

LEMMA FetchPage ==
    ASSUME SavInv, useReserveData_fetch \/ fetchBal \/ fetchBal_answers \/ fetchBal_fails
    PROVE  PageInv'
  <1>1. PageInv /\ ReserveInv
    BY DEF SavInv
  <1>2. Answer \in Balances /\ [cTokens |-> 0, rate |-> rate] \in Balances
    BY <1>1 DEF Answer, Balances, PageInv, ReserveInv
  <1>3. CASE useReserveData_fetch
    BY <1>1, <1>3, RateType DEF useReserveData_fetch, PageInv, ledger
  <1>4. CASE fetchBal
    <2>1. polls' \subseteq Balances /\ IsFiniteSet(polls') /\ Cardinality(polls') <= MaxPolls
      BY <1>1, <1>2, <1>4, MorePolls DEF fetchBal
    <2>2. QED
      BY <1>1, <1>4, <2>1 DEF fetchBal, PageInv, ledger
  <1>5. CASE fetchBal_answers
    <2>1. PICK a \in polls : balance' = a /\ polls' = polls \ {a}
      BY <1>5 DEF fetchBal_answers
    <2>2. polls' \subseteq Balances /\ IsFiniteSet(polls') /\ Cardinality(polls') <= MaxPolls
      BY <1>1, <2>1, FewerPolls
    <2>3. balance' \in Balances
      BY <1>1, <2>1 DEF PageInv
    <2>4. QED
      BY <1>1, <1>5, <2>2, <2>3 DEF fetchBal_answers, PageInv, ledger
  <1>6. CASE fetchBal_fails
    <2>1. polls' \subseteq Balances /\ IsFiniteSet(polls') /\ Cardinality(polls') <= MaxPolls
      BY <1>1, <1>6, FewerPolls DEF fetchBal_fails
    <2>2. QED
      BY <1>1, <1>2, <1>6, <2>1 DEF fetchBal_fails, PageInv, ledger
  <1>7. QED
    BY <1>3, <1>4, <1>5, <1>6
       DEF useReserveData_fetch, fetchBal, fetchBal_answers, fetchBal_fails

\* What a withdrawal of n asks for.
LEMMA AskedType ==
    ASSUME PageInv, NEW n \in Nat
    PROVE  [usdc |-> n, cTokens |-> ToCTokens(n), of |-> balance.cTokens, rate |-> rate]
              \in CardTxs
  <1>1. rate[1] \in Nat \ {0} /\ rate[2] \in Nat \ {0} /\ rate \in Rates
        /\ balance.cTokens \in Nat
    BY DEF PageInv, Rates, Balances
  <1>2. n * rate[2] \in Nat
    BY <1>1
  <1>3. ToCTokens(n) \in Nat
    BY <1>1, <1>2, Quotient DEF ToCTokens
  <1>4. QED
    BY <1>1, <1>3 DEF CardTxs

LEMMA CardPage ==
    ASSUME SavInv, handleDeposit \/ handleWithdraw \/ \E c \in Cards : SignAndSend(c)
    PROVE  PageInv'
  <1>1. PageInv
    BY DEF SavInv
  <1>2. UNCHANGED <<ledger, shown>>
    BY DEF handleDeposit, handleWithdraw, SignAndSend
  <1>3. card' \in [Cards -> [at : {"idle", "built", "sent"}, tx : CardTxs]]
    <2>1. CASE handleDeposit
      <3>1. PICK n \in Amounts : Fill("deposit", [NoTx EXCEPT !.usdc = n])
        BY <2>1 DEF handleDeposit
      <3>2. n \in Nat
        BY SavingsAssumption DEF SavingsAssumption
      <3>3. [NoTx EXCEPT !.usdc = n] \in CardTxs
        BY <3>2, NoTxType DEF CardTxs
      <3>4. QED
        BY <1>1, <3>1, <3>3, CardTypes DEF Fill, Cards
    <2>2. CASE handleWithdraw
      <3>1. PICK n \in Amounts :
               Fill("withdraw", [usdc |-> n, cTokens |-> ToCTokens(n),
                                 of |-> balance.cTokens, rate |-> rate])
        BY <2>2 DEF handleWithdraw
      <3>2. n \in Nat
        BY SavingsAssumption DEF SavingsAssumption
      <3>3. QED
        BY <1>1, <3>1, <3>2, AskedType, CardTypes DEF Fill, Cards
    <2>3. ASSUME NEW c \in Cards, SignAndSend(c)
          PROVE  card' \in [Cards -> [at : {"idle", "built", "sent"}, tx : CardTxs]]
      BY <1>1, <2>3, NoTxType, CardTypes DEF SignAndSend, PageInv
    <2>4. QED
      BY <2>1, <2>2, <2>3
  <1>4. QED
    BY <1>1, <1>2, <1>3 DEF PageInv, ledger, shown

LEMMA ConfirmedPage ==
    ASSUME SavInv, Deposited \/ Withdrawn
    PROVE  PageInv'
  <1>1. PageInv /\ ReserveInv /\ ReserveInv'
    BY DepositedReserve, WithdrawnReserve DEF SavInv
  <1>2. PICK c \in Cards : Confirmed(c)
    BY DEF Deposited, Withdrawn, Cards
  <1>3. usdc' \in Nat
    <2>1. \A d \in Cards : card[d].tx.usdc \in Nat /\ card[d].tx.cTokens \in Nat
      BY <1>1 DEF PageInv, CardTxs
    <2>2. \A n \in Nat : Redeemed(n) \in Nat
      <3> SUFFICES ASSUME NEW n \in Nat PROVE Redeemed(n) \in Nat
        OBVIOUS
      <3>1. n * Owed \in Nat /\ reserve.supply \in Nat \ {0}
        BY <1>1, ReserveTypes
      <3>2. QED
        BY <3>1, Quotient DEF Redeemed
    <2>3. usdc \in Nat
      BY <1>1 DEF PageInv
    <2>4. QED
      BY <2>1, <2>2, <2>3 DEF Deposited, Withdrawn, CanDeposit, ledger, Cards
  <1>4. shownUsdc' \in Nat
    BY <1>2, <1>3 DEF Confirmed, refreshUsdcBalance
  <1>5. [cTokens |-> held', rate |-> rate] \in Balances
    BY <1>1 DEF Balances, PageInv, ReserveInv
  <1>6. polls' \subseteq Balances /\ IsFiniteSet(polls') /\ Cardinality(polls') <= MaxPolls
    <2>1. CASE Cardinality(polls) < MaxPolls
      BY <1>1, <1>2, <1>5, <2>1, MorePolls DEF Confirmed
    <2>2. CASE ~(Cardinality(polls) < MaxPolls)
      BY <1>1, <1>2, <2>2 DEF Confirmed, PageInv
    <2>3. QED
      BY <2>1, <2>2
  <1>7. card' \in [Cards -> [at : {"idle", "built", "sent"}, tx : CardTxs]]
    BY <1>1, <1>2, NoTxType, CardTypes DEF Confirmed
  <1>8. rate' = rate /\ balance' = balance
    BY <1>2 DEF Confirmed
  <1>9. QED
    BY <1>1, <1>3, <1>4, <1>6, <1>7, <1>8 DEF PageInv

LEMMA FaucetPage ==
    ASSUME SavInv, NEW t \in Tabs, requestUsdc(t) \/ mintTo(t) \/ mintTo_fails(t) \/ onMinted(t)
    PROVE  PageInv'
  <1>1. PageInv
    BY DEF SavInv
  <1>2. usdc' \in Nat /\ shownUsdc' \in Nat
    BY <1>1, SavingsAssumption DEF SavingsAssumption, PageInv, requestUsdc, mintTo,
       mintTo_fails, onMinted, refreshUsdcBalance, ledger, shown
  <1>3. UNCHANGED <<rate, balance, polls, card>>
    BY DEF requestUsdc, mintTo, mintTo_fails, onMinted, shown
  <1>4. QED
    BY <1>1, <1>2, <1>3 DEF PageInv

LEMMA NextPage ==
    ASSUME SavInv, [SavingsNext]_savingsVars
    PROVE  PageInv'
  <1>1. ASSUME Restart \/ Tick \/ Others \/ UNCHANGED savingsVars
        PROVE  PageInv'
    BY <1>1 DEF SavInv, PageInv, Restart, Tick, Others, savingsVars, ledger, shown
  <1>2. QED
    BY <1>1, FetchPage, CardPage, ConfirmedPage, FaucetPage DEF SavingsNext

-----------------------------------------------------------------------------
(* Rates in order *)

\* A balance the page may come to show is an old one, or has the page's rate.
LEMMA OldOrCurrent ==
    ASSUME SavInv, [SavingsNext]_savingsVars, ~useReserveData_fetch
    PROVE  /\ rate' = rate
           /\ \A b \in {balance'} \cup polls' : b \in {balance} \cup polls \/ b.rate = rate
  <1>1. CASE fetchBal \/ fetchBal_answers \/ fetchBal_fails
    BY <1>1 DEF fetchBal, fetchBal_answers, fetchBal_fails, Answer
  <1>2. CASE Deposited \/ Withdrawn
    BY <1>2 DEF Deposited, Withdrawn, Confirmed
  <1>3. CASE \/ handleDeposit \/ handleWithdraw \/ (\E c \in Cards : SignAndSend(c))
             \/ (\E t \in Tabs : requestUsdc(t) \/ mintTo(t) \/ mintTo_fails(t) \/ onMinted(t))
             \/ Restart \/ Tick \/ Others \/ UNCHANGED savingsVars
    <2>1. UNCHANGED <<rate, balance, polls>>
      BY <1>3 DEF handleDeposit, handleWithdraw, SignAndSend, requestUsdc, mintTo,
         mintTo_fails, onMinted, Restart, Tick, Others, savingsVars, shown
    <2>2. QED
      BY <2>1
  <1>4. QED
    BY <1>1, <1>2, <1>3 DEF SavingsNext

LEMMA NextRates ==
    ASSUME SavInv, [SavingsNext]_savingsVars
    PROVE  RateInv'
  <1>1. ReserveInv /\ PageInv /\ RateInv /\ ReserveInv' /\ Grows
    BY NextReserve DEF SavInv
  <1>2. reserve'.fees = 0 => reserve.fees = 0
    <2>1. reserve.fees \in Nat /\ reserve.fees <= reserve'.fees
      BY <1>1, ReserveTypes DEF Grows
    <2>2. QED
      BY <2>1
  <1>3. rate \in Rates /\ rate[1] \in Nat /\ rate[2] \in Nat \ {0}
    BY <1>1 DEF PageInv, Rates
  <1>4. CASE useReserveData_fetch
    <2>1. /\ rate' = <<Liquidity, reserve.supply>>
          /\ UNCHANGED <<reserve, balance, polls>>
      BY <1>1, <1>4, RateType DEF useReserveData_fetch, ledger
    <2>2. /\ Liquidity \in Nat \ {0} /\ reserve.supply \in Nat \ {0}
          /\ reserve.fees \in Nat /\ Owed = Liquidity - reserve.fees
      BY <1>1, ReserveTypes
    <2>3. Behind(rate)'
      <3>1. Behind(<<Liquidity, reserve.supply>>)
        BY <2>2 DEF Behind
      <3>2. reserve' = reserve /\ Owed' = Owed
        BY <2>1 DEF Owed, Liquidity
      <3>3. QED
        BY <2>1, <3>1, <3>2 DEF Behind
    <2>4. ASSUME reserve.fees = 0, NEW b \in Balances, NotAbove(b.rate, rate)
          PROVE  NotAbove(b.rate, <<Liquidity, reserve.supply>>)
      <3>1. b.rate[1] \in Nat /\ b.rate[2] \in Nat
        BY DEF Balances, Rates
      <3>2. b.rate[1] * rate[2] <= rate[1] * b.rate[2]
        BY <2>4 DEF NotAbove
      <3>3. rate[1] * reserve.supply <= Liquidity * rate[2]
        BY <1>1, <1>3, <2>2, <2>4 DEF RateInv, Behind
      <3>4. b.rate[1] * reserve.supply <= Liquidity * b.rate[2]
        BY <1>3, <2>2, <3>1, <3>2, <3>3, FractionsTransitive
      <3>5. QED
        BY <3>4 DEF NotAbove
    <2>5. QED
      BY <1>1, <1>2, <2>1, <2>3, <2>4 DEF RateInv, PageInv, NotAbove
  <1>5. CASE ~useReserveData_fetch
    <2>1. /\ rate' = rate
          /\ \A b \in {balance'} \cup polls' : b \in {balance} \cup polls \/ b.rate = rate
      BY <1>5, OldOrCurrent
    <2>2. Behind(rate)'
      <3>1. Behind(rate)
        BY <1>1 DEF RateInv
      <3> DEFINE r == rate
      <3>2. r \in Rates /\ Behind(r) /\ rate' = r
        BY <1>3, <2>1, <3>1
      <3> HIDE DEF r
      <3>3. (r[1] - reserve'.fees) * reserve'.supply <= Owed' * r[2]
        BY <1>1, <1>3, <3>1, BehindStays DEF Behind, r
      <3>4. QED
        BY <3>2, <3>3 DEF Behind
    <2>3. NotAbove(rate, rate)
      BY <1>3 DEF NotAbove
    <2>4. ASSUME reserve'.fees = 0, NEW b \in {balance'} \cup polls'
          PROVE  NotAbove(b.rate, rate)
      BY <1>1, <1>2, <2>1, <2>3, <2>4 DEF RateInv
    <2>5. QED
      BY <2>1, <2>2, <2>4 DEF RateInv, NotAbove
  <1>6. QED
    BY <1>4, <1>5

-----------------------------------------------------------------------------
(* What a withdrawal asks for *)

\* A rate that is behind is so after the step, written with the reserve's
\* next state.
LEMMA StillBehind ==
    ASSUME SavInv, [SavingsNext]_savingsVars, NEW r \in Rates, Behind(r)
    PROVE  (r[1] - reserve'.fees) * reserve'.supply <= Owed' * r[2]
  <1>1. ReserveInv /\ ReserveInv' /\ Grows
    BY NextReserve DEF SavInv
  <1>2. QED
    BY <1>1, BehindStays DEF Behind

\* The amount typed is within the balance shown, at the rate it was valued
\* with; so it is worth no more cTokens than the balance has, at a rate that
\* is no lower.
LEMMA AsksAtMostShown ==
    ASSUME SavInv, reserve.fees = 0, NEW n \in Nat, WithinMax(n)
    PROVE  ToCTokens(n) <= balance.cTokens
  <1> DEFINE b == balance.rate
             c == balance.cTokens
             q == ToCTokens(n)
  <1>1. /\ b[1] \in Nat /\ b[2] \in Nat \ {0} /\ c \in Nat
        /\ rate[1] \in Nat \ {0} /\ rate[2] \in Nat
    BY DEF SavInv, PageInv, Balances, Rates
  <1>2. n * b[2] <= c * b[1]
    BY DEF WithinMax
  <1>3. b[1] * rate[2] <= rate[1] * b[2]
    BY DEF SavInv, RateInv, NotAbove
  <1>4. n * rate[2] \in Nat
    BY <1>1
  <1>5. q \in Nat /\ q * rate[1] <= n * rate[2]
    BY <1>1, <1>4, Quotient DEF ToCTokens
  <1> HIDE DEF b, c, q
  <1>6. (n * b[2]) * rate[2] <= (c * b[1]) * rate[2]
    BY <1>1, <1>2, TimesMonotone
  <1>7. (b[1] * rate[2]) * c <= (rate[1] * b[2]) * c
    BY <1>1, <1>3, TimesMonotone
  <1>8. /\ (n * b[2]) * rate[2] = (n * rate[2]) * b[2]
        /\ (c * b[1]) * rate[2] = (b[1] * rate[2]) * c
        /\ (rate[1] * b[2]) * c = (c * rate[1]) * b[2]
    BY <1>1
  <1>9. (n * rate[2]) * b[2] <= (c * rate[1]) * b[2]
    BY <1>1, <1>6, <1>7, <1>8
  <1>10. c * rate[1] \in Nat
    BY <1>1
  <1>11. n * rate[2] <= c * rate[1]
    BY <1>1, <1>4, <1>9, <1>10, TimesCancels
  <1>12. q * rate[1] <= c * rate[1]
    BY <1>1, <1>4, <1>5, <1>10, <1>11
  <1>13. q <= c
    BY <1>1, <1>5, <1>12, TimesCancels
  <1>14. QED
    BY <1>13 DEF q, c

\* The card's withdrawal afterwards: the one before, or none, or a new one.
LEMMA CardAfter ==
    ASSUME SavInv, [SavingsNext]_savingsVars, card'["withdraw"].at # "idle"
    PROVE  \/ /\ card["withdraw"].at # "idle"
              /\ card'["withdraw"].tx = card["withdraw"].tx
           \/ /\ UNCHANGED ledger
              /\ \E n \in Amounts :
                    /\ WithinMax(n)
                    /\ card'["withdraw"].tx =
                          [usdc |-> n, cTokens |-> ToCTokens(n),
                           of |-> balance.cTokens, rate |-> rate]
  <1>1. card \in [Cards -> [at : {"idle", "built", "sent"}, tx : CardTxs]]
    BY DEF SavInv, PageInv
  <1>2. CASE handleWithdraw
    BY <1>1, <1>2 DEF handleWithdraw, Fill, Cards
  <1>3. CASE handleDeposit
    BY <1>1, <1>3 DEF handleDeposit, Fill, Cards
  <1>4. ASSUME NEW c \in Cards, SignAndSend(c)
        PROVE  card["withdraw"].at # "idle" /\ card'["withdraw"].tx = card["withdraw"].tx
    <2>1. CASE c = "withdraw"
      BY <1>1, <1>4, <2>1 DEF SignAndSend, Cards
    <2>2. CASE c = "deposit"
      BY <1>1, <1>4, <2>2 DEF SignAndSend, Cards
    <2>3. QED
      BY <2>1, <2>2 DEF Cards
  <1>5. CASE Deposited \/ Withdrawn
    BY <1>1, <1>5 DEF Deposited, Withdrawn, Confirmed, Cards
  <1>6. CASE \/ useReserveData_fetch \/ fetchBal \/ fetchBal_answers \/ fetchBal_fails
             \/ (\E t \in Tabs : requestUsdc(t) \/ mintTo(t) \/ mintTo_fails(t) \/ onMinted(t))
             \/ Restart \/ Tick \/ Others \/ UNCHANGED savingsVars
    <2>1. card' = card
      BY <1>6 DEF useReserveData_fetch, fetchBal, fetchBal_answers, fetchBal_fails,
         requestUsdc, mintTo, mintTo_fails, onMinted, Restart, Tick, Others, savingsVars
    <2>2. QED
      BY <2>1
  <1>7. QED
    BY <1>2, <1>3, <1>4, <1>5, <1>6 DEF SavingsNext

LEMMA NextFilled ==
    ASSUME SavInv, [SavingsNext]_savingsVars
    PROVE  Filled(card["withdraw"])'
  <1> SUFFICES ASSUME card'["withdraw"].at # "idle"
               PROVE  LET tx == card'["withdraw"].tx IN
                      /\ (tx.rate[1] - reserve'.fees) * reserve'.supply <= Owed' * tx.rate[2]
                      /\ tx.cTokens = (tx.usdc * tx.rate[2]) \div tx.rate[1]
                      /\ reserve'.fees = 0 => tx.cTokens <= tx.of
    BY DEF Filled, Behind
  <1>1. reserve'.fees = 0 => reserve.fees = 0
    <2>1. ReserveInv /\ Grows
      BY NextReserve DEF SavInv
    <2>2. reserve.fees \in Nat /\ reserve.fees <= reserve'.fees
      BY <2>1, ReserveTypes DEF Grows
    <2>3. QED
      BY <2>2
  <1>2. CASE card["withdraw"].at # "idle" /\ card'["withdraw"].tx = card["withdraw"].tx
    <2> DEFINE tx == card["withdraw"].tx
    <2>1. tx.rate \in Rates
      BY DEF SavInv, PageInv, Cards, CardTxs
    <2>2. /\ Behind(tx.rate)
          /\ tx.cTokens = (tx.usdc * tx.rate[2]) \div tx.rate[1]
          /\ reserve.fees = 0 => tx.cTokens <= tx.of
      BY <1>2 DEF SavInv, Filled
    <2>3. (tx.rate[1] - reserve'.fees) * reserve'.supply <= Owed' * tx.rate[2]
      BY <2>1, <2>2, StillBehind
    <2>4. QED
      BY <1>1, <1>2, <2>2, <2>3
  <1>3. ASSUME NEW n \in Amounts, WithinMax(n),
               card'["withdraw"].tx = [usdc |-> n, cTokens |-> ToCTokens(n),
                                       of |-> balance.cTokens, rate |-> rate]
        PROVE  LET tx == card'["withdraw"].tx IN
               /\ (tx.rate[1] - reserve'.fees) * reserve'.supply <= Owed' * tx.rate[2]
               /\ tx.cTokens = (tx.usdc * tx.rate[2]) \div tx.rate[1]
               /\ reserve'.fees = 0 => tx.cTokens <= tx.of
    <2>1. n \in Nat
      BY SavingsAssumption DEF SavingsAssumption
    <2>2. rate \in Rates /\ Behind(rate)
      BY DEF SavInv, PageInv, RateInv
    <2>3. (rate[1] - reserve'.fees) * reserve'.supply <= Owed' * rate[2]
      BY <2>2, StillBehind
    <2>4. reserve'.fees = 0 => ToCTokens(n) <= balance.cTokens
      BY <1>1, <1>3, <2>1, AsksAtMostShown
    <2>5. QED
      BY <1>3, <2>3, <2>4 DEF ToCTokens
  <1>4. QED
    BY <1>2, <1>3, CardAfter

-----------------------------------------------------------------------------
(* The faucet *)

LEMMA GrantedLater ==
    ASSUME FaucetInv, cooldowns = Never \/ clock - cooldowns >= Cooldown
    PROVE  /\ Append(grants, clock) \in Seq(Nat)
           /\ Len(Append(grants, clock)) > 0
           /\ Append(grants, clock)[Len(Append(grants, clock))] = clock
           /\ \A i, j \in DOMAIN Append(grants, clock) :
                 i < j => Append(grants, clock)[j] - Append(grants, clock)[i] >= Cooldown
  <1> DEFINE g == Append(grants, clock)
             k == Len(grants)
  <1>1. /\ grants \in Seq(Nat) /\ clock \in Nat /\ k \in Nat
        /\ cooldowns \in Nat \cup {Never} /\ Cooldown \in Nat /\ cooldowns <= clock
        /\ \A i \in 1 .. k : grants[i] \in Nat
    BY LenProperties, SavingsAssumption DEF SavingsAssumption, FaucetInv
  <1>2. /\ g \in Seq(Nat) /\ Len(g) = k + 1 /\ DOMAIN g = 1 .. (k + 1)
        /\ g[k + 1] = clock /\ \A i \in 1 .. k : g[i] = grants[i]
        /\ DOMAIN grants = 1 .. k
    BY <1>1
  <1>3. \A i, j \in 1 .. k : i < j => grants[j] - grants[i] >= Cooldown
    BY <1>2 DEF FaucetInv, GrantsAreSpaced
  <1>4. k > 0 => grants[k] = cooldowns
    BY DEF FaucetInv
  <1> HIDE DEF g, k
  <1>5. ASSUME NEW i \in 1 .. k PROVE clock - grants[i] >= Cooldown
    <2>1. k > 0 /\ grants[k] = cooldowns /\ k \in 1 .. k /\ grants[k] \in Nat
      BY <1>1, <1>4
    <2>2. clock - grants[k] >= Cooldown
      BY <1>1, <2>1 DEF Never
    <2>3. i = k \/ grants[k] - grants[i] >= Cooldown
      BY <1>1, <1>3, <2>1
    <2>4. QED
      BY <1>1, <2>1, <2>2, <2>3
  <1>6. \A i, j \in 1 .. (k + 1) : i < j => g[j] - g[i] >= Cooldown
    <2> SUFFICES ASSUME NEW i \in 1 .. (k + 1), NEW j \in 1 .. (k + 1), i < j
                 PROVE  g[j] - g[i] >= Cooldown
      OBVIOUS
    <2>1. i \in 1 .. k /\ (j = k + 1 \/ j \in 1 .. k)
      BY <1>1
    <2>2. QED
      BY <1>2, <1>3, <1>5, <2>1
  <1>7. g \in Seq(Nat) /\ Len(g) > 0 /\ g[Len(g)] = clock
    BY <1>1, <1>2
  <1>8. QED
    BY <1>2, <1>6, <1>7 DEF g

LEMMA NextFaucet ==
    ASSUME SavInv, [SavingsNext]_savingsVars
    PROVE  FaucetInv'
  <1>1. /\ FaucetInv /\ MaxTicks \in Nat
        /\ clock \in Nat /\ cooldowns \in Nat \cup {Never}
    BY SavingsAssumption DEF SavingsAssumption, SavInv, FaucetInv
  <1>2. ASSUME UNCHANGED <<cooldowns, grants, clock>>,
               faucet' \in [Tabs -> {"idle", "minting", "success"}]
        PROVE  FaucetInv'
    BY <1>1, <1>2 DEF FaucetInv, GrantsAreSpaced
  <1>3. ASSUME NEW t \in Tabs, requestUsdc(t), ~UNCHANGED server
        PROVE  FaucetInv'
    <2>1. /\ cooldowns = Never \/ ~(clock - cooldowns < Cooldown)
          /\ faucet' = [faucet EXCEPT ![t] = "minting"]
          /\ cooldowns' = clock /\ grants' = Append(grants, clock) /\ clock' = clock
      BY <1>3 DEF requestUsdc, faucet_server
    <2>2. cooldowns = Never \/ clock - cooldowns >= Cooldown
      BY <1>1, <2>1, SavingsAssumption DEF SavingsAssumption
    <2>3. /\ grants' \in Seq(Nat) /\ (Len(grants') > 0 => grants'[Len(grants')] = clock)
          /\ GrantsAreSpaced'
      BY <1>1, <2>1, <2>2, GrantedLater DEF GrantsAreSpaced
    <2>4. /\ faucet' \in [Tabs -> {"idle", "minting", "success"}]
          /\ clock' \in 0 .. MaxTicks /\ cooldowns' \in {Never} \cup 0 .. MaxTicks
          /\ cooldowns' <= clock'
      BY <1>1, <2>1 DEF FaucetInv
    <2>5. QED
      BY <2>1, <2>3, <2>4 DEF FaucetInv
  <1>4. ASSUME NEW t \in Tabs, \/ requestUsdc(t) /\ UNCHANGED server
                               \/ mintTo(t) \/ mintTo_fails(t) \/ onMinted(t)
        PROVE  FaucetInv'
    <2>1. /\ UNCHANGED <<cooldowns, grants, clock>>
          /\ faucet' \in [Tabs -> {"idle", "minting", "success"}]
      BY <1>1, <1>4 DEF requestUsdc, mintTo, mintTo_fails, onMinted, server, FaucetInv
    <2>2. QED
      BY <1>2, <2>1
  <1>5. CASE Restart
    <2>1. /\ grants' = <<>> /\ cooldowns' = Never /\ clock' = clock
          /\ faucet' \in [Tabs -> {"idle", "minting", "success"}]
      BY <1>1, <1>5 DEF Restart, FaucetInv
    <2>2. grants' \in Seq(Nat) /\ Len(grants') = 0 /\ GrantsAreSpaced'
      BY <2>1 DEF GrantsAreSpaced
    <2>3. Never <= clock
      BY <1>1 DEF Never
    <2>4. QED
      BY <1>1, <2>1, <2>2, <2>3 DEF FaucetInv
  <1>6. CASE Tick
    <2>1. UNCHANGED <<faucet, cooldowns, grants>> /\ clock < MaxTicks /\ clock' = clock + 1
      BY <1>6 DEF Tick, server
    <2>2. clock' \in 0 .. MaxTicks /\ cooldowns <= clock'
      BY <1>1, <2>1 DEF FaucetInv, Never
    <2>3. QED
      BY <1>1, <2>1, <2>2 DEF FaucetInv, GrantsAreSpaced
  <1>7. CASE \/ useReserveData_fetch \/ fetchBal \/ fetchBal_answers \/ fetchBal_fails
             \/ handleDeposit \/ handleWithdraw \/ Deposited \/ Withdrawn
             \/ (\E c \in Cards : SignAndSend(c))
             \/ Others \/ UNCHANGED savingsVars
    <2>1. UNCHANGED <<faucet, cooldowns, grants, clock>>
      BY <1>7 DEF useReserveData_fetch, fetchBal, fetchBal_answers, fetchBal_fails,
         handleDeposit, handleWithdraw, Deposited, Withdrawn, Confirmed, SignAndSend,
         Others, savingsVars, server
    <2>2. QED
      BY <1>1, <1>2, <2>1 DEF FaucetInv
  <1>8. QED
    BY <1>3, <1>4, <1>5, <1>6, <1>7 DEF SavingsNext

-----------------------------------------------------------------------------
(* The theorems *)

LEMMA InitSavInv == SavingsInit => SavInv
  <1> SUFFICES ASSUME SavingsInit PROVE SavInv
    OBVIOUS
  <1>1. /\ StartUsdc \in Nat /\ StartAvailable \in Nat /\ StartBorrowed \in Nat
        /\ StartSupply \in Nat /\ 0 < StartSupply /\ MaxTicks \in Nat
        /\ StartSupply <= StartAvailable + StartBorrowed /\ MaxPolls \in Nat
    BY SavingsAssumption DEF SavingsAssumption
  <1>2. /\ reserve.available = StartAvailable /\ reserve.borrowed = StartBorrowed
        /\ reserve.fees = 0 /\ reserve.supply = StartSupply
        /\ reserve \in Reserves
    BY <1>1 DEF SavingsInit, Reserves
  <1>3. held = 0 /\ rate = <<1, 1>> /\ rate[1] = 1 /\ rate[2] = 1 /\ rate \in Rates
    BY DEF SavingsInit, Rates
  <1>4. ReserveInv
    BY <1>1, <1>2, <1>3 DEF ReserveInv, Liquidity
  <1>5. PageInv
    <2>1. IsFiniteSet(polls) /\ Cardinality(polls) <= MaxPolls
      BY <1>1, FS_EmptySet DEF SavingsInit
    <2>2. card \in [Cards -> [at : {"idle", "built", "sent"}, tx : CardTxs]]
      BY NoTxType DEF SavingsInit
    <2>3. balance \in Balances
      BY DEF SavingsInit, Balances, Rates
    <2>4. QED
      BY <1>1, <1>3, <2>1, <2>2, <2>3 DEF SavingsInit, PageInv
  <1>6. RateInv
    <2>1. Behind(rate)
      BY <1>1, <1>2, <1>3 DEF Behind, Owed, Liquidity
    <2>2. NotAbove(balance.rate, rate)
      BY DEF SavingsInit, NotAbove
    <2>3. QED
      BY <2>1, <2>2 DEF SavingsInit, RateInv
  <1>7. Filled(card["withdraw"])
    BY DEF SavingsInit, Filled, Cards
  <1>8. FaucetInv
    <2>1. grants = <<>> /\ grants \in Seq(Nat) /\ Len(grants) = 0 /\ GrantsAreSpaced
      BY DEF SavingsInit, GrantsAreSpaced
    <2>2. QED
      BY <1>1, <2>1 DEF SavingsInit, FaucetInv, Never
  <1>9. QED
    BY <1>4, <1>5, <1>6, <1>7, <1>8 DEF SavInv

LEMMA NextSavInv == SavInv /\ [SavingsNext]_savingsVars => SavInv'
  BY NextReserve, NextPage, NextRates, NextFilled, NextFaucet DEF SavInv

LEMMA SavInvCorrect == SavingsSpec => []SavInv
  BY InitSavInv, NextSavInv, PTL DEF SavingsSpec

LEMMA SavInvType == SavInv => SavingsTypeOK
  <1> SUFFICES ASSUME SavInv PROVE SavingsTypeOK
    OBVIOUS
  <1>1. \A f \in {"available", "borrowed", "fees", "supply"} : reserve[f] \in Nat
    BY DEF SavInv, ReserveInv, Reserves
  <1>2. held \in 0 .. reserve.supply
    <2>1. ReserveInv
      BY DEF SavInv
    <2>2. held \in Nat /\ held < reserve.supply /\ reserve.supply \in Nat
      BY <2>1, ReserveTypes
    <2>3. QED
      BY <2>2
  <1>3. rate \in Seq(Nat \ {0}) /\ Len(rate) = 2
    <2>1. rate \in Rates
      BY DEF SavInv, PageInv
    <2>2. PICK a \in Nat \ {0}, b \in Nat \ {0} : rate = <<a, b>>
      BY <2>1 DEF Rates
    <2>3. QED
      BY <2>2
  <1>4. balance.cTokens \in Nat /\ Cardinality(polls) <= MaxPolls
    BY DEF SavInv, PageInv, Balances
  <1>5. \A c \in Cards : card[c].at \in {"idle", "built", "sent"}
    BY DEF SavInv, PageInv
  <1>6. QED
    BY <1>1, <1>2, <1>3, <1>4, <1>5 DEF SavInv, PageInv, FaucetInv, SavingsTypeOK

\* While the reserve has no fees, WithdrawCard asks for no more cTokens than
\* the page showed, in whatever order its polls were answered: the rate it
\* divides by is never below the one the balance was valued with.
THEOREM RedeemsAtMostShownCorrect == SavingsSpec => []RedeemsAtMostShown
  <1>1. SavInv => RedeemsAtMostShown
    BY SavInvType DEF SavInv, Filled, RedeemsAtMostShown
  <1>2. QED
    BY <1>1, SavInvCorrect, PTL

\* The server grants a wallet one request per cooldown.
THEOREM GrantsAreSpacedCorrect == SavingsSpec => []GrantsAreSpaced
  <1>1. SavInv => GrantsAreSpaced
    BY DEF SavInv, FaucetInv
  <1>2. QED
    BY <1>1, SavInvCorrect, PTL

\* Redeeming c cTokens asked for at the rate L/T, which less fees F is behind
\* the reserve's O/S, pays n but for the rounding and the share F/L.
LEMMA RedemptionPays ==
    ASSUME NEW O \in Nat, NEW S \in Nat \ {0}, NEW F \in Nat,
           NEW L \in Nat \ {0}, NEW T \in Nat \ {0}, NEW n \in Nat, NEW c \in Nat,
           (L - F) * S <= O * T, c = (n * T) \div L, 0 < c
    PROVE  (((c * O) \div S) + 1) * L * T >= (n * T - L) * (L - F)
  <1> DEFINE g == (c * O) \div S
             D == L - F
             E == n * T - L
  <1>1. n * T \in Nat /\ c * O \in Nat
    OBVIOUS
  <1>2. c * L <= n * T /\ n * T < (c + 1) * L
    BY <1>1, Quotient
  <1>3. g \in Nat /\ c * O < (g + 1) * S
    BY <1>1, Quotient
  <1>4. D \in Int /\ E \in Int /\ D * S <= O * T
    BY <1>1
  <1>5. E <= c * L /\ 0 <= E /\ c * L \in Nat
    <2>1. (c + 1) * L = c * L + L /\ c * L \in Nat
      OBVIOUS
    <2>2. 1 * L <= c * L
      BY TimesMonotone
    <2>3. QED
      BY <1>1, <1>2, <2>1, <2>2
  <1> HIDE DEF g, D, E
  <1>6. (g + 1) * L * T = ((g + 1) * T) * L /\ ((g + 1) * T) * L \in Nat
        /\ (g + 1) * T \in Nat
    BY <1>3
  <1>7. CASE D <= 0
    <2>1. D * E <= 0 * E
      BY <1>4, <1>5, <1>7, TimesMonotone
    <2>2. E * D = D * E /\ 0 * E = 0 /\ E * D \in Int
      BY <1>4
    <2>3. E * D <= (g + 1) * L * T
      BY <1>6, <2>1, <2>2
    <2>4. QED
      BY <1>6, <2>2, <2>3 DEF g, D, E
  <1>8. CASE D > 0
    <2>1. D \in Nat
      BY <1>4, <1>8
    <2>2. (D * S) * c <= (O * T) * c
      BY <1>4, TimesMonotone
    <2>3. (c * O) * T <= ((g + 1) * S) * T
      BY <1>1, <1>3, TimesMonotone
    <2>4. /\ (D * S) * c = (c * D) * S /\ (O * T) * c = (c * O) * T
          /\ ((g + 1) * S) * T = ((g + 1) * T) * S
      BY <1>3, <2>1
    <2>5. (c * D) * S <= ((g + 1) * T) * S /\ c * D \in Int
      BY <1>1, <1>3, <2>1, <2>2, <2>3, <2>4
    <2>6. c * D <= (g + 1) * T
      BY <1>6, <2>5, TimesCancels
    <2>7. (c * D) * L <= ((g + 1) * T) * L
      BY <1>6, <2>5, <2>6, TimesMonotone
    <2>8. E * D <= (c * L) * D
      BY <1>4, <1>5, <2>1, TimesMonotone
    <2>9. (c * L) * D = (c * D) * L
      BY <2>1
    <2>10. E * D \in Int /\ (c * L) * D \in Int
      BY <1>4, <1>5, <2>1
    <2>11. E * D <= (g + 1) * L * T
      BY <1>6, <2>7, <2>8, <2>9, <2>10
    <2>12. QED
      BY <1>6, <2>10, <2>11 DEF g, D, E
  <1>9. QED
    BY <1>4, <1>7, <1>8

\* However stale the rate the page divided by, a redemption pays what was
\* typed, but for the rounding and the fees the shown rate counts in.
THEOREM PaysWhatWasAskedCorrect == SavingsSpec => PaysWhatWasAsked
  <1>1. ASSUME SavInv, Withdrawn, CanRedeem(card["withdraw"].tx)
        PROVE  LET tx == card["withdraw"].tx IN
               (usdc' - usdc + 1) * tx.rate[1] * tx.rate[2] >=
                  (tx.usdc * tx.rate[2] - tx.rate[1]) * (tx.rate[1] - reserve.fees)
    <2> DEFINE tx == card["withdraw"].tx
               g == (tx.cTokens * Owed) \div reserve.supply
    <2>1. /\ tx.rate[1] \in Nat \ {0} /\ tx.rate[2] \in Nat \ {0}
          /\ tx.usdc \in Nat /\ tx.cTokens \in Nat /\ usdc \in Nat
      BY <1>1 DEF SavInv, PageInv, Cards, CardTxs, Rates
    <2>2. ReserveInv
      BY <1>1 DEF SavInv
    <2>3. Owed \in Nat /\ reserve.supply \in Nat \ {0} /\ reserve.fees \in Nat
      BY <2>2, ReserveTypes
    <2>4. card["withdraw"].at # "idle" /\ 0 < tx.cTokens /\ usdc' = usdc + g
      BY <1>1 DEF Withdrawn, CanRedeem, Redeemed
    <2>5. /\ (tx.rate[1] - reserve.fees) * reserve.supply <= Owed * tx.rate[2]
          /\ tx.cTokens = (tx.usdc * tx.rate[2]) \div tx.rate[1]
      BY <1>1, <2>4 DEF SavInv, Filled, Behind
    <2>6. g \in Nat
      <3>1. tx.cTokens * Owed \in Nat
        BY <2>1, <2>3
      <3>2. QED
        BY <2>3, <3>1, Quotient
    <2>7. (g + 1) * tx.rate[1] * tx.rate[2] >=
             (tx.usdc * tx.rate[2] - tx.rate[1]) * (tx.rate[1] - reserve.fees)
      BY <2>1, <2>3, <2>4, <2>5, RedemptionPays
    <2> HIDE DEF g
    <2>8. usdc' - usdc + 1 = g + 1
      BY <2>1, <2>4, <2>6
    <2>9. QED
      BY <2>7, <2>8
  <1>2. SavInv /\ [SavingsNext]_savingsVars =>
        [Withdrawn /\ CanRedeem(card["withdraw"].tx) =>
            LET tx == card["withdraw"].tx IN
            (usdc' - usdc + 1) * tx.rate[1] * tx.rate[2] >=
               (tx.usdc * tx.rate[2] - tx.rate[1]) * (tx.rate[1] - reserve.fees)]_savingsVars
    BY <1>1
  <1>3. QED
    BY <1>2, SavInvCorrect, PTL DEF SavingsSpec, PaysWhatWasAsked
=============================================================================
