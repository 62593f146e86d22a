------------------------ MODULE MarketScriptsProofs ------------------------
(***************************************************************************)
(* Theorems about the scripts that create markets and reserves and about   *)
(* the console's panel: for any number of addresses, runs and faults.      *)
(***************************************************************************)
EXTENDS MarketScripts, SequenceTheorems, FiniteSetTheorems, WellFoundedInduction, TLAPS

-----------------------------------------------------------------------------
(* The invariant *)

Dos == Creating \cup Looks \cup
       {"write_oracle", "update", "refresh", "initialize_pool", "register",
        "add_participant", "mint_wrapped", "list_locally", "mint_locally"}

Txs == [do : Dos, at : Known, in : Known, field : FieldSet \cup {"", "wrapped"}, value : Known]

IsUpdate(tx, r, x) == tx.do = "update" /\ tx.at = r /\ tx.field = x

GoodTxs == {tx \in Txs : /\ tx.do \in Creating => tx.at \in Addresses
                         /\ tx.do = "update" => tx.at \in Addresses /\ tx.field \in FieldSet}

Steps == [tx : GoodTxs, must : BOOLEAN]

FileSet == [market : Known, collateral : Known, borrow : Known, created : BOOLEAN,
            collateral_oracle : Known, borrow_oracle : Known]

\* What a plan consists of, and every transaction that may still be executed.
Sends(p) == {p[i] : i \in DOMAIN p}
Around == adrift \cup {st.tx : st \in Sends(plan)}

TypeInv ==
    /\ MSTypeOK
    /\ market_file \in FileSet /\ local_file \in FileSet
    /\ reserve_file \in [Reporting -> FileSet]
    /\ plan \in Seq(Steps) /\ output \in FileSet /\ adrift \subseteq GoodTxs

Quiet == script = "none" => plan = <<>> /\ output = NoFile

\* The reserves of a report with the oracles they are to read.
ClaimsOf(f) == {<<f.collateral, f.collateral_oracle>>, <<f.borrow, f.borrow_oracle>>}

Claims == (UNION {ClaimsOf(reserve_file[s]) : s \in Reporting})
          \cup (IF script \in Reporting THEN ClaimsOf(output) ELSE {})

\* The reserves of the other scripts.
Others == {market_file.borrow, market_file.collateral}
          \cup (IF script \in {"market", "complete", "localnet"}
                THEN {output.borrow, output.collateral} ELSE {})

\* A plan sends what its script is for.
PlanFits(s, f, p) ==
    \A st \in Sends(p) :
        /\ s \in Strict => st.must
        /\ st.tx.do \in Looks => s = "complete"
        /\ st.tx.do = "register" => s = "market" /\ st.tx.in = f.market
        /\ s \in Strict /\ st.tx.do = "update" => <<st.tx.at, st.tx.value>> \in ClaimsOf(f)
        /\ s = "panel" /\ st.tx.do = "update" => st.tx.at = f.collateral

\* Whoever sets the oracle of a reserve that a report names sets the reported one.
Own ==
    \A tx \in Around, c \in Claims :
        IsUpdate(tx, c[1], "oracle") => tx.value = c[2]

Apart == \A c \in Claims : c[1] = NoAddress \/ c[1] \notin Others

Touched(r, x) == <<r, x>> \in config \/ \E tx \in adrift : IsUpdate(tx, r, x)
Mentioned(r, x) == <<r, x>> \in config \/ \E tx \in Around : IsUpdate(tx, r, x)

\* Only a reporting script names a reserve, and the panel sets no curve.
NoNames ==
    /\ \A r \in Others \ {NoAddress} : ~Mentioned(r, "name")
    /\ script \notin Reporting =>
          \A st \in Sends(plan) : st.tx.do = "update" => ~Mentioned(st.tx.at, "name")
    /\ script = "panel" => ~Mentioned(output.collateral, "curve")

\* What a script must have done before it saves.
Promised(s, f) ==
    CASE s = "panel" -> {Refresh(f.collateral, f.collateral_oracle)}
      [] s \in {"market", "localnet"} -> {InitMarket(f.market)}
      [] s \in Strict -> {WriteOracle(c[2]) : c \in ClaimsOf(f)}
                         \cup {Update(c[1], x, c[2]) : c \in ClaimsOf(f), x \in FieldSet}
      [] OTHER -> {}

Done(tx) ==
    /\ tx.do = "init_market" => tx.at \in accounts
    /\ tx.do = "write_oracle" => tx.at \in priced
    /\ tx.do = "update" => <<tx.at, tx.field>> \in config
    /\ tx.do = "refresh" \/ (tx.do = "update" /\ tx.field = "oracle") => <<tx.at, tx.value>> \in feed

Promises == \A tx \in Promised(script, output) : Done(tx) \/ Must(tx) \in Sends(plan)

\* The limit of a reserve comes after its oracle's price and the fields that
\* value it, and a market is registered after it was created.
MustPrecede(y, x) ==
    \/ /\ x.do = "update" /\ x.field = "deposit_limit"
       /\ \/ y.do = "write_oracle" /\ y.at = x.value
          \/ /\ y.do = "update" /\ y.at = x.at
             /\ y.field \in {"name", "oracle", "ltv", "threshold", "curve", "deposit_limit"}
    \/ x.do = "register" /\ y.do = "init_market"

Ordered(p) == \A i, j \in DOMAIN p : i < j => ~MustPrecede(p[j].tx, p[i].tx)

InOrder == script \in Strict \cup {"market"} => Ordered(plan)

Marks == {"name", "curve", "deposit_limit"}

LimitsToCome ==
    script \in Strict =>
        \A st \in Sends(plan) : st.tx.do = "update" /\ st.tx.field \in Marks =>
            ~Touched(st.tx.at, "deposit_limit")

\* Once a reserve has a limit, or may get it any time, it can be valued, and
\* nothing on its way changes that.
Valued(r) ==
    /\ {r} \X {"oracle", "ltv", "threshold"} \subseteq config
    /\ \E o \in priced : /\ <<r, o>> \in feed
                         /\ \A tx \in Around : IsUpdate(tx, r, "oracle") => tx.value = o

Ready == \A r \in Addresses : (\A x \in Marks : Touched(r, x)) => Valued(r)

Reported ==
    \A s \in Reporting : reserve_file[s] # NoFile =>
        \A tx \in Promised(s, reserve_file[s]) : Done(tx)

MarketsExist ==
    /\ NamedMarketExists
    /\ \A tx \in adrift : tx.do = "register" => tx.in \in accounts
    /\ script = "complete" => output.market \in accounts \cup {NoAddress}

MSInv ==
    /\ TypeInv /\ Quiet /\ PlanFits(script, output, plan)
    /\ Own /\ Apart /\ NoNames
    /\ Promises /\ InOrder /\ LimitsToCome
    /\ Ready /\ Reported /\ MarketsExist

-----------------------------------------------------------------------------
(* Plans *)

LEMMA SendsType ==
    ASSUME NEW p \in Seq(Steps)
    PROVE  /\ Sends(p) \subseteq Steps
           /\ \A st \in Sends(p) : st.tx \in GoodTxs /\ st.must \in BOOLEAN
  <1>1. Sends(p) \subseteq Steps
    BY LenProperties, ElementOfSeq DEF Sends
  <1>2. QED
    BY <1>1 DEF Steps

LEMMA SendsEmpty == <<>> \in Seq(Steps) /\ Sends(<<>>) = {} /\ Ordered(<<>>)
  BY DEF Sends, Ordered

LEMMA SendsOne ==
    ASSUME NEW st \in Steps
    PROVE  <<st>> \in Seq(Steps) /\ Sends(<<st>>) = {st} /\ Ordered(<<st>>)
  <1>1. <<st>> \in Seq(Steps) /\ DOMAIN <<st>> = 1 .. 1 /\ <<st>>[1] = st
    OBVIOUS
  <1>2. Sends(<<st>>) = {st}
    BY <1>1 DEF Sends
  <1>3. Ordered(<<st>>)
    BY <1>1 DEF Ordered
  <1>4. QED
    BY <1>1, <1>2, <1>3

LEMMA SendsTail ==
    ASSUME NEW p \in Seq(Steps), p # <<>>
    PROVE  /\ Head(p) \in Steps /\ Head(p) \in Sends(p) /\ Tail(p) \in Seq(Steps)
           /\ Sends(p) = {Head(p)} \cup Sends(Tail(p))
           /\ Ordered(p) => /\ Ordered(Tail(p))
                            /\ \A st \in Sends(Tail(p)) : ~MustPrecede(st.tx, Head(p).tx)
  <1> DEFINE t == Tail(p)
             n == Len(p)
  <1>1. /\ n \in Nat /\ n > 0 /\ DOMAIN p = 1 .. n /\ Head(p) = p[1] /\ p[1] \in Steps
        /\ t \in Seq(Steps) /\ Len(t) = n - 1 /\ DOMAIN t = 1 .. n - 1
        /\ \A i \in 1 .. n - 1 : t[i] = p[i + 1]
    BY HeadTailProperties, LenProperties, EmptySeq
  <1> HIDE DEF t, n
  <1>2. Sends(p) = {Head(p)} \cup Sends(t)
    <2>1. ASSUME NEW x \in Sends(p) PROVE x \in {Head(p)} \cup Sends(t)
      <3>1. PICK i \in 1 .. n : x = p[i]
        BY <1>1, <2>1 DEF Sends
      <3>2. CASE i = 1
        BY <1>1, <3>1, <3>2
      <3>3. CASE i # 1
        <4>1. i - 1 \in 1 .. n - 1 /\ p[i] = t[i - 1]
          BY <1>1, <3>1, <3>3
        <4>2. QED
          BY <1>1, <3>1, <4>1 DEF Sends
      <3>4. QED
        BY <3>2, <3>3
    <2>2. ASSUME NEW i \in 1 .. n - 1 PROVE t[i] \in Sends(p)
      BY <1>1, <2>2 DEF Sends
    <2>3. Sends(t) \subseteq Sends(p)
      BY <1>1, <2>2 DEF Sends
    <2>4. Head(p) \in Sends(p)
      BY <1>1 DEF Sends
    <2>5. QED
      BY <2>1, <2>3, <2>4
  <1>3. ASSUME Ordered(p)
        PROVE  Ordered(t) /\ \A st \in Sends(t) : ~MustPrecede(st.tx, Head(p).tx)
    <2>1. ASSUME NEW i \in 1 .. n - 1, NEW j \in 1 .. n - 1, i < j
          PROVE  ~MustPrecede(t[j].tx, t[i].tx)
      <3>1. i + 1 \in 1 .. n /\ j + 1 \in 1 .. n /\ i + 1 < j + 1
        BY <1>1, <2>1
      <3>2. QED
        BY <1>1, <1>3, <2>1, <3>1 DEF Ordered
    <2>2. ASSUME NEW i \in 1 .. n - 1 PROVE ~MustPrecede(t[i].tx, Head(p).tx)
      <3>1. i + 1 \in 1 .. n /\ 1 \in 1 .. n /\ 1 < i + 1
        BY <1>1, <2>2
      <3>2. QED
        BY <1>1, <1>3, <3>1 DEF Ordered
    <2>3. QED
      BY <1>1, <2>1, <2>2 DEF Ordered, Sends
  <1>4. QED
    BY <1>1, <1>2, <1>3 DEF t

LEMMA SendsConcat ==
    ASSUME NEW p \in Seq(Steps), NEW q \in Seq(Steps)
    PROVE  /\ p \o q \in Seq(Steps) /\ Sends(p \o q) = Sends(p) \cup Sends(q)
           /\ Ordered(p) /\ Ordered(q)
              /\ (\A x \in Sends(p), y \in Sends(q) : ~MustPrecede(y.tx, x.tx))
                 => Ordered(p \o q)
  <1> DEFINE s == p \o q
             m == Len(p)
             n == Len(q)
  <1>1. /\ m \in Nat /\ n \in Nat /\ DOMAIN p = 1 .. m /\ DOMAIN q = 1 .. n
        /\ s \in Seq(Steps) /\ DOMAIN s = 1 .. m + n
        /\ \A i \in 1 .. m + n : s[i] = IF i <= m THEN p[i] ELSE q[i - m]
    BY ConcatProperties, LenProperties
  <1> HIDE DEF s, m, n
  <1>2. ASSUME NEW i \in 1 .. m + n
        PROVE  \/ i \in 1 .. m /\ s[i] = p[i]
               \/ i - m \in 1 .. n /\ s[i] = q[i - m] /\ i > m
    BY <1>1, <1>2
  <1>3. Sends(s) \subseteq Sends(p) \cup Sends(q)
    BY <1>1, <1>2 DEF Sends
  <1>4. Sends(p) \subseteq Sends(s)
    <2>1. ASSUME NEW i \in 1 .. m PROVE p[i] \in Sends(s)
      <3>1. i \in 1 .. m + n /\ s[i] = p[i]
        BY <1>1, <2>1
      <3>2. QED
        BY <1>1, <3>1 DEF Sends
    <2>2. QED
      BY <1>1, <2>1 DEF Sends
  <1>5. Sends(q) \subseteq Sends(s)
    <2>1. ASSUME NEW i \in 1 .. n PROVE q[i] \in Sends(s)
      <3>1. i + m \in 1 .. m + n /\ ~(i + m <= m) /\ (i + m) - m = i
        BY <1>1, <2>1
      <3>2. QED
        BY <1>1, <3>1 DEF Sends
    <2>2. QED
      BY <1>1, <2>1 DEF Sends
  <1>6. ASSUME Ordered(p), Ordered(q),
               \A x \in Sends(p), y \in Sends(q) : ~MustPrecede(y.tx, x.tx)
        PROVE  Ordered(s)
    <2>1. SUFFICES ASSUME NEW i \in 1 .. m + n, NEW j \in 1 .. m + n, i < j
                   PROVE  ~MustPrecede(s[j].tx, s[i].tx)
      BY <1>1 DEF Ordered
    <2>2. CASE i \in 1 .. m /\ j \in 1 .. m /\ s[i] = p[i] /\ s[j] = p[j]
      BY <1>1, <1>6, <2>1, <2>2 DEF Ordered
    <2>3. CASE i \in 1 .. m /\ j - m \in 1 .. n /\ s[i] = p[i] /\ s[j] = q[j - m]
      <3>1. s[i] \in Sends(p) /\ s[j] \in Sends(q)
        BY <1>1, <2>3 DEF Sends
      <3>2. QED
        BY <1>6, <3>1
    <2>4. CASE i - m \in 1 .. n /\ j - m \in 1 .. n /\ s[i] = q[i - m] /\ s[j] = q[j - m]
      <3>1. i - m < j - m
        BY <1>1, <2>1
      <3>2. QED
        BY <1>1, <1>6, <2>4, <3>1 DEF Ordered
    <2>5. ~(i > m /\ j \in 1 .. m)
      BY <1>1, <2>1
    <2>6. QED
      BY <1>2, <2>2, <2>3, <2>4, <2>5
  <1>7. QED
    BY <1>1, <1>3, <1>4, <1>5, <1>6 DEF s

-----------------------------------------------------------------------------
(* Fresh addresses *)

\* An address of nothing: of no account, file, plan or transaction.
Fresh == Addresses \ Used

LEMMA LeastElement ==
    ASSUME NEW S \in SUBSET Nat, S # {}
    PROVE  \E m \in S : \A k \in S : m <= k
  <1> DEFINE R == {ss \in Nat \X Nat : ss[1] < ss[2]}
  <1>1. IsWellFoundedOn(R, Nat)
    BY NatLessThanWellFounded DEF OpToRel
  <1>2. PICK m \in S : \A k \in S : <<k, m>> \notin R
    BY <1>1, WFMin
  <1>3. ASSUME NEW k \in S PROVE m <= k
    <2>1. k \in Nat /\ m \in Nat /\ ~(k < m)
      BY <1>2
    <2>2. QED
      BY <2>1
  <1>4. QED
    BY <1>3

\* The k smallest elements of S.
Smallest(B, k, S) ==
    /\ B \subseteq S /\ IsFiniteSet(B) /\ Cardinality(B) = k
    /\ \A b \in B, a \in S \ B : b < a

LEMMA NextElement ==
    ASSUME NEW S \in SUBSET Nat, IsFiniteSet(S), NEW k \in Nat, k < Cardinality(S),
           NEW B, Smallest(B, k, S)
    PROVE  \E a \in S \ B : {b \in S : b < a} = B /\ Smallest(B \cup {a}, k + 1, S)
  <1>1. S \ B # {}
    <2>1. B # S
      BY FS_CardinalityType DEF Smallest
    <2>2. QED
      BY <2>1 DEF Smallest
  <1>2. PICK a \in S \ B : \A c \in S \ B : a <= c
    <2>1. S \ B \in SUBSET Nat
      OBVIOUS
    <2>2. QED
      BY <1>1, <2>1, LeastElement
  <1>3. {b \in S : b < a} = B
    <2>1. ASSUME NEW b \in S, b < a PROVE b \in B
      BY <1>2, <2>1
    <2>2. QED
      BY <1>2, <2>1 DEF Smallest
  <1>4. ASSUME NEW b \in B \cup {a}, NEW c \in S \ (B \cup {a})
        PROVE  b < c
    <2>1. CASE b = a
      BY <1>2, <2>1
    <2>2. CASE b \in B
      BY <2>2 DEF Smallest
    <2>3. QED
      BY <2>1, <2>2
  <1>5. IsFiniteSet(B \cup {a}) /\ Cardinality(B \cup {a}) = k + 1
    BY <1>2, FS_AddElement DEF Smallest
  <1>6. QED
    BY <1>2, <1>3, <1>4, <1>5 DEF Smallest

LEMMA GeneratedFresh ==
    ASSUME NEW n \in 1 .. 4, Left(n)
    PROVE  /\ \A i \in 1 .. n : Generated(i) \in Fresh
           /\ \A i, j \in 1 .. n : i # j => Generated(i) # Generated(j)
  <1> DEFINE Below(a) == {b \in Fresh : b < a}
             Follows(k) == \E a \in Fresh : Cardinality(Below(a)) = k
             Lower(k) == \E B : Smallest(B, k, Fresh)
  <1>1. Fresh \in SUBSET Nat /\ IsFiniteSet(Fresh) /\ Cardinality(Fresh) \in Nat /\ Cardinality(Fresh) >= n
    <2>1. IsFiniteSet(Addresses)
      BY FS_Interval, MarketAssumption DEF Addresses, MarketAssumption
    <2>2. Fresh \subseteq Addresses /\ Addresses \subseteq Nat
      BY DEF Fresh, Addresses
    <2>3. QED
      BY <2>1, <2>2, FS_Subset, FS_CardinalityType DEF Left, Fresh
  <1>2. ASSUME NEW k \in Nat, k < n, Lower(k)
        PROVE  Follows(k) /\ Lower(k + 1)
    <2>1. PICK B : Smallest(B, k, Fresh)
      BY <1>2
    <2>2. k < Cardinality(Fresh)
      BY <1>1, <1>2
    <2>3. PICK a \in Fresh \ B : Below(a) = B /\ Smallest(B \cup {a}, k + 1, Fresh)
      BY <1>1, <2>1, <2>2, NextElement
    <2>4. QED
      BY <2>1, <2>3 DEF Smallest
  <1>3. Lower(0)
    BY FS_EmptySet DEF Smallest
  <1>4. \A i \in 1 .. n : Follows(i - 1)
    <2> HIDE DEF Follows, Lower
    <2>1. Follows(0) /\ Lower(1)
      BY <1>2, <1>3
    <2>2. n > 1 => Follows(1) /\ Lower(2)
      BY <1>2, <2>1
    <2>3. n > 2 => Follows(2) /\ Lower(3)
      BY <1>2, <2>2
    <2>4. n > 3 => Follows(3)
      BY <1>2, <2>3
    <2>5. QED
      BY <2>1, <2>2, <2>3, <2>4
  <1>5. ASSUME NEW i \in 1 .. n
        PROVE  Generated(i) \in Fresh /\ Cardinality(Below(Generated(i))) = i - 1
    BY <1>4, <1>5 DEF Generated, Fresh
  <1>6. ASSUME NEW i \in 1 .. n, NEW j \in 1 .. n, i # j PROVE Generated(i) # Generated(j)
    <2> HIDE DEF Below
    <2>1. SUFFICES ASSUME Generated(i) = Generated(j) PROVE FALSE
      OBVIOUS
    <2>2. Cardinality(Below(Generated(i))) = i - 1 /\ Cardinality(Below(Generated(i))) = j - 1
      BY <1>5, <2>1
    <2>3. QED
      BY <1>6, <2>2
  <1>7. QED
    BY <1>5, <1>6

-----------------------------------------------------------------------------
(* What a transaction does to the ledger *)

\* It is executed, or it is not and may be adrift from now on.
Effect(tx) ==
    \/ Execute(tx) /\ adrift' \subseteq adrift
    \/ UNCHANGED ledger /\ adrift' \subseteq adrift \cup {tx}

LedgerType ==
    /\ accounts \subseteq Addresses /\ priced \subseteq Addresses
    /\ config \subseteq accounts \X FieldSet
    /\ feed \subseteq accounts \X Known
    /\ pool \in [status : {"absent", "Initializing", "Active"},
                 market : Known, collateral : Known, borrow : Known]
    /\ {listed, seeded} \subseteq BOOLEAN

LEMMA KnownAddresses ==
    /\ Addresses \subseteq Known /\ {NoAddress, Main, LiveFeed} \subseteq Known
    /\ Addresses \cap {NoAddress, Main, LiveFeed} = {}
  BY DEF Known, Addresses, NoAddress, Main, LiveFeed

LEMMA FieldNames ==
    FieldSet = {"name", "price_age", "twap_age", "oracle", "ltv", "threshold",
                "borrow_factor", "curve", "deposit_limit", "borrow_limit", "outside_limit"}
  BY DEF FieldSet, Fields

LEMMA GoodTx ==
    ASSUME NEW tx \in GoodTxs
    PROVE  /\ tx \in Txs /\ tx.do \in Dos /\ tx.at \in Known /\ tx.in \in Known /\ tx.value \in Known
           /\ tx.do \in Creating => tx.at \in Addresses
           /\ tx.do = "update" => tx.at \in Addresses /\ tx.field \in FieldSet
  BY DEF GoodTxs, Txs

LEMMA ExecuteGrows ==
    ASSUME LedgerType, NEW tx \in GoodTxs, Execute(tx)
    PROVE  /\ accounts \subseteq accounts' /\ priced \subseteq priced' /\ config \subseteq config'
           /\ \A r, x : <<r, x>> \in config' => <<r, x>> \in config \/ IsUpdate(tx, r, x)
           /\ \A r, o : <<r, o>> \in feed /\ (IsUpdate(tx, r, "oracle") => tx.value = o)
                        => <<r, o>> \in feed'
           /\ LedgerType'
  <1>1. accounts \subseteq accounts' /\ accounts' \subseteq Addresses
    BY GoodTx DEF Execute, LedgerType
  <1>2. priced \subseteq priced' /\ priced' \subseteq Addresses
    BY DEF Execute, LedgerType, CanExecute, Creating
  <1>3. tx.do = "update" => tx.at \in accounts
    BY DEF Execute, CanExecute, Creating
  <1>4. config \subseteq config' /\ config' \subseteq accounts' \X FieldSet
    BY <1>1, <1>3, GoodTx DEF Execute, LedgerType
  <1>5. \A r, x : <<r, x>> \in config' => <<r, x>> \in config \/ IsUpdate(tx, r, x)
    BY DEF Execute, IsUpdate
  <1>6. feed' \subseteq accounts' \X Known
    BY <1>1, <1>3, GoodTx DEF Execute, LedgerType
  <1>7. \A r, o : <<r, o>> \in feed /\ (IsUpdate(tx, r, "oracle") => tx.value = o)
                  => <<r, o>> \in feed'
    BY DEF Execute, IsUpdate
  <1>8. pool' \in [status : {"absent", "Initializing", "Active"},
                   market : Known, collateral : Known, borrow : Known]
    BY GoodTx DEF Execute, LedgerType
  <1>9. {listed', seeded'} \subseteq BOOLEAN
    BY DEF Execute, LedgerType
  <1>10. QED
    BY <1>1, <1>2, <1>4, <1>5, <1>6, <1>7, <1>8, <1>9 DEF LedgerType

LEMMA EffectGrows ==
    ASSUME LedgerType, NEW tx \in GoodTxs, Effect(tx)
    PROVE  /\ accounts \subseteq accounts' /\ priced \subseteq priced' /\ config \subseteq config'
           /\ \A r, x : <<r, x>> \in config' => <<r, x>> \in config \/ IsUpdate(tx, r, x)
           /\ \A r, o : <<r, o>> \in feed /\ (IsUpdate(tx, r, "oracle") => tx.value = o)
                        => <<r, o>> \in feed'
           /\ LedgerType' /\ adrift' \subseteq adrift \cup {tx}
  <1>1. CASE Execute(tx) /\ adrift' \subseteq adrift
    BY <1>1, ExecuteGrows
  <1>2. CASE UNCHANGED ledger /\ adrift' \subseteq adrift \cup {tx}
    BY <1>2 DEF ledger, LedgerType
  <1>3. QED
    BY <1>1, <1>2 DEF Effect

\* What is executed is done.
LEMMA ExecuteDone ==
    ASSUME LedgerType, NEW tx \in GoodTxs, Execute(tx)
    PROVE  Done(tx)'
  BY DEF Execute, Done, CanExecute, Creating

\* What is done stays done, unless another oracle is set.
LEMMA DoneStays ==
    ASSUME LedgerType, NEW tx \in GoodTxs, Effect(tx), NEW t, Done(t),
           IsUpdate(tx, t.at, "oracle") => tx.value = t.value
    PROVE  Done(t)'
  BY EffectGrows DEF Done

LEMMA TouchedBefore ==
    ASSUME LedgerType, NEW tx \in GoodTxs, Effect(tx), NEW r, NEW x, Touched(r, x)'
    PROVE  Touched(r, x) \/ IsUpdate(tx, r, x)
  BY EffectGrows DEF Touched

-----------------------------------------------------------------------------
(* Steps that begin nothing new *)

Goes ==
    \/ UNCHANGED process
    \/ plan # <<>> /\ plan' = Tail(plan) /\ UNCHANGED <<script, output>>
    \/ Exit

LEMMA NoFileType == NoFile \in FileSet
  BY KnownAddresses DEF NoFile, FileSet

LEMMA GoesNarrows ==
    ASSUME TypeInv, Quiet, Goes, adrift' \subseteq Around
    PROVE  /\ plan' \in Seq(Steps) /\ output' \in FileSet /\ script' \in Scripts \cup {"none"}
           /\ Sends(plan') \subseteq Sends(plan) /\ Around' \subseteq Around
           /\ Quiet'
           /\ \/ script' = script /\ output' = output
              \/ script' = "none" /\ plan' = <<>> /\ output' = NoFile
  <1>1. /\ plan \in Seq(Steps) /\ output \in FileSet /\ script \in Scripts \cup {"none"}
    BY DEF TypeInv, MSTypeOK
  <1>2. CASE UNCHANGED process
    BY <1>1, <1>2 DEF process, Around, Quiet
  <1>3. CASE plan # <<>> /\ plan' = Tail(plan) /\ UNCHANGED <<script, output>>
    <2>1. Sends(plan') \subseteq Sends(plan) /\ plan' \in Seq(Steps)
      BY <1>1, <1>3, SendsTail
    <2>2. QED
      BY <1>1, <1>3, <2>1 DEF Around, Quiet
  <1>4. CASE Exit
    BY <1>4, SendsEmpty, NoFileType DEF Exit, Around, Quiet
  <1>5. QED
    BY <1>2, <1>3, <1>4 DEF Goes

LEMMA MentionedBefore ==
    ASSUME LedgerType, NEW tx \in Around, tx \in GoodTxs, Effect(tx), Around' \subseteq Around,
           NEW r, NEW x, Mentioned(r, x)'
    PROVE  Mentioned(r, x)
  BY EffectGrows DEF Mentioned

\* What follows if nothing is added: no claim, no other reserve, no transaction.
LEMMA NothingAdded ==
    ASSUME Own, Apart, PlanFits(script, output, plan), NoNames,
           Around' \subseteq Around, Claims' \subseteq Claims, Others' \subseteq Others,
           Sends(plan') \subseteq Sends(plan),
           \A r, x : Mentioned(r, x)' => Mentioned(r, x),
           \/ script' = script /\ output' = output
           \/ script' = "none" /\ plan' = <<>>
    PROVE  Own' /\ Apart' /\ PlanFits(script, output, plan)' /\ NoNames'
  <1>1. Own'
    BY DEF Own
  <1>2. Apart'
    BY DEF Apart
  <1>3. PlanFits(script, output, plan)'
    BY SendsEmpty DEF PlanFits
  <1>4. NoNames'
    <2>1. \A r \in Others' \ {NoAddress} : ~Mentioned(r, "name")'
      BY DEF NoNames
    <2>2. script' \notin Reporting =>
            \A st \in Sends(plan') : st.tx.do = "update" => ~Mentioned(st.tx.at, "name")'
      BY SendsEmpty DEF NoNames
    <2>3. (script = "panel" => ~Mentioned(output.collateral, "curve"))'
      BY DEF NoNames
    <2>4. QED
      BY <2>1, <2>2, <2>3 DEF NoNames
  <1>5. QED
    BY <1>1, <1>2, <1>3, <1>4

LEMMA ClaimsStay ==
    ASSUME UNCHANGED files,
           \/ script' = script /\ output' = output
           \/ script' = "none" /\ plan' = <<>>
    PROVE  Claims' \subseteq Claims /\ Others' \subseteq Others
  <1>1. reserve_file' = reserve_file /\ market_file' = market_file
    BY DEF files
  <1>2. QED
    BY <1>1 DEF Claims, Others, ClaimsOf, Reporting, Strict

\* What was reported of a reserve stays true: nobody else sets its oracle.
LEMMA ReportsStay ==
    ASSUME LedgerType, Own, NEW tx \in Around, tx \in GoodTxs, Effect(tx),
           NEW s \in Reporting, NEW f \in FileSet, ClaimsOf(f) \subseteq Claims,
           NEW t \in Promised(s, f), Done(t)
    PROVE  Done(t)'
  <1>1. CASE s = "panel"
    <2>1. t = Refresh(f.collateral, f.collateral_oracle)
      BY <1>1 DEF Promised, Strict
    <2>2. t.at = f.collateral /\ t.value = f.collateral_oracle
      BY <2>1 DEF Refresh, Tx
    <2>3. <<t.at, t.value>> \in Claims
      BY <2>2 DEF ClaimsOf
    <2>4. IsUpdate(tx, t.at, "oracle") => tx.value = t.value
      BY <2>3 DEF Own
    <2>5. QED
      BY <2>4, DoneStays
  <1>2. CASE s \in Strict
    <2>1. \/ \E c \in ClaimsOf(f) : t = WriteOracle(c[2])
          \/ \E c \in ClaimsOf(f), x \in FieldSet : t = Update(c[1], x, c[2])
      BY <1>2 DEF Promised, Strict
    <2>2. CASE \E c \in ClaimsOf(f) : t = WriteOracle(c[2])
      <3>1. t.do = "write_oracle"
        <4>1. PICK c \in ClaimsOf(f) : t = WriteOracle(c[2])
          BY <2>2
        <4>2. QED
          BY <4>1 DEF WriteOracle, Tx
      <3>2. QED
        BY <3>1, EffectGrows DEF Done
    <2>3. CASE \E c \in ClaimsOf(f), x \in FieldSet : t = Update(c[1], x, c[2])
      <3>1. PICK c \in ClaimsOf(f) : t.at = c[1] /\ t.value = c[2]
        BY <2>3 DEF Update, Tx
      <3>2. IsUpdate(tx, t.at, "oracle") => tx.value = t.value
        BY <3>1 DEF Own
      <3>3. QED
        BY <3>2, DoneStays
    <2>4. QED
      BY <2>1, <2>2, <2>3
  <1>3. QED
    BY <1>1, <1>2 DEF Reporting

\* The same of what a market script has promised.
LEMMA PromisesStay ==
    ASSUME LedgerType, Own, NEW tx \in Around, tx \in GoodTxs, Effect(tx), output \in FileSet,
           NEW t \in Promised(script, output), Done(t)
    PROVE  Done(t)'
  <1>1. CASE script \in Reporting
    <2>1. ClaimsOf(output) \subseteq Claims
      BY <1>1 DEF Claims
    <2>2. QED
      BY <1>1, <2>1, ReportsStay
  <1>2. CASE script \in {"market", "localnet"}
    <2>1. t.do = "init_market"
      <3>1. t = InitMarket(output.market)
        BY <1>2 DEF Promised, Strict
      <3>2. QED
        BY <3>1 DEF InitMarket, Tx
    <2>2. QED
      BY <2>1, EffectGrows DEF Done
  <1>3. script \in Reporting \/ script \in {"market", "localnet"}
    BY DEF Promised, Reporting
  <1>4. QED
    BY <1>1, <1>2, <1>3

LEMMA ValuedStays ==
    ASSUME LedgerType, NEW tx \in Around, tx \in GoodTxs, Effect(tx), Around' \subseteq Around,
           NEW r, Valued(r)
    PROVE  Valued(r)'
  <1>1. PICK o \in priced : /\ <<r, o>> \in feed
                            /\ \A t \in Around : IsUpdate(t, r, "oracle") => t.value = o
    BY DEF Valued
  <1>2. {r} \X {"oracle", "ltv", "threshold"} \subseteq config
    BY DEF Valued
  <1>3. o \in priced' /\ <<r, o>> \in feed' /\ config \subseteq config'
    BY <1>1, EffectGrows
  <1>4. \A t \in Around' : IsUpdate(t, r, "oracle") => t.value = o
    BY <1>1
  <1>5. QED
    BY <1>2, <1>3, <1>4 DEF Valued

-----------------------------------------------------------------------------
(* Transactions that land, and plans that go on *)

LEMMA AroundGood ==
    ASSUME TypeInv, NEW tx \in Around
    PROVE  tx \in GoodTxs
  BY SendsType DEF TypeInv, Around

LEMMA LedgerTyped == ASSUME TypeInv PROVE LedgerType
  BY DEF TypeInv, MSTypeOK, LedgerType

LEMMA TypeFromLedger ==
    ASSUME TypeInv, LedgerType', adrift' \subseteq GoodTxs, UNCHANGED files,
           plan' \in Seq(Steps), output' \in FileSet, script' \in Scripts \cup {"none"},
           faults' \in 0 .. MaxFaults, runs' \in 0 .. MaxRuns
    PROVE  TypeInv'
  BY DEF TypeInv, MSTypeOK, LedgerType, files

\* All that a step along the plan, or beside it, preserves in the same way.
LEMMA OnwardKeeps ==
    ASSUME MSInv, NEW tx \in Around, Effect(tx), Goes, UNCHANGED files,
           faults' \in 0 .. MaxFaults, runs' \in 0 .. MaxRuns,
           tx.do = "register" => tx.in \in accounts
    PROVE  /\ TypeInv' /\ Quiet' /\ PlanFits(script, output, plan)'
           /\ Own' /\ Apart' /\ NoNames' /\ Reported' /\ MarketsExist'
           /\ Around' \subseteq Around
  <1>1. /\ TypeInv /\ Quiet /\ PlanFits(script, output, plan) /\ Own /\ Apart /\ NoNames
        /\ Reported /\ MarketsExist /\ LedgerType /\ tx \in GoodTxs
    BY AroundGood, LedgerTyped DEF MSInv
  <1>2. /\ LedgerType' /\ accounts \subseteq accounts' /\ adrift' \subseteq adrift \cup {tx}
    BY <1>1, EffectGrows
  <1>3. adrift' \subseteq Around /\ adrift' \subseteq GoodTxs
    BY <1>1, <1>2 DEF Around, TypeInv
  <1>4. /\ plan' \in Seq(Steps) /\ output' \in FileSet /\ script' \in Scripts \cup {"none"}
        /\ Sends(plan') \subseteq Sends(plan) /\ Around' \subseteq Around /\ Quiet'
        /\ \/ script' = script /\ output' = output
           \/ script' = "none" /\ plan' = <<>> /\ output' = NoFile
    BY <1>1, <1>3, GoesNarrows
  <1>5. TypeInv'
    BY <1>1, <1>2, <1>3, <1>4, TypeFromLedger
  <1>6. \A r, x : Mentioned(r, x)' => Mentioned(r, x)
    BY <1>1, <1>4, MentionedBefore
  <1>7. Claims' \subseteq Claims /\ Others' \subseteq Others
    BY <1>4, ClaimsStay
  <1>8. PlanFits(script, output, plan)' /\ Own' /\ Apart' /\ NoNames'
    BY <1>1, <1>4, <1>6, <1>7, NothingAdded
  <1>9. Reported'
    <2>1. reserve_file' = reserve_file /\ reserve_file \in [Reporting -> FileSet]
      BY <1>1 DEF files, TypeInv
    <2>2. ASSUME NEW s \in Reporting, reserve_file[s] # NoFile,
                 NEW t \in Promised(s, reserve_file[s])
          PROVE  Done(t)'
      <3>1. Done(t) /\ reserve_file[s] \in FileSet /\ ClaimsOf(reserve_file[s]) \subseteq Claims
        BY <1>1, <2>1, <2>2 DEF Reported, Claims
      <3>2. QED
        BY <1>1, <2>2, <3>1, ReportsStay
    <2>3. QED
      BY <2>1, <2>2 DEF Reported, Promised, ClaimsOf
  <1>10. MarketsExist'
    <2>1. /\ {pool.market, market_file.market, local_file.market} \subseteq accounts \cup {NoAddress}
          /\ \A t \in adrift : t.do = "register" => t.in \in accounts
          /\ script = "complete" => output.market \in accounts \cup {NoAddress}
      BY <1>1 DEF MarketsExist, NamedMarketExists
    <2>2. market_file' = market_file /\ local_file' = local_file
      BY DEF files
    <2>3. pool'.market = pool.market \/ (pool'.market = tx.in /\ tx.do = "register")
      <3>1. CASE UNCHANGED ledger
        BY <3>1 DEF ledger
      <3>2. CASE Execute(tx)
        BY <1>1, <3>2 DEF Execute, LedgerType
      <3>3. QED
        BY <3>1, <3>2 DEF Effect
    <2>4. NamedMarketExists'
      BY <1>2, <2>1, <2>2, <2>3 DEF NamedMarketExists
    <2>5. \A t \in adrift' : t.do = "register" => t.in \in accounts'
      BY <1>2, <2>1
    <2>6. script' = "complete" => output'.market \in accounts' \cup {NoAddress}
      BY <1>2, <1>4, <2>1
    <2>7. QED
      BY <2>4, <2>5, <2>6 DEF MarketsExist
  <1>11. QED
    BY <1>1, <1>4, <1>5, <1>8, <1>9, <1>10

LEMMA SettleInv ==
    ASSUME MSInv, Settle
    PROVE  MSInv'
  <1>1. PICK tx \in adrift : adrift' = adrift \ {tx} /\ (Execute(tx) \/ UNCHANGED ledger)
    BY DEF Settle
  <1>2. UNCHANGED <<files, process, faults, runs>>
    BY DEF Settle
  <1>3. /\ tx \in Around /\ Effect(tx) /\ Goes /\ UNCHANGED files
    BY <1>1, <1>2 DEF Around, Effect, Goes
  <1>4. /\ faults' \in 0 .. MaxFaults /\ runs' \in 0 .. MaxRuns
        /\ tx.do = "register" => tx.in \in accounts
    BY <1>1, <1>2 DEF MSInv, TypeInv, MSTypeOK, MarketsExist
  <1>5. /\ TypeInv' /\ Quiet' /\ PlanFits(script, output, plan)'
        /\ Own' /\ Apart' /\ NoNames' /\ Reported' /\ MarketsExist' /\ Around' \subseteq Around
    BY <1>3, <1>4, OnwardKeeps
  <1>6. TypeInv /\ LedgerType /\ tx \in GoodTxs /\ Own /\ output \in FileSet
    BY <1>3, AroundGood, LedgerTyped DEF MSInv, TypeInv
  <1>7. script' = script /\ plan' = plan /\ output' = output
    BY <1>2 DEF process
  <1>8. \A r, x : Touched(r, x)' => Touched(r, x)
    <2>1. ASSUME NEW r, NEW x, Touched(r, x)' PROVE Touched(r, x)
      <3>1. Touched(r, x) \/ IsUpdate(tx, r, x)
        BY <1>3, <1>6, <2>1, TouchedBefore
      <3>2. QED
        BY <1>1, <3>1 DEF Touched
    <2>2. QED
      BY <2>1
  <1>9. Promises'
    <2>1. \A t \in Promised(script, output) : Done(t) => Done(t)'
      BY <1>3, <1>6, PromisesStay
    <2>2. QED
      BY <1>7, <2>1 DEF MSInv, Promises, Promised, ClaimsOf
  <1>10. InOrder'
    BY <1>7 DEF MSInv, InOrder, Ordered
  <1>11. LimitsToCome'
    BY <1>7, <1>8 DEF MSInv, LimitsToCome
  <1>12. Ready'
    <2>1. ASSUME NEW r \in Addresses, \A x \in Marks : Touched(r, x)'
          PROVE  Valued(r)'
      <3>1. Valued(r)
        BY <1>8, <2>1 DEF MSInv, Ready
      <3>2. QED
        BY <1>3, <1>5, <1>6, <3>1, ValuedStays
    <2>2. QED
      BY <2>1 DEF Ready
  <1>13. QED
    BY <1>5, <1>9, <1>10, <1>11, <1>12 DEF MSInv

\* What must come before the next step has been done.
LEMMA EarlierDone ==
    ASSUME MSInv, plan # <<>>, script \in Strict \cup {"market"},
           NEW t \in Promised(script, output), MustPrecede(t, Head(plan).tx), t # Head(plan).tx
    PROVE  Done(t)
  <1>1. Done(t) \/ Must(t) \in Sends(plan)
    BY DEF MSInv, Promises
  <1>2. ASSUME Must(t) \in Sends(plan) PROVE FALSE
    <2>1. plan \in Seq(Steps) /\ Ordered(plan)
      BY DEF MSInv, TypeInv, InOrder
    <2>2. Must(t).tx = t
      BY DEF Must
    <2>3. Must(t) \in Sends(Tail(plan))
      BY <1>2, <2>1, <2>2, SendsTail
    <2>4. ~MustPrecede(Must(t).tx, Head(plan).tx)
      BY <2>1, <2>3, SendsTail
    <2>5. QED
      BY <2>2, <2>4
  <1>3. QED
    BY <1>1, <1>2

\* The next limit is sent for a reserve that can be valued.
LEMMA LimitIsLast ==
    ASSUME MSInv, plan # <<>>, script \in Strict,
           NEW r, IsUpdate(Head(plan).tx, r, "deposit_limit")
    PROVE  Valued(r)
  <1> DEFINE tx == Head(plan).tx
             o == tx.value
             c == <<r, o>>
  <1>1. c \in ClaimsOf(output) /\ c \in Claims /\ c[1] = r /\ c[2] = o
    <2>1. Head(plan) \in Sends(plan)
      BY SendsTail DEF MSInv, TypeInv
    <2>2. c \in ClaimsOf(output)
      BY <2>1 DEF MSInv, PlanFits, IsUpdate
    <2>3. QED
      BY <2>2 DEF Claims, Reporting
  <1>2. tx.do = "update" /\ tx.at = r /\ tx.field = "deposit_limit"
    BY DEF IsUpdate
  <1> HIDE DEF tx, c
  <1>3. ASSUME NEW x \in {"oracle", "ltv", "threshold"}
        PROVE  Done(Update(r, x, o))
    <2>1. Update(r, x, o) \in Promised(script, output)
      BY <1>1, FieldNames DEF Promised, Strict
    <2>2. MustPrecede(Update(r, x, o), tx) /\ Update(r, x, o) # tx
      BY <1>2 DEF MustPrecede, Update, Tx
    <2>3. QED
      BY <2>1, <2>2, EarlierDone DEF tx
  <1>4. Done(WriteOracle(o))
    <2>1. WriteOracle(o) \in Promised(script, output)
      BY <1>1 DEF Promised, Strict
    <2>2. MustPrecede(WriteOracle(o), tx) /\ WriteOracle(o) # tx
      <3>1. WriteOracle(o).do = "write_oracle" /\ WriteOracle(o).at = tx.value
        BY DEF WriteOracle, Tx
      <3>2. QED
        BY <1>2, <3>1 DEF MustPrecede
    <2>3. QED
      BY <2>1, <2>2, EarlierDone DEF tx
  <1>5. {r} \X {"oracle", "ltv", "threshold"} \subseteq config /\ <<r, o>> \in feed
    BY <1>3 DEF Done, Update, Tx
  <1>6. o \in priced
    BY <1>4 DEF Done, WriteOracle, Tx
  <1>7. \A t \in Around : IsUpdate(t, r, "oracle") => t.value = o
    BY <1>1 DEF MSInv, Own
  <1>8. QED
    BY <1>5, <1>6, <1>7 DEF Valued

\* A reserve that gets the last of its marks can be valued.
LEMMA SendReady ==
    ASSUME MSInv, plan # <<>>, Effect(Head(plan).tx), Around' \subseteq Around
    PROVE  Ready'
  <1> DEFINE tx == Head(plan).tx
  <1>1. /\ Head(plan) \in Sends(plan) /\ tx \in Around /\ tx \in GoodTxs /\ LedgerType
        /\ script # "none" /\ script \in Scripts
    BY SendsTail, AroundGood, LedgerTyped DEF MSInv, TypeInv, MSTypeOK, Around, Quiet
  <1> HIDE DEF tx
  <1>2. SUFFICES ASSUME NEW r \in Addresses, \A x \in Marks : Touched(r, x)'
                 PROVE  Valued(r)'
    BY DEF Ready
  <1>3. SUFFICES Valued(r)
    BY <1>1, ValuedStays DEF tx
  <1>4. CASE \A x \in Marks : Touched(r, x)
    BY <1>4 DEF MSInv, Ready
  <1>5. ASSUME NEW y \in Marks, ~Touched(r, y)
        PROVE  Valued(r)
    <2>1. \A x \in Marks : Touched(r, x) \/ IsUpdate(tx, r, x)
      BY <1>1, <1>2, TouchedBefore DEF tx
    <2>2. IsUpdate(tx, r, y)
      BY <1>5, <2>1
    <2>3. tx.do = "update" /\ tx.at = r /\ tx.field \in Marks
      BY <2>2 DEF IsUpdate
    <2>4. \A x \in Marks : Mentioned(r, x)
      BY <1>1, <2>1 DEF Touched, Mentioned, Around
    <2>5. CASE script \in Strict
      <3>1. ~Touched(r, "deposit_limit")
        BY <1>1, <2>3, <2>5 DEF MSInv, LimitsToCome, tx
      <3>2. IsUpdate(tx, r, "deposit_limit")
        BY <2>1, <3>1 DEF Marks
      <3>3. QED
        BY <2>5, <3>2, LimitIsLast DEF tx
    <2>6. CASE script = "panel"
      <3>1. tx.at = output.collateral
        BY <1>1, <2>3, <2>6 DEF MSInv, PlanFits, tx
      <3>2. ~Mentioned(r, "curve")
        BY <2>3, <2>6, <3>1 DEF MSInv, NoNames
      <3>3. QED
        BY <2>4, <3>2 DEF Marks
    <2>7. CASE script \notin Reporting
      <3>1. ~Mentioned(r, "name")
        BY <1>1, <2>3, <2>7 DEF MSInv, NoNames, tx
      <3>2. QED
        BY <2>4, <3>1 DEF Marks
    <2>8. QED
      BY <2>5, <2>6, <2>7 DEF Reporting
  <1>6. QED
    BY <1>4, <1>5

LEMMA ScriptsOver ==
    ASSUME Exit
    PROVE  Promises' /\ InOrder' /\ LimitsToCome'
  <1>1. script' = "none"
    BY DEF Exit
  <1>2. Promised(script, output)' = {}
    BY <1>1 DEF Promised, Strict
  <1>3. QED
    BY <1>1, <1>2 DEF Promises, InOrder, LimitsToCome, Strict

LEMMA SendNextInv ==
    ASSUME MSInv, SendNext
    PROVE  MSInv'
  <1> DEFINE tx == Head(plan).tx
  <1>1. /\ plan # <<>> /\ UNCHANGED <<files, runs>>
        /\ \/ Confirmed(tx) /\ plan' = Tail(plan) /\ UNCHANGED <<script, output>>
           \/ Failed(tx) /\ ~Head(plan).must /\ plan' = Tail(plan) /\ UNCHANGED <<script, output>>
           \/ Failed(tx) /\ Exit
    BY DEF SendNext
  <1>2. /\ plan \in Seq(Steps) /\ Head(plan) \in Sends(plan) /\ tx \in Around /\ tx \in GoodTxs
        /\ LedgerType /\ output \in FileSet /\ Own /\ script # "none" /\ script \in Scripts
        /\ Head(plan).tx \in GoodTxs /\ Head(plan).must \in BOOLEAN
    BY <1>1, SendsTail, SendsType, AroundGood, LedgerTyped DEF MSInv, TypeInv, MSTypeOK, Around, Quiet
  <1>3. Effect(tx) /\ faults' \in 0 .. MaxFaults
    <2>1. CASE Confirmed(tx)
      BY <2>1 DEF Confirmed, Effect, MSInv, TypeInv, MSTypeOK
    <2>2. CASE Failed(tx)
      <3>1. UNCHANGED ledger /\ adrift' \subseteq adrift \cup {tx}
        BY <2>2 DEF Failed
      <3>2. faults' = faults \/ Fault
        BY <2>2 DEF Failed
      <3>3. faults' \in 0 .. MaxFaults
        BY <3>2, MarketAssumption DEF Fault, MSInv, TypeInv, MSTypeOK, MarketAssumption
      <3>4. QED
        BY <3>1, <3>3 DEF Effect
    <2>3. QED
      BY <1>1, <2>1, <2>2
  <1>4. Goes /\ UNCHANGED files /\ runs' \in 0 .. MaxRuns
    BY <1>1 DEF Goes, MSInv, TypeInv, MSTypeOK
  <1>5. tx.do = "register" => tx.in \in accounts
    <2>1. SUFFICES ASSUME tx.do = "register" PROVE tx.in \in accounts
      OBVIOUS
    <2>2. script = "market" /\ tx.in = output.market
      BY <1>2, <2>1 DEF MSInv, PlanFits
    <2> DEFINE t == InitMarket(output.market)
    <2>3. t \in Promised(script, output)
      BY <2>2 DEF Promised, Strict
    <2>4. t.do = "init_market" /\ t.at = output.market
      BY DEF InitMarket, Tx
    <2> HIDE DEF t
    <2>5. MustPrecede(t, tx) /\ t # tx
      BY <2>1, <2>4 DEF MustPrecede
    <2>6. Done(t)
      BY <1>1, <2>2, <2>3, <2>5, EarlierDone
    <2>7. QED
      BY <2>2, <2>4, <2>6 DEF Done
  <1>6. /\ TypeInv' /\ Quiet' /\ PlanFits(script, output, plan)'
        /\ Own' /\ Apart' /\ NoNames' /\ Reported' /\ MarketsExist' /\ Around' \subseteq Around
    BY <1>2, <1>3, <1>4, <1>5, OnwardKeeps
  <1>7. Ready'
    BY <1>1, <1>3, <1>6, SendReady
  <1>8. Promises' /\ InOrder' /\ LimitsToCome'
    <2>1. CASE Exit
      BY <2>1, ScriptsOver
    <2>2. CASE /\ plan' = Tail(plan) /\ UNCHANGED <<script, output>>
               /\ Confirmed(tx) \/ ~Head(plan).must
      <3>1. Sends(plan) = {Head(plan)} \cup Sends(plan')
        BY <1>1, <1>2, <2>2, SendsTail
      <3>2. Promises'
        <4>1. SUFFICES ASSUME NEW t \in Promised(script, output)
                       PROVE  Done(t)' \/ Must(t) \in Sends(plan')
          BY <2>2 DEF Promises, Promised, ClaimsOf
        <4>2. CASE Done(t)
          BY <1>2, <1>3, <4>2, PromisesStay
        <4>3. CASE Must(t) = Head(plan)
          <5>1. tx = t /\ Head(plan).must
            BY <4>3 DEF Must
          <5>2. Execute(tx)
            BY <2>2, <5>1 DEF Confirmed
          <5>3. QED
            BY <1>2, <5>1, <5>2, ExecuteDone
        <4>4. CASE Must(t) \in Sends(plan')
          BY <4>4
        <4>5. QED
          BY <3>1, <4>2, <4>3, <4>4 DEF MSInv, Promises
      <3>3. InOrder'
        BY <1>1, <1>2, <2>2, SendsTail DEF MSInv, InOrder
      <3>4. LimitsToCome'
        <4>1. SUFFICES ASSUME script \in Strict, NEW st \in Sends(plan'), st.tx.do = "update",
                              st.tx.field \in Marks, Touched(st.tx.at, "deposit_limit")'
                       PROVE  FALSE
          BY <2>2 DEF LimitsToCome
        <4>2. ~Touched(st.tx.at, "deposit_limit")
          BY <3>1, <4>1 DEF MSInv, LimitsToCome
        <4>3. IsUpdate(tx, st.tx.at, "deposit_limit")
          BY <1>2, <1>3, <4>1, <4>2, TouchedBefore
        <4>4. MustPrecede(st.tx, tx)
          BY <4>1, <4>3 DEF MustPrecede, IsUpdate, Marks
        <4>5. ~MustPrecede(st.tx, tx)
          BY <1>1, <1>2, <2>2, <4>1, SendsTail DEF MSInv, InOrder
        <4>6. QED
          BY <4>4, <4>5
      <3>5. QED
        BY <3>2, <3>3, <3>4
    <2>3. QED
      BY <1>1, <2>1, <2>2
  <1>9. QED
    BY <1>6, <1>7, <1>8 DEF MSInv

-----------------------------------------------------------------------------
(* Scripts that end *)

LEMMA LedgerKept ==
    ASSUME UNCHANGED <<ledger, adrift>>
    PROVE  /\ \A t : Done(t)' <=> Done(t)
           /\ \A r, x : Touched(r, x)' <=> Touched(r, x)
           /\ Around' \subseteq Around =>
                 /\ \A r, x : Mentioned(r, x)' => Mentioned(r, x)
                 /\ \A r : Valued(r) => Valued(r)'
  <1>1. UNCHANGED <<accounts, priced, config, feed, adrift>>
    BY DEF ledger
  <1>2. \A t : Done(t)' <=> Done(t)
    BY <1>1 DEF Done
  <1>3. \A r, x : Touched(r, x)' <=> Touched(r, x)
    BY <1>1 DEF Touched
  <1>4. ASSUME Around' \subseteq Around
        PROVE  /\ \A r, x : Mentioned(r, x)' => Mentioned(r, x)
               /\ \A r : Valued(r) => Valued(r)'
    BY <1>1, <1>4 DEF Mentioned, Valued
  <1>5. QED
    BY <1>2, <1>3, <1>4

LEMMA EndInv ==
    ASSUME MSInv, Exit, UNCHANGED <<ledger, adrift>>, TypeInv', Reported', NamedMarketExists',
           Claims' \subseteq Claims, Others' \subseteq Others
    PROVE  MSInv'
  <1>1. script' = "none" /\ plan' = <<>> /\ output' = NoFile /\ Sends(plan') = {}
    BY SendsEmpty DEF Exit
  <1>2. Around' \subseteq Around
    BY <1>1 DEF Around
  <1>3. Own' /\ Apart' /\ PlanFits(script, output, plan)' /\ NoNames'
    BY <1>1, <1>2, LedgerKept, NothingAdded DEF MSInv
  <1>4. Promises' /\ InOrder' /\ LimitsToCome' /\ Quiet'
    BY <1>1, ScriptsOver DEF Quiet
  <1>5. Ready'
    BY <1>2, LedgerKept DEF MSInv, Ready
  <1>6. MarketsExist'
    <2>1. accounts' = accounts /\ adrift' = adrift
      BY DEF ledger
    <2>2. QED
      BY <1>1, <2>1 DEF MSInv, MarketsExist
  <1>7. QED
    BY <1>3, <1>4, <1>5, <1>6 DEF MSInv

LEMMA AbortInv ==
    ASSUME MSInv, Abort
    PROVE  MSInv'
  <1>1. /\ Exit /\ Fault /\ UNCHANGED <<ledger, files, adrift, runs>>
        /\ script' = "none" /\ plan' = <<>> /\ output' = NoFile
    BY DEF Abort, Exit
  <1>2. TypeInv'
    <2>1. LedgerType'
      BY <1>1, LedgerTyped DEF MSInv, ledger, LedgerType
    <2>2. faults' \in 0 .. MaxFaults /\ runs' \in 0 .. MaxRuns /\ adrift' \subseteq GoodTxs
      BY <1>1, MarketAssumption DEF MarketAssumption, Fault, MSInv, TypeInv, MSTypeOK
    <2>3. QED
      BY <1>1, <2>1, <2>2, TypeFromLedger, SendsEmpty, NoFileType DEF MSInv
  <1>3. Claims' \subseteq Claims /\ Others' \subseteq Others
    BY <1>1, ClaimsStay
  <1>4. Reported'
    <2>1. reserve_file' = reserve_file
      BY <1>1 DEF files
    <2>2. QED
      BY <1>1, <2>1, LedgerKept DEF MSInv, Reported, Promised, ClaimsOf
  <1>5. NamedMarketExists'
    BY <1>1 DEF MSInv, MarketsExist, NamedMarketExists, ledger, files
  <1>6. QED
    BY <1>1, <1>2, <1>3, <1>4, <1>5, EndInv

\* A script that saves has kept its promise: what it reports is there.
LEMMA SaveInv ==
    ASSUME MSInv, Save
    PROVE  MSInv'
  <1>1. /\ script # "none" /\ plan = <<>> /\ Exit /\ UNCHANGED <<ledger, adrift, faults, runs>>
        /\ script' = "none" /\ plan' = <<>> /\ output' = NoFile
    BY DEF Save, Exit
  <1>2. /\ oracles_file' \in {oracles_file, output.borrow_oracle}
        /\ deployment' \in {deployment, output.borrow_oracle}
        /\ \/ market_file' = market_file
           \/ script \in {"market", "complete"} /\ market_file' = output
        /\ \/ local_file' = local_file
           \/ script = "localnet" /\ local_file' = output
        /\ \/ reserve_file' = reserve_file
           \/ script \in Reporting /\ reserve_file' = [reserve_file EXCEPT ![script] = output]
    BY DEF Save
  <1>3. /\ TypeInv /\ output \in FileSet /\ output.borrow_oracle \in Known
        /\ reserve_file \in [Reporting -> FileSet]
        /\ market_file \in FileSet /\ local_file \in FileSet
    BY DEF MSInv, TypeInv, FileSet
  <1>4. /\ reserve_file' \in [Reporting -> FileSet]
        /\ \A s \in Reporting : \/ reserve_file'[s] = reserve_file[s]
                                \/ s = script /\ reserve_file'[s] = output
    BY <1>2, <1>3
  <1>5. \A t \in Promised(script, output) : Done(t)
    BY <1>1, SendsEmpty DEF MSInv, Promises
  <1>6. TypeInv'
    <2>1. LedgerType' /\ faults' = faults /\ runs' = runs /\ adrift' = adrift
      BY <1>1, <1>3, LedgerTyped DEF ledger, LedgerType
    <2>2. {oracles_file, deployment}' \subseteq Known
      BY <1>2, <1>3 DEF TypeInv, MSTypeOK
    <2>3. MSTypeOK'
      BY <1>1, <1>3, <2>1, <2>2 DEF TypeInv, MSTypeOK, LedgerType
    <2>4. QED
      BY <1>1, <1>2, <1>3, <1>4, <2>1, <2>3, SendsEmpty, NoFileType DEF TypeInv
  <1>7. Claims' \subseteq Claims
    <2>1. ASSUME NEW s \in Reporting PROVE ClaimsOf(reserve_file[s])' \subseteq Claims
      BY <1>4, <2>1 DEF Claims, ClaimsOf
    <2>2. script' \notin Reporting
      BY <1>1 DEF Reporting, Strict
    <2>3. QED
      BY <2>1, <2>2 DEF Claims
  <1>8. Others' \subseteq Others
    BY <1>1, <1>2 DEF Others
  <1>9. Reported'
    <2>1. SUFFICES ASSUME NEW s \in Reporting, reserve_file'[s] # NoFile,
                          NEW t \in Promised(s, reserve_file'[s])
                   PROVE  Done(t)'
      BY DEF Reported, Promised, ClaimsOf
    <2>2. Done(t)
      BY <1>4, <1>5, <2>1 DEF MSInv, Reported
    <2>3. QED
      BY <1>1, <2>2, LedgerKept
  <1>10. NamedMarketExists'
    <2>1. script \in {"market", "localnet"} => output.market \in accounts
      <3>1. ASSUME script \in {"market", "localnet"} PROVE Done(InitMarket(output.market))
        BY <1>5, <3>1 DEF Promised, Strict
      <3>2. QED
        BY <3>1 DEF Done, InitMarket, Tx
    <2>2. script = "complete" => output.market \in accounts \cup {NoAddress}
      BY DEF MSInv, MarketsExist
    <2>3. {pool.market, market_file.market, local_file.market} \subseteq accounts \cup {NoAddress}
      BY DEF MSInv, MarketsExist, NamedMarketExists
    <2>4. pool' = pool /\ accounts' = accounts
      BY <1>1 DEF ledger
    <2>5. QED
      BY <1>2, <2>1, <2>2, <2>3, <2>4 DEF NamedMarketExists
  <1>11. QED
    BY <1>1, <1>6, <1>7, <1>8, <1>9, <1>10, EndInv

-----------------------------------------------------------------------------
(* complete-devnet-setup looks around *)

LEMMA FreshNowhere ==
    ASSUME TypeInv, NEW g \in Fresh
    PROVE  /\ g \in Addresses /\ g # NoAddress /\ g \notin accounts
           /\ \A tx \in Around : g \notin AddressesOf(tx)
           /\ \A x : ~Mentioned(g, x) /\ ~Touched(g, x)
           /\ \A c \in Claims : c[1] # g /\ c[2] # g
           /\ g \notin Others
           /\ g \notin {oracles_file, deployment, market_file.market}
  <1>1. g \in Addresses /\ g # NoAddress /\ g \notin accounts
    BY KnownAddresses DEF Fresh, Used
  <1>2. \A tx \in Around : g \notin AddressesOf(tx)
    BY DEF Fresh, Used, Around, Sends
  <1>3. \A x : ~Mentioned(g, x)
    <2>1. \A tx \in Around : tx.at # g
      BY <1>2 DEF AddressesOf
    <2>2. \A x : <<g, x>> \notin config
      BY <1>1 DEF TypeInv, MSTypeOK
    <2>3. QED
      BY <2>1, <2>2 DEF Mentioned, IsUpdate
  <1>4. \A x : ~Touched(g, x)
    BY <1>3 DEF Mentioned, Touched, Around
  <1>5. \A c \in Claims : c[1] # g /\ c[2] # g
    <2>1. \A s \in Reporting : g \notin InFile(reserve_file[s])
      BY DEF Fresh, Used
    <2>2. g \notin InFile(output)
      BY DEF Fresh, Used
    <2>3. QED
      BY <2>1, <2>2 DEF Claims, ClaimsOf, InFile
  <1>6. g \notin Others /\ g \notin {oracles_file, deployment, market_file.market}
    BY DEF Fresh, Used, Others, InFile
  <1>7. QED
    BY <1>1, <1>2, <1>3, <1>4, <1>5, <1>6

LEMMA FieldLists ==
    /\ CompleteFields \in Seq(FieldSet \ {"name"})
    /\ <<"oracle", "ltv", "threshold", "deposit_limit", "borrow_limit">>
         \in Seq(FieldSet \ {"name"})
    /\ PanelFields \in Seq(FieldSet \ {"curve"})
    /\ Fields \in Seq(FieldSet)
  <1>1. CompleteFields \in Seq(FieldSet \ {"name"})
    BY FieldNames DEF CompleteFields
  <1>2. <<"oracle", "ltv", "threshold", "deposit_limit", "borrow_limit">>
         \in Seq(FieldSet \ {"name"})
    BY FieldNames
  <1>3. PanelFields \in Seq(FieldSet \ {"curve"})
    BY FieldNames DEF PanelFields
  <1>4. Fields \in Seq(FieldSet)
    BY FieldNames DEF Fields
  <1>5. QED
    BY <1>1, <1>2, <1>3, <1>4

LEMMA UpdateGood ==
    ASSUME NEW r \in Addresses, NEW o \in Known, NEW x \in FieldSet
    PROVE  /\ Update(r, x, o) \in GoodTxs
           /\ Must(Update(r, x, o)) \in Steps /\ Try(Update(r, x, o)) \in Steps
  <1>1. Update(r, x, o) \in GoodTxs
    BY KnownAddresses DEF Update, Tx, GoodTxs, Txs, Dos, Creating
  <1>2. QED
    BY <1>1 DEF Must, Try, Steps

LEMMA UpdatesSend ==
    ASSUME NEW r \in Addresses, NEW o \in Known, NEW F \in SUBSET FieldSet,
           NEW fields \in Seq(F)
    PROVE  /\ Updates(r, o, fields) \in Seq(Steps)
           /\ \A st \in Sends(Updates(r, o, fields)) :
                 \E x \in F : st = Try(Update(r, x, o))
  <1> DEFINE u == Updates(r, o, fields)
             n == Len(fields)
  <1>1. n \in Nat /\ DOMAIN fields = 1 .. n /\ \A i \in 1 .. n : fields[i] \in F
    BY LenProperties, ElementOfSeq
  <1>2. DOMAIN u = 1 .. n /\ u = [i \in 1 .. n |-> Try(Update(r, fields[i], o))]
    BY <1>1 DEF Updates
  <1>3. \A i \in 1 .. n : Try(Update(r, fields[i], o)) \in Steps
    BY <1>1, UpdateGood
  <1> HIDE DEF n
  <1>4. u \in [1 .. n -> Steps]
    BY <1>2, <1>3
  <1>5. u \in Seq(Steps)
    BY <1>1, <1>4, SeqDef
  <1>6. \A st \in Sends(u) : \E x \in F : st = Try(Update(r, x, o))
    <2>1. SUFFICES ASSUME NEW i \in 1 .. n
                   PROVE  \E x \in F : u[i] = Try(Update(r, x, o))
      BY <1>2 DEF Sends
    <2>2. u[i] = Try(Update(r, fields[i], o)) /\ fields[i] \in F
      BY <1>1, <1>2
    <2>3. QED
      BY <2>2
  <1>7. QED
    BY <1>5, <1>6

LEMMA StepsGood ==
    /\ \A do \in Looks \cup {"initialize_pool", "add_participant", "mint_wrapped"} :
          Simple(do) \in GoodTxs /\ Try(Simple(do)) \in Steps
    /\ \A a \in Addresses, m \in Known, x \in {"", "wrapped"} :
          /\ Tx("init_reserve", a, m, x, NoAddress) \in GoodTxs
          /\ Must(Tx("init_reserve", a, m, x, NoAddress)) \in Steps
          /\ Try(Tx("init_reserve", a, m, x, NoAddress)) \in Steps
    /\ \A a \in Addresses, do \in {"create_oracle", "write_oracle", "init_market",
                                   "init_local_pool", "list_locally", "mint_locally"} :
          /\ Tx(do, a, NoAddress, "", NoAddress) \in GoodTxs
          /\ Must(Tx(do, a, NoAddress, "", NoAddress)) \in Steps
          /\ Try(Tx(do, a, NoAddress, "", NoAddress)) \in Steps
    /\ \A m, c, b \in Known : Register(m, c, b) \in GoodTxs /\ Try(Register(m, c, b)) \in Steps
    /\ \A a, o \in Known : Refresh(a, o) \in GoodTxs /\ Must(Refresh(a, o)) \in Steps
  <1>1. \A tx \in GoodTxs : Must(tx) \in Steps /\ Try(tx) \in Steps
    BY DEF Must, Try, Steps
  <1>2. ASSUME NEW do \in Looks \cup {"initialize_pool", "add_participant", "mint_wrapped"}
        PROVE  Simple(do) \in GoodTxs
    BY <1>2, KnownAddresses DEF Simple, Tx, GoodTxs, Txs, Dos, Looks, Creating
  <1>3. ASSUME NEW a \in Addresses, NEW m \in Known, NEW x \in {"", "wrapped"}
        PROVE  Tx("init_reserve", a, m, x, NoAddress) \in GoodTxs
    BY <1>3, KnownAddresses DEF Tx, GoodTxs, Txs, Dos, Creating
  <1>4. ASSUME NEW a \in Addresses,
               NEW do \in {"create_oracle", "write_oracle", "init_market",
                           "init_local_pool", "list_locally", "mint_locally"}
        PROVE  Tx(do, a, NoAddress, "", NoAddress) \in GoodTxs
    BY <1>4, KnownAddresses DEF Tx, GoodTxs, Txs, Dos, Creating
  <1>5. ASSUME NEW m \in Known, NEW c \in Known, NEW b \in Known
        PROVE  Register(m, c, b) \in GoodTxs
    BY <1>5, KnownAddresses DEF Register, Tx, GoodTxs, Txs, Dos, Creating
  <1>6. ASSUME NEW a \in Known, NEW o \in Known
        PROVE  Refresh(a, o) \in GoodTxs
    BY <1>6, KnownAddresses DEF Refresh, Tx, GoodTxs, Txs, Dos, Creating
  <1>7. QED
    BY <1>1, <1>2, <1>3, <1>4, <1>5, <1>6

\* What complete-devnet-setup adds to its plan.
LEMMA DecideSends ==
    ASSUME MSInv, script = "complete", Left(1), NEW what \in Looks
    PROVE  /\ Decide(what) \in Seq(Steps)
           /\ \A st \in Sends(Decide(what)) :
                 /\ ~st.must /\ st.tx.do \notin Looks \cup {"register"}
                 /\ st.tx.do = "update" =>
                       st.tx.at \in Others \ {NoAddress} /\ st.tx.field # "name"
  <1> DEFINE Goal(d) == /\ d \in Seq(Steps)
                        /\ \A st \in Sends(d) :
                              /\ ~st.must /\ st.tx.do \notin Looks \cup {"register"}
                              /\ st.tx.do = "update" =>
                                    st.tx.at \in Others \ {NoAddress} /\ st.tx.field # "name"
  <1>1. /\ accounts \subseteq Addresses /\ {deployment, LiveFeed} \subseteq Known
        /\ market_file.market \in Known
    BY KnownAddresses DEF MSInv, TypeInv, MSTypeOK, FileSet
  <1>2. Goal(<<>>)
    BY SendsEmpty
  <1>3. ASSUME NEW tx, Try(tx) \in Steps, tx.do \notin Looks \cup {"register", "update"}
        PROVE  Goal(<<Try(tx)>>)
    <2>1. ~Try(tx).must /\ Try(tx).tx = tx
      BY DEF Try
    <2>2. <<Try(tx)>> \in Seq(Steps) /\ Sends(<<Try(tx)>>) = {Try(tx)}
      BY <1>3, SendsOne
    <2>3. QED
      BY <1>3, <2>1, <2>2
  <1>4. ASSUME NEW r \in accounts, r \in Others, NEW o \in {deployment, LiveFeed}
        PROVE  Goal(Updates(r, o, CompleteFields))
    <2>1. /\ Updates(r, o, CompleteFields) \in Seq(Steps)
          /\ \A st \in Sends(Updates(r, o, CompleteFields)) :
                \E x \in FieldSet \ {"name"} : st = Try(Update(r, x, o))
      <3>1. r \in Addresses /\ o \in Known /\ FieldSet \ {"name"} \in SUBSET FieldSet
        BY <1>1, <1>4
      <3>2. CompleteFields \in Seq(FieldSet \ {"name"})
        BY FieldLists
      <3>3. QED
        BY <3>1, <3>2, UpdatesSend
    <2>2. \A x \in FieldSet \ {"name"} :
             /\ ~Try(Update(r, x, o)).must /\ Try(Update(r, x, o)).tx.do = "update"
             /\ Try(Update(r, x, o)).tx.at = r /\ Try(Update(r, x, o)).tx.field # "name"
      BY DEF Try, Update, Tx
    <2>3. r # NoAddress
      BY <1>1, <1>4, KnownAddresses
    <2>4. ASSUME NEW st \in Sends(Updates(r, o, CompleteFields))
          PROVE  /\ ~st.must /\ st.tx.do = "update" /\ st.tx.at = r /\ st.tx.field # "name"
      BY <2>1, <2>2, <2>4
    <2>5. "update" \notin Looks \cup {"register"}
      BY DEF Looks
    <2>6. QED
      BY <1>4, <2>1, <2>3, <2>4, <2>5
  <1> HIDE DEF Goal
  <1>5. CASE what = "look_borrow"
    <2>1. market_file.borrow \in Others
      BY DEF Others
    <2>2. Goal(IF market_file.borrow \in accounts
               THEN Updates(market_file.borrow, deployment, CompleteFields) ELSE <<>>)
      BY <1>2, <1>4, <2>1
    <2>3. QED
      BY <1>5, <2>2 DEF Decide, Goal
  <1>6. CASE what = "look_entry"
    <2>1. Goal(<<Try(Simple("add_participant"))>>)
      <3>1. Try(Simple("add_participant")) \in Steps
        BY StepsGood
      <3>2. Simple("add_participant").do \notin Looks \cup {"register", "update"}
        BY DEF Simple, Tx, Looks
      <3>3. QED
        BY <1>3, <3>1, <3>2
    <2>2. Goal(IF listed THEN <<>> ELSE <<Try(Simple("add_participant"))>>)
      BY <1>2, <2>1
    <2>3. QED
      BY <1>6, <2>2 DEF Decide, Goal
  <1>7. CASE what = "look_collateral"
    <2> DEFINE tx == InitWrappedReserve(Generated(1), market_file.market)
    <2>1. Generated(1) \in Addresses
      BY GeneratedFresh DEF Fresh
    <2>2. Try(tx) \in Steps
      BY <1>1, <2>1, StepsGood DEF InitWrappedReserve
    <2>3. tx.do \notin Looks \cup {"register", "update"}
      BY DEF InitWrappedReserve, Tx, Looks
    <2>4. Goal(<<Try(tx)>>)
      BY <1>3, <2>2, <2>3
    <2>5. Goal(IF CollateralExists THEN <<>> ELSE <<Try(tx)>>)
      BY <1>2, <2>4
    <2>6. QED
      BY <1>7, <2>5 DEF Decide, Goal
  <1>8. CASE what = "look_configure"
    <2>1. output.collateral \in Others
      BY DEF Others
    <2>2. Goal(IF output.collateral \in accounts
               THEN Updates(output.collateral, LiveFeed, CompleteFields) ELSE <<>>)
      BY <1>2, <1>4, <2>1
    <2>3. QED
      BY <1>8, <2>2 DEF Decide, Goal
  <1>9. QED
    BY <1>5, <1>6, <1>7, <1>8 DEF Looks, Goal

LEMMA LookAroundInv ==
    ASSUME MSInv, LookAround
    PROVE  MSInv'
  <1> DEFINE what == Head(plan).tx.do
             d == Decide(what)
             g == Generated(1)
  <1>1. /\ plan # <<>> /\ what \in Looks /\ Left(1) /\ plan' = d \o Tail(plan)
        /\ \/ output' = output
           \/ output' = [output EXCEPT !.collateral = g]
        /\ UNCHANGED <<ledger, files, script, adrift, faults, runs>>
    BY DEF LookAround
  <1>2. /\ TypeInv /\ plan \in Seq(Steps) /\ Head(plan) \in Sends(plan)
        /\ Tail(plan) \in Seq(Steps) /\ Sends(Tail(plan)) \subseteq Sends(plan)
    BY <1>1, SendsTail DEF MSInv, TypeInv
  <1>3. script = "complete"
    BY <1>1, <1>2 DEF MSInv, PlanFits
  <1>4. /\ d \in Seq(Steps)
        /\ \A st \in Sends(d) :
              /\ ~st.must /\ st.tx.do \notin Looks \cup {"register"}
              /\ st.tx.do = "update" => st.tx.at \in Others \ {NoAddress} /\ st.tx.field # "name"
    BY <1>1, <1>3, DecideSends
  <1>5. g \in Fresh
    BY <1>1, GeneratedFresh
  <1> HIDE DEF what, d, g
  <1>6. /\ plan' \in Seq(Steps) /\ Sends(plan') \subseteq Sends(d) \cup Sends(plan)
    BY <1>1, <1>2, <1>4, SendsConcat
  <1>7. /\ output' \in FileSet /\ output'.market = output.market /\ output'.borrow = output.borrow
        /\ output'.collateral \in {output.collateral, g}
    <2>1. output \in FileSet /\ g \in Known
      BY <1>2, <1>5, FreshNowhere, KnownAddresses DEF TypeInv
    <2>2. QED
      BY <1>1, <2>1 DEF FileSet
  <1>8. script \notin Reporting /\ script # "none"
    BY <1>3 DEF Reporting, Strict
  <1>9. Claims' = Claims
    BY <1>1, <1>8 DEF Claims, ClaimsOf, files
  <1>10. Others' \subseteq Others \cup {g}
    BY <1>1, <1>3, <1>7 DEF Others, files
  <1>11. \A tx \in Around' : \/ tx \in Around
                             \/ tx.do = "update" => tx.at \in Others \ {NoAddress} /\ tx.field # "name"
    BY <1>1, <1>4, <1>6 DEF Around
  <1>12. \A r : Mentioned(r, "name")' => Mentioned(r, "name")
    <2>1. config' = config
      BY <1>1 DEF ledger
    <2>2. QED
      BY <1>11, <2>1 DEF Mentioned, IsUpdate
  <1>13. TypeInv'
    <2>1. LedgerType'
      BY <1>1, <1>2, LedgerTyped DEF ledger, LedgerType
    <2>2. /\ faults' \in 0 .. MaxFaults /\ runs' \in 0 .. MaxRuns /\ adrift' \subseteq GoodTxs
          /\ script' \in Scripts \cup {"none"}
      BY <1>1, <1>2 DEF TypeInv, MSTypeOK
    <2>3. QED
      BY <1>1, <1>2, <1>6, <1>7, <2>1, <2>2, TypeFromLedger
  <1>14. PlanFits(script, output, plan)'
    <2>1. "complete" \notin Strict /\ "complete" # "market" /\ "complete" # "panel"
      BY DEF Strict
    <2>2. \A st \in Sends(plan') : st.tx.do # "register"
      BY <1>3, <1>4, <1>6 DEF MSInv, PlanFits
    <2>3. QED
      BY <1>1, <1>3, <2>1, <2>2 DEF PlanFits
  <1>15. Own'
    <2>1. SUFFICES ASSUME NEW tx \in Around', NEW c \in Claims, IsUpdate(tx, c[1], "oracle")
                   PROVE  tx.value = c[2]
      BY <1>9 DEF Own
    <2>2. CASE tx \in Around
      BY <2>1, <2>2 DEF MSInv, Own
    <2>3. CASE tx.at \in Others \ {NoAddress}
      BY <2>1, <2>3 DEF MSInv, Apart, IsUpdate
    <2>4. QED
      BY <1>11, <2>1, <2>2, <2>3 DEF IsUpdate
  <1>16. Apart'
    BY <1>2, <1>5, <1>9, <1>10, FreshNowhere DEF MSInv, Apart
  <1>17. NoNames'
    <2>1. \A r \in Others' \ {NoAddress} : ~Mentioned(r, "name")'
      BY <1>2, <1>5, <1>10, <1>12, FreshNowhere DEF MSInv, NoNames
    <2>2. ASSUME NEW st \in Sends(plan'), st.tx.do = "update"
          PROVE  ~Mentioned(st.tx.at, "name")
      BY <1>4, <1>6, <1>8, <2>2 DEF MSInv, NoNames
    <2>3. QED
      BY <1>1, <1>3, <1>12, <2>1, <2>2 DEF NoNames
  <1>18. Promises' /\ InOrder' /\ LimitsToCome' /\ Quiet'
    BY <1>1, <1>3 DEF Promises, Promised, Strict, InOrder, LimitsToCome, Quiet
  <1>19. Ready'
    <2>1. SUFFICES ASSUME NEW r \in Addresses, \A x \in Marks : Touched(r, x)
                   PROVE  Valued(r)'
      BY <1>1, LedgerKept DEF Ready
    <2>2. Valued(r) /\ Mentioned(r, "name")
      <3>1. Touched(r, "name")
        BY <2>1 DEF Marks
      <3>2. QED
        BY <2>1, <3>1 DEF MSInv, Ready, Touched, Mentioned, Around
    <2>3. r \notin Others \ {NoAddress}
      BY <2>2 DEF MSInv, NoNames
    <2>4. \A tx \in Around' : IsUpdate(tx, r, "oracle") => tx \in Around
      BY <1>11, <2>3 DEF IsUpdate
    <2>5. UNCHANGED <<config, feed, priced>>
      BY <1>1 DEF ledger
    <2>6. QED
      BY <2>2, <2>4, <2>5 DEF Valued
  <1>20. Reported'
    <2>1. reserve_file' = reserve_file
      BY <1>1 DEF files
    <2>2. \A t : Done(t)' <=> Done(t)
      BY <1>1, LedgerKept
    <2>3. QED
      BY <2>1, <2>2 DEF MSInv, Reported, Promised, ClaimsOf
  <1>21. MarketsExist'
    BY <1>1, <1>3, <1>7 DEF MSInv, MarketsExist, NamedMarketExists, ledger, files
  <1>22. QED
    BY <1>13, <1>14, <1>15, <1>16, <1>17, <1>18, <1>19, <1>20, <1>21 DEF MSInv

-----------------------------------------------------------------------------
(* Scripts that start *)

\* A plan that fits its script, for reserves of its own.
Proper(s, steps, result) ==
    /\ s \in Scripts /\ steps \in Seq(Steps) /\ result \in FileSet
    /\ PlanFits(s, result, steps)
    /\ \A t \in Promised(s, result) : Must(t) \in Sends(steps)
    /\ s \in Strict \cup {"market"} => Ordered(steps)
    /\ \A st \in Sends(steps) : st.tx.do = "update" =>
          /\ st.tx.at \in Fresh
          /\ s \notin Reporting => st.tx.field # "name"
          /\ s = "panel" => st.tx.field # "curve"
    /\ s \in Reporting => \A c \in ClaimsOf(result) :
          /\ c[1] \in Fresh \cup {NoAddress}
          /\ \A st \in Sends(steps) : IsUpdate(st.tx, c[1], "oracle") => st.tx.value = c[2]
    /\ s \in {"market", "complete", "localnet"} =>
          {result.borrow, result.collateral}
              \subseteq Fresh \cup Others \cup {NoAddress}
    /\ s = "complete" => result.market \in accounts \cup {NoAddress}

LEMMA StartInv ==
    ASSUME MSInv, NEW s, NEW steps, NEW result, Start(s, steps, result),
           Proper(s, steps, result), runs' \in 0 .. MaxRuns
    PROVE  MSInv'
  <1>1. /\ script = "none" /\ script' = s /\ plan' = steps /\ output' = result
        /\ UNCHANGED <<ledger, files, adrift, faults>>
        /\ UNCHANGED <<ledger, adrift>>
        /\ s \in Scripts /\ s # "none" /\ steps \in Seq(Steps) /\ result \in FileSet
    BY DEF Start, Proper, Scripts, Reporting, Strict
  <1>2. /\ TypeInv /\ plan = <<>> /\ Sends(plan) = {} /\ script \notin Reporting
        /\ Around = adrift /\ Around' = adrift \cup {st.tx : st \in Sends(steps)}
    BY <1>1, SendsEmpty DEF MSInv, Quiet, Around, Reporting, Strict
  <1>3. /\ UNCHANGED <<accounts, priced, config, feed, pool, market_file, local_file, reserve_file>>
        /\ \A r, x : Touched(r, x)' <=> Touched(r, x)
        /\ \A t : Done(t)' <=> Done(t)
    BY <1>1, LedgerKept DEF ledger, files
  <1>4. Claims' = Claims \cup (IF s \in Reporting THEN ClaimsOf(result) ELSE {})
    <2>1. Claims = UNION {ClaimsOf(reserve_file[q]) : q \in Reporting}
      BY <1>2 DEF Claims
    <2>2. QED
      BY <1>1, <1>3, <2>1 DEF Claims, ClaimsOf
  <1>5. /\ Others = {market_file.borrow, market_file.collateral}
        /\ Others' = Others \cup (IF s \in {"market", "complete", "localnet"}
                                  THEN {result.borrow, result.collateral} ELSE {})
    BY <1>1, <1>3 DEF Others
  <1>6. /\ Others' \subseteq Others \cup Fresh \cup {NoAddress}
        /\ s \in Reporting => Others' = Others
    BY <1>5 DEF Proper, Reporting, Strict
  <1>7. \A st \in Sends(steps) : st.tx.do = "update" =>
           /\ st.tx.at \in Fresh
           /\ s \notin Reporting => st.tx.field # "name"
           /\ s = "panel" => st.tx.field # "curve"
    BY DEF Proper
  <1>8. s \in Reporting => \A c \in ClaimsOf(result) :
          /\ c[1] \in Fresh \cup {NoAddress}
          /\ \A st \in Sends(steps) : IsUpdate(st.tx, c[1], "oracle") => st.tx.value = c[2]
    BY DEF Proper
  <1>9. \A r, x : Mentioned(r, x)' =>
           \/ Mentioned(r, x)
           \/ r \in Fresh /\ \E st \in Sends(steps) : IsUpdate(st.tx, r, x)
    BY <1>2, <1>3, <1>7 DEF Mentioned, IsUpdate
  <1>10. ASSUME NEW g \in Fresh
         PROVE  /\ g \in Addresses /\ g # NoAddress /\ g \notin Others
                /\ \A tx \in adrift : tx.at # g
                /\ \A x : ~Mentioned(g, x) /\ ~Touched(g, x)
                /\ \A c \in Claims : c[1] # g
    BY <1>2, <1>10, FreshNowhere DEF AddressesOf
  <1>11. \A tx \in adrift : tx.do = "update" => tx.at # NoAddress
    BY <1>2, GoodTx, KnownAddresses DEF TypeInv
  <1>12. TypeInv'
    <2>1. LedgerType'
      BY <1>1, <1>2, LedgerTyped DEF ledger, LedgerType
    <2>2. faults' \in 0 .. MaxFaults /\ adrift' \subseteq GoodTxs /\ script' \in Scripts
      BY <1>1, <1>2 DEF TypeInv, MSTypeOK
    <2>3. QED
      BY <1>1, <1>2, <2>1, <2>2, TypeFromLedger
  <1>13. Quiet' /\ PlanFits(script, output, plan)' /\ Promises' /\ InOrder'
    BY <1>1 DEF Quiet, Proper, PlanFits, ClaimsOf, Promises, Promised, InOrder, Ordered
  <1>14. Own'
    <2>1. SUFFICES ASSUME NEW tx \in Around', NEW c \in Claims', IsUpdate(tx, c[1], "oracle")
                   PROVE  tx.value = c[2]
      BY DEF Own
    <2>2. CASE tx \in adrift /\ c \in Claims
      BY <1>2, <2>1, <2>2 DEF MSInv, Own
    <2>3. CASE tx \in adrift /\ s \in Reporting /\ c \in ClaimsOf(result)
      BY <1>8, <1>10, <1>11, <2>1, <2>3 DEF IsUpdate
    <2>4. CASE (\E st \in Sends(steps) : tx = st.tx) /\ c \in Claims
      BY <1>7, <1>10, <2>1, <2>4 DEF IsUpdate
    <2>5. CASE (\E st \in Sends(steps) : tx = st.tx) /\ s \in Reporting /\ c \in ClaimsOf(result)
      BY <1>8, <2>1, <2>5
    <2>6. QED
      BY <1>2, <1>4, <2>1, <2>2, <2>3, <2>4, <2>5
  <1>15. Apart'
    <2>1. SUFFICES ASSUME NEW c \in Claims', c[1] # NoAddress, c[1] \in Others'
                   PROVE  FALSE
      BY DEF Apart
    <2>2. CASE c \in Claims
      BY <1>6, <1>10, <2>1, <2>2 DEF MSInv, Apart
    <2>3. CASE s \in Reporting /\ c \in ClaimsOf(result)
      BY <1>6, <1>8, <1>10, <2>1, <2>3
    <2>4. QED
      BY <1>4, <2>1, <2>2, <2>3
  <1>16. NoNames'
    <2>1. ASSUME NEW r \in Others' \ {NoAddress} PROVE ~Mentioned(r, "name")'
      <3>1. ~Mentioned(r, "name")
        BY <1>6, <1>10, <2>1 DEF MSInv, NoNames
      <3>2. ~(r \in Fresh /\ \E st \in Sends(steps) : IsUpdate(st.tx, r, "name"))
        BY <1>6, <1>7, <1>10, <2>1 DEF IsUpdate
      <3>3. QED
        BY <1>9, <3>1, <3>2
    <2>2. ASSUME s \notin Reporting, NEW st \in Sends(steps), st.tx.do = "update"
          PROVE  ~Mentioned(st.tx.at, "name")'
      BY <1>7, <1>9, <1>10, <2>2 DEF IsUpdate
    <2>3. ASSUME s = "panel" PROVE ~Mentioned(result.collateral, "curve")'
      <3>1. s \in Reporting /\ <<result.collateral, result.collateral_oracle>> \in ClaimsOf(result)
        BY <2>3 DEF Reporting, ClaimsOf
      <3>2. result.collateral \in Fresh \cup {NoAddress}
        BY <1>8, <3>1
      <3>3. ~Mentioned(result.collateral, "curve")
        <4>1. ~Mentioned(NoAddress, "curve")
          BY <1>2, <1>11, KnownAddresses DEF Mentioned, IsUpdate, TypeInv, MSTypeOK
        <4>2. QED
          BY <1>10, <3>2, <4>1
      <3>4. ~\E st \in Sends(steps) : IsUpdate(st.tx, result.collateral, "curve")
        BY <1>7, <2>3 DEF IsUpdate
      <3>5. QED
        BY <1>9, <3>3, <3>4
    <2>4. QED
      BY <1>1, <2>1, <2>2, <2>3 DEF NoNames
  <1>17. LimitsToCome'
    BY <1>1, <1>3, <1>7, <1>10 DEF LimitsToCome
  <1>18. Ready'
    <2>1. SUFFICES ASSUME NEW r \in Addresses, \A x \in Marks : Touched(r, x)
                   PROVE  Valued(r)'
      BY <1>3 DEF Ready
    <2>2. Valued(r) /\ r \notin Fresh
      <3>1. Touched(r, "name")
        BY <2>1 DEF Marks
      <3>2. QED
        BY <1>10, <2>1, <3>1 DEF MSInv, Ready
    <2>3. \A tx \in Around' : IsUpdate(tx, r, "oracle") => tx \in Around
      BY <1>2, <1>7, <2>2 DEF IsUpdate
    <2>4. QED
      BY <1>3, <2>2, <2>3 DEF Valued
  <1>19. Reported'
    BY <1>3 DEF MSInv, Reported, Promised, ClaimsOf
  <1>20. MarketsExist'
    BY <1>1, <1>3 DEF Proper, MSInv, MarketsExist, NamedMarketExists
  <1>21. QED
    BY <1>12, <1>13, <1>14, <1>15, <1>16, <1>17, <1>18, <1>19, <1>20 DEF MSInv

LEMMA SendsTwo ==
    ASSUME NEW a \in Steps, NEW b \in Steps, ~MustPrecede(b.tx, a.tx)
    PROVE  <<a, b>> \in Seq(Steps) /\ Sends(<<a, b>>) = {a, b} /\ Ordered(<<a, b>>)
  <1> DEFINE p == <<a, b>>
  <1>1. p \in Seq(Steps) /\ DOMAIN p = 1 .. 2 /\ p[1] = a /\ p[2] = b
    OBVIOUS
  <1> HIDE DEF p
  <1>2. DOMAIN p = {1, 2}
    BY <1>1
  <1>3. Sends(p) = {a, b}
    BY <1>1, <1>2 DEF Sends
  <1>4. Ordered(p)
    BY <1>1, <1>2 DEF Ordered
  <1>5. QED
    BY <1>1, <1>3, <1>4 DEF p

\* Only what limits a reserve or registers a market must come after anything.
LEMMA NothingPrecedes ==
    ASSUME NEW x, NEW y,
           x.do # "register", x.do = "update" => x.field # "deposit_limit"
    PROVE  ~MustPrecede(y, x)
  BY DEF MustPrecede

LEMMA OracleSends ==
    ASSUME NEW o \in Addresses
    PROVE  /\ createOracle(o) \in Seq(Steps) /\ Ordered(createOracle(o))
           /\ Sends(createOracle(o)) = {Must(CreateOracle(o)), Must(WriteOracle(o))}
  <1>1. Must(CreateOracle(o)) \in Steps /\ Must(WriteOracle(o)) \in Steps
    BY StepsGood DEF CreateOracle, WriteOracle
  <1>2. ~MustPrecede(Must(WriteOracle(o)).tx, Must(CreateOracle(o)).tx)
    BY DEF MustPrecede, Must, CreateOracle, Tx
  <1>3. QED
    BY <1>1, <1>2, SendsTwo DEF createOracle

LEMMA ConfigureSends ==
    ASSUME NEW r \in Addresses, NEW o \in Known
    PROVE  /\ configureReserve(r, o) \in Seq(Steps)
           /\ Sends(configureReserve(r, o)) = {Must(Update(r, x, o)) : x \in FieldSet}
           /\ Ordered(configureReserve(r, o))
  <1> DEFINE u == configureReserve(r, o)
  <1>1. DOMAIN Fields = 1 .. 11 /\ \A i \in 1 .. 11 : Fields[i] \in FieldSet
    BY DEF Fields, FieldSet
  <1>2. u = [i \in 1 .. 11 |-> Must(Update(r, Fields[i], o))]
    BY <1>1 DEF configureReserve
  <1>3. u \in Seq(Steps)
    <2>1. \A i \in 1 .. 11 : Must(Update(r, Fields[i], o)) \in Steps
      BY <1>1, UpdateGood
    <2>2. u \in [1 .. 11 -> Steps]
      BY <1>2, <2>1
    <2>3. QED
      BY <2>2, SeqDef
  <1>4. Sends(u) = {Must(Update(r, x, o)) : x \in FieldSet}
    <2>1. FieldSet = {Fields[i] : i \in 1 .. 11}
      BY <1>1 DEF FieldSet
    <2>2. DOMAIN u = 1 .. 11 /\ \A i \in 1 .. 11 : u[i] = Must(Update(r, Fields[i], o))
      BY <1>2
    <2>3. QED
      BY <2>1, <2>2 DEF Sends
  <1>5. Ordered(u)
    <2>1. SUFFICES ASSUME NEW i \in 1 .. 11, NEW j \in 1 .. 11, i < j
                   PROVE  ~MustPrecede(u[j].tx, u[i].tx)
      BY <1>2 DEF Ordered
    <2>2. /\ u[i].tx.do = "update" /\ u[i].tx.field = Fields[i]
          /\ u[j].tx.do = "update" /\ u[j].tx.field = Fields[j]
      BY <1>2 DEF Must, Update, Tx
    <2>3. Fields[i] = "deposit_limit" => i = 9
      BY DEF Fields
    <2>4. j > 9 => Fields[j] \in {"borrow_limit", "outside_limit"}
      BY DEF Fields
    <2>5. QED
      BY <2>1, <2>2, <2>3, <2>4 DEF MustPrecede
  <1>6. QED
    BY <1>3, <1>4, <1>5

\* What a strict script needs to start properly.
LEMMA StrictProper ==
    ASSUME NEW s \in Strict, NEW steps \in Seq(Steps), NEW result \in FileSet, Ordered(steps),
           \A c \in ClaimsOf(result) :
              /\ c[1] \in Fresh
              /\ Must(WriteOracle(c[2])) \in Sends(steps)
              /\ \A x \in FieldSet : Must(Update(c[1], x, c[2])) \in Sends(steps)
              /\ \A d \in ClaimsOf(result) : c[1] = d[1] => c[2] = d[2],
           \A st \in Sends(steps) :
              /\ st.must
              /\ \/ st.tx.do \in {"create_oracle", "write_oracle", "init_reserve"}
                 \/ \E c \in ClaimsOf(result), x \in FieldSet : st.tx = Update(c[1], x, c[2])
    PROVE  Proper(s, steps, result)
  <1>1. /\ s \in Scripts /\ s \in Reporting /\ s # "panel" /\ s # "complete"
        /\ s \notin {"market", "complete", "localnet"}
    BY DEF Scripts, Reporting, Strict
  <1>2. ASSUME NEW st \in Sends(steps), st.tx.do = "update"
        PROVE  <<st.tx.at, st.tx.value>> \in ClaimsOf(result)
    <2>1. PICK c \in ClaimsOf(result), x \in FieldSet : st.tx = Update(c[1], x, c[2])
      BY <1>2
    <2>2. st.tx.at = c[1] /\ st.tx.value = c[2] /\ c = <<c[1], c[2]>>
      BY <2>1 DEF Update, Tx, ClaimsOf
    <2>3. QED
      BY <2>2
  <1>3. ASSUME NEW st \in Sends(steps)
        PROVE  st.tx.do \notin Looks \cup {"register"}
    <2>1. st.tx.do \in {"create_oracle", "write_oracle", "init_reserve", "update"}
      <3>1. \A c \in ClaimsOf(result), x \in FieldSet : Update(c[1], x, c[2]).do = "update"
        BY DEF Update, Tx
      <3>2. QED
        BY <3>1
    <2>2. QED
      BY <2>1 DEF Looks
  <1>4. PlanFits(s, result, steps)
    BY <1>1, <1>2, <1>3 DEF PlanFits
  <1>5. \A t \in Promised(s, result) : Must(t) \in Sends(steps)
    BY <1>1 DEF Promised
  <1>6. \A st \in Sends(steps) : st.tx.do = "update" => st.tx.at \in Fresh
    BY <1>2
  <1>7. \A c \in ClaimsOf(result), st \in Sends(steps) :
            IsUpdate(st.tx, c[1], "oracle") => st.tx.value = c[2]
    BY <1>2 DEF IsUpdate
  <1>8. QED
    BY <1>1, <1>4, <1>5, <1>6, <1>7 DEF Proper

\* What creates the accounts of a strict plan, before what configures them.
LEMMA OpeningSends ==
    ASSUME NEW p \in Seq(Steps), Ordered(p), NEW q \in Seq(Steps), Ordered(q),
           \A st \in Sends(p) : st.tx.do \in {"create_oracle", "write_oracle", "init_reserve"}
    PROVE  /\ p \o q \in Seq(Steps) /\ Sends(p \o q) = Sends(p) \cup Sends(q) /\ Ordered(p \o q)
  <1>1. \A x \in Sends(p), y \in Sends(q) : ~MustPrecede(y.tx, x.tx)
    BY DEF MustPrecede
  <1>2. QED
    BY <1>1, SendsConcat

LEMMA OneReserveStarts ==
    ASSUME MSInv, replace_reserve_irm
    PROVE  MSInv'
  <1> DEFINE o == Generated(1)
             r == Generated(2)
             steps == OneReserve(o, r)
             result == ReservesFile(r, o, r, o)
             start == Must(InitReserve(r, Main))
  <1>1. Left(2) /\ Start("irm", steps, result) /\ Creates
    BY DEF replace_reserve_irm
  <1>2. o \in Fresh /\ r \in Fresh /\ o \in Addresses /\ r \in Addresses
    BY <1>1, GeneratedFresh DEF Fresh
  <1> HIDE DEF o, r
  <1>3. /\ start \in Steps /\ start.tx.do = "init_reserve" /\ start.must
    BY <1>2, StepsGood, KnownAddresses DEF InitReserve, Must, Tx
  <1>4. /\ \A a \in Addresses : /\ Must(CreateOracle(a)).must /\ Must(WriteOracle(a)).must
                                /\ Must(CreateOracle(a)).tx.do = "create_oracle"
                                /\ Must(WriteOracle(a)).tx.do = "write_oracle"
        /\ \A x \in FieldSet : Must(Update(r, x, o)).must /\ Must(Update(r, x, o)).tx = Update(r, x, o)
    BY DEF Must, CreateOracle, WriteOracle, Tx
  <1> HIDE DEF start
  <1> DEFINE p == createOracle(o) \o <<start>>
             Openings == {Must(CreateOracle(o)), Must(WriteOracle(o)), start}
  <1>5. p \in Seq(Steps) /\ Ordered(p) /\ Sends(p) = Openings
    <2>1. \A st \in Sends(createOracle(o)) : st.tx.do \in {"create_oracle", "write_oracle"}
      BY <1>2, <1>4, OracleSends
    <2>2. /\ createOracle(o) \in Seq(Steps) /\ Ordered(createOracle(o))
          /\ Sends(createOracle(o)) = {Must(CreateOracle(o)), Must(WriteOracle(o))}
      BY <1>2, OracleSends
    <2>3. <<start>> \in Seq(Steps) /\ Ordered(<<start>>) /\ Sends(<<start>>) = {start}
      BY <1>3, SendsOne
    <2> HIDE DEF start
    <2>4. QED
      BY <2>1, <2>2, <2>3, OpeningSends
  <1>6. /\ steps \in Seq(Steps) /\ Ordered(steps)
        /\ Sends(steps) = Openings \cup {Must(Update(r, x, o)) : x \in FieldSet}
    <2>1. \A st \in Sends(p) : st.tx.do \in {"create_oracle", "write_oracle", "init_reserve"}
      BY <1>2, <1>3, <1>4, <1>5
    <2>2. steps = p \o configureReserve(r, o)
      BY DEF OneReserve, start
    <2> HIDE DEF p, Openings, steps
    <2>3. QED
      BY <1>2, <1>5, <2>1, <2>2, ConfigureSends, KnownAddresses, OpeningSends
  <1>7. result \in FileSet /\ ClaimsOf(result) = {<<r, o>>}
    BY <1>2, KnownAddresses DEF ReservesFile, FileSet, ClaimsOf
  <1> HIDE DEF steps, result
  <1>8. \A st \in Sends(steps) :
            /\ st.must
            /\ \/ st.tx.do \in {"create_oracle", "write_oracle", "init_reserve"}
               \/ \E x \in FieldSet : st.tx = Update(r, x, o)
    BY <1>2, <1>3, <1>4, <1>6
  <1>9. Proper("irm", steps, result)
    <2>1. "irm" \in Strict
      BY DEF Strict
    <2>2. QED
      <3>1. \A c \in ClaimsOf(result) :
                /\ c[1] \in Fresh
                /\ Must(WriteOracle(c[2])) \in Sends(steps)
                /\ \A x \in FieldSet : Must(Update(c[1], x, c[2])) \in Sends(steps)
                /\ \A d \in ClaimsOf(result) : c[1] = d[1] => c[2] = d[2]
        BY <1>2, <1>6, <1>7
      <3>2. \A st \in Sends(steps) :
               /\ st.must
               /\ \/ st.tx.do \in {"create_oracle", "write_oracle", "init_reserve"}
                  \/ \E c \in ClaimsOf(result), x \in FieldSet : st.tx = Update(c[1], x, c[2])
        BY <1>7, <1>8
      <3>3. QED
        BY <1>6, <1>7, <2>1, <3>1, <3>2, StrictProper
  <1>10. runs' \in 0 .. MaxRuns
    BY <1>1, MarketAssumption DEF MarketAssumption, Creates, MSInv, TypeInv, MSTypeOK
  <1>11. QED
    BY <1>1, <1>9, <1>10, StartInv

LEMMA TwoReservesStart ==
    ASSUME MSInv, NEW s \in {"eusx", "fresh"}, RunTwoReserves(s)
    PROVE  MSInv'
  <1> DEFINE o1 == Generated(1)
             o2 == Generated(2)
             r1 == Generated(3)
             r2 == Generated(4)
             steps == TwoReserves(o1, o2, r1, r2)
             result == ReservesFile(r1, o1, r2, o2)
             start1 == Must(InitReserve(r1, Main))
             start2 == Must(InitReserve(r2, Main))
             Updates1 == {Must(Update(r1, x, o1)) : x \in FieldSet}
             Updates2 == {Must(Update(r2, x, o2)) : x \in FieldSet}
             Openings == {Must(CreateOracle(o1)), Must(WriteOracle(o1)),
                          Must(CreateOracle(o2)), Must(WriteOracle(o2)), start1, start2}
  <1>1. Left(4) /\ Start(s, steps, result) /\ Creates
    BY DEF RunTwoReserves
  <1>2. /\ {o1, o2, r1, r2} \subseteq Fresh /\ {o1, o2, r1, r2} \subseteq Addresses
        /\ r1 # r2
    BY <1>1, GeneratedFresh DEF Fresh
  <1> HIDE DEF o1, o2, r1, r2
  <1>3. /\ start1 \in Steps /\ start1.tx.do = "init_reserve" /\ start1.must
        /\ start2 \in Steps /\ start2.tx.do = "init_reserve" /\ start2.must
    BY <1>2, StepsGood, KnownAddresses DEF InitReserve, Must, Tx
  <1>4. /\ \A a \in Addresses : /\ Must(CreateOracle(a)).must /\ Must(WriteOracle(a)).must
                                /\ Must(CreateOracle(a)).tx.do = "create_oracle"
                                /\ Must(WriteOracle(a)).tx.do = "write_oracle"
        /\ \A r, o, x : /\ Must(Update(r, x, o)).must /\ Must(Update(r, x, o)).tx = Update(r, x, o)
                        /\ Must(Update(r, x, o)).tx.do = "update"
                        /\ Must(Update(r, x, o)).tx.at = r
    BY DEF Must, CreateOracle, WriteOracle, Update, Tx
  <1> DEFINE p1 == createOracle(o1) \o createOracle(o2)
             p2 == p1 \o <<start1, start2>>
             p3 == p2 \o configureReserve(r1, o1)
  <1>5. steps = p3 \o configureReserve(r2, o2)
    BY DEF TwoReserves
  <1> HIDE DEF start1, start2
  <1>6. /\ p1 \in Seq(Steps) /\ Ordered(p1)
        /\ Sends(p1) = {Must(CreateOracle(o1)), Must(WriteOracle(o1)),
                        Must(CreateOracle(o2)), Must(WriteOracle(o2))}
    <2>1. \A st \in Sends(createOracle(o1)) : st.tx.do \in {"create_oracle", "write_oracle"}
      BY <1>2, <1>4, OracleSends
    <2>2. QED
      BY <1>2, <2>1, OracleSends, OpeningSends
  <1> HIDE DEF p1
  <1>7. p2 \in Seq(Steps) /\ Ordered(p2) /\ Sends(p2) = Openings
    <2>1. /\ <<start1, start2>> \in Seq(Steps) /\ Ordered(<<start1, start2>>)
          /\ Sends(<<start1, start2>>) = {start1, start2}
      BY <1>3, NothingPrecedes, SendsTwo
    <2>2. \A st \in Sends(p1) : st.tx.do \in {"create_oracle", "write_oracle"}
      BY <1>2, <1>4, <1>6
    <2>3. QED
      BY <1>6, <2>1, <2>2, OpeningSends
  <1> HIDE DEF p2
  <1>8. \A st \in Openings :
            st.must /\ st.tx.do \in {"create_oracle", "write_oracle", "init_reserve"}
    BY <1>2, <1>3, <1>4
  <1> HIDE DEF Openings
  <1>9. p3 \in Seq(Steps) /\ Ordered(p3) /\ Sends(p3) = Openings \cup Updates1
    BY <1>2, <1>7, <1>8, ConfigureSends, KnownAddresses, OpeningSends
  <1> HIDE DEF p3
  <1>10. /\ steps \in Seq(Steps) /\ Ordered(steps)
         /\ Sends(steps) = Openings \cup Updates1 \cup Updates2
    <2>1. ASSUME NEW x \in Sends(p3), NEW y \in Updates2 PROVE ~MustPrecede(y.tx, x.tx)
      <3>1. y.tx.do = "update" /\ y.tx.at = r2
        BY <1>4, <2>1
      <3>2. CASE x \in Openings
        BY <1>8, <3>2 DEF MustPrecede
      <3>3. CASE x \in Updates1
        <4>1. x.tx.do = "update" /\ x.tx.at = r1
          BY <1>4, <3>3
        <4>2. QED
          BY <1>2, <3>1, <4>1 DEF MustPrecede
      <3>4. QED
        BY <1>9, <2>1, <3>2, <3>3
    <2>2. /\ configureReserve(r2, o2) \in Seq(Steps) /\ Ordered(configureReserve(r2, o2))
          /\ Sends(configureReserve(r2, o2)) = Updates2
      BY <1>2, ConfigureSends, KnownAddresses
    <2> HIDE DEF Updates1, Updates2, steps
    <2>3. QED
      BY <1>5, <1>9, <2>1, <2>2, SendsConcat
  <1>11. result \in FileSet /\ ClaimsOf(result) = {<<r1, o1>>, <<r2, o2>>}
    BY <1>2, KnownAddresses DEF ReservesFile, FileSet, ClaimsOf
  <1> HIDE DEF steps, result
  <1>12. \A st \in Sends(steps) :
            /\ st.must
            /\ \/ st.tx.do \in {"create_oracle", "write_oracle", "init_reserve"}
               \/ \E c \in ClaimsOf(result), x \in FieldSet : st.tx = Update(c[1], x, c[2])
    <2>1. ASSUME NEW st \in Updates1
          PROVE  st.must /\ \E x \in FieldSet : st.tx = Update(r1, x, o1)
      BY <1>4, <2>1
    <2>2. ASSUME NEW st \in Updates2
          PROVE  st.must /\ \E x \in FieldSet : st.tx = Update(r2, x, o2)
      BY <1>4, <2>2
    <2> HIDE DEF Updates1, Updates2
    <2>3. QED
      BY <1>8, <1>10, <1>11, <2>1, <2>2
  <1>13. \A c \in ClaimsOf(result) :
              /\ c[1] \in Fresh
              /\ Must(WriteOracle(c[2])) \in Sends(steps)
              /\ \A x \in FieldSet : Must(Update(c[1], x, c[2])) \in Sends(steps)
              /\ \A d \in ClaimsOf(result) : c[1] = d[1] => c[2] = d[2]
    BY <1>2, <1>10, <1>11 DEF Openings
  <1>14. Proper(s, steps, result)
    <2>1. s \in Strict
      BY DEF Strict
    <2>2. QED
      BY <1>10, <1>11, <1>12, <1>13, <2>1, StrictProper
  <1>15. runs' \in 0 .. MaxRuns
    BY <1>1, MarketAssumption DEF MarketAssumption, Creates, MSInv, TypeInv, MSTypeOK
  <1>16. QED
    BY <1>1, <1>14, <1>15, StartInv

LEMMA PanelStarts ==
    ASSUME MSInv, handleCreateReserve
    PROVE  MSInv'
  <1> DEFINE r == Generated(1)
             steps == PanelPlan(r)
             result == [NoFile EXCEPT !.market = Main, !.collateral = r,
                                      !.collateral_oracle = LiveFeed]
             first == Must(InitReserve(r, Main))
             last == Must(Refresh(r, LiveFeed))
             u == Updates(r, LiveFeed, PanelFields)
  <1>1. Left(1) /\ Start("panel", steps, result) /\ Creates
    BY DEF handleCreateReserve
  <1>2. r \in Fresh /\ r \in Addresses
    BY <1>1, GeneratedFresh DEF Fresh
  <1> HIDE DEF r
  <1>3. /\ first \in Steps /\ first.tx.do = "init_reserve" /\ last \in Steps
        /\ last.tx.do = "refresh"
    BY <1>2, StepsGood, KnownAddresses DEF InitReserve, Refresh, Must, Tx
  <1>4. /\ u \in Seq(Steps)
        /\ \A st \in Sends(u) : \E x \in FieldSet \ {"curve"} : st = Try(Update(r, x, LiveFeed))
    <2>1. FieldSet \ {"curve"} \in SUBSET FieldSet /\ LiveFeed \in Known
      BY KnownAddresses
    <2>2. QED
      BY <1>2, <2>1, FieldLists, UpdatesSend
  <1>5. \A st \in Sends(u) : /\ st.tx.do = "update" /\ st.tx.at = r /\ st.tx.value = LiveFeed
                             /\ st.tx.field # "curve"
    BY <1>4 DEF Try, Update, Tx
  <1>6. steps = (<<first>> \o u) \o <<last>>
    BY DEF PanelPlan
  <1>7. result.collateral = r /\ ClaimsOf(result) = {<<r, LiveFeed>>, <<NoAddress, NoAddress>>}
    BY DEF NoFile, ClaimsOf
  <1>8. Promised("panel", result) = {Refresh(r, LiveFeed)}
    BY DEF NoFile, Promised, Strict
  <1>9. result \in FileSet
    BY <1>2, KnownAddresses DEF NoFile, FileSet
  <1> HIDE DEF u, first, steps, result
  <1>10. steps \in Seq(Steps) /\ Sends(steps) = {first, last} \cup Sends(u)
    <2>1. <<first>> \in Seq(Steps) /\ Sends(<<first>>) = {first}
      BY <1>3, SendsOne
    <2>2. <<last>> \in Seq(Steps) /\ Sends(<<last>>) = {last}
      BY <1>3, SendsOne
    <2> HIDE DEF last
    <2> DEFINE p == <<first>> \o u
    <2>3. p \in Seq(Steps) /\ Sends(p) = {first} \cup Sends(u) /\ steps = p \o <<last>>
      BY <1>4, <1>6, <2>1, SendsConcat
    <2> HIDE DEF p
    <2>4. p \o <<last>> \in Seq(Steps) /\ Sends(p \o <<last>>) = Sends(p) \cup Sends(<<last>>)
      BY <2>2, <2>3, SendsConcat
    <2>5. QED
      BY <2>2, <2>3, <2>4
  <1>11. \A st \in Sends(steps) :
            /\ st.tx.do \notin Looks \cup {"register"}
            /\ st.tx.do = "update" => /\ st.tx.at = r /\ st.tx.value = LiveFeed
                                      /\ st.tx.field # "curve"
    BY <1>3, <1>5, <1>10 DEF Looks
  <1>12. Proper("panel", steps, result)
    <2>1. /\ "panel" \in Scripts /\ "panel" \in Reporting /\ "panel" \notin Strict
          /\ "panel" \notin {"market", "complete", "localnet"}
      BY DEF Scripts, Reporting, Strict
    <2>2. PlanFits("panel", result, steps)
      BY <1>7, <1>11, <2>1 DEF PlanFits
    <2>3. \A t \in Promised("panel", result) : Must(t) \in Sends(steps)
      BY <1>8, <1>10
    <2>4. \A c \in ClaimsOf(result), st \in Sends(steps) :
             IsUpdate(st.tx, c[1], "oracle") => st.tx.value = c[2]
      BY <1>2, <1>7, <1>11, KnownAddresses DEF IsUpdate
    <2>5. \A c \in ClaimsOf(result) : c[1] \in Fresh \cup {NoAddress}
      BY <1>2, <1>7
    <2>6. \A st \in Sends(steps) : st.tx.do = "update" =>
             st.tx.at \in Fresh /\ st.tx.field # "curve"
      BY <1>2, <1>11
    <2>7. QED
      BY <1>9, <1>10, <2>1, <2>2, <2>3, <2>4, <2>5, <2>6 DEF Proper
  <1>13. runs' \in 0 .. MaxRuns
    BY <1>1, MarketAssumption DEF MarketAssumption, Creates, MSInv, TypeInv, MSTypeOK
  <1>14. QED
    BY <1>1, <1>12, <1>13, StartInv

LEMMA OraclesStart ==
    ASSUME MSInv, setup_devnet_oracles
    PROVE  MSInv'
  <1> DEFINE o == Generated(1)
             st == Try(CreateOracle(o))
             result == [NoFile EXCEPT !.borrow_oracle = o]
  <1>1. Left(1) /\ Start("oracles", <<st>>, result) /\ Creates
    BY DEF setup_devnet_oracles
  <1>2. o \in Addresses
    BY <1>1, GeneratedFresh DEF Fresh
  <1>3. st \in Steps /\ st.tx.do = "create_oracle"
    BY <1>2, StepsGood DEF CreateOracle, Try, Tx
  <1>4. result \in FileSet
    BY <1>2, KnownAddresses DEF NoFile, FileSet
  <1>5. <<st>> \in Seq(Steps) /\ Sends(<<st>>) = {st}
    BY <1>3, SendsOne
  <1> HIDE DEF st, result
  <1>6. Proper("oracles", <<st>>, result)
    <2>1. "oracles" \in Scripts /\ "oracles" \notin Reporting \cup Strict
      BY DEF Scripts, Reporting, Strict
    <2>2. Promised("oracles", result) = {}
      BY DEF Promised, Strict
    <2>3. PlanFits("oracles", result, <<st>>)
      BY <1>3, <1>5, <2>1 DEF PlanFits, Looks
    <2>4. QED
      BY <1>3, <1>4, <1>5, <2>1, <2>2, <2>3 DEF Proper
  <1>7. runs' \in 0 .. MaxRuns
    BY <1>1, MarketAssumption DEF MarketAssumption, Creates, MSInv, TypeInv, MSTypeOK
  <1>8. QED
    BY <1>1, <1>6, <1>7, StartInv

LEMMA DeployStarts ==
    ASSUME MSInv, deploy_governor
    PROVE  MSInv'
  <1> DEFINE st == Try(Simple("initialize_pool"))
             steps == IF pool.status = "absent" THEN <<st>> ELSE <<>>
             result == [NoFile EXCEPT !.borrow_oracle = oracles_file]
  <1>1. Start("deploy", steps, result) /\ UNCHANGED runs
    BY DEF deploy_governor
  <1>2. st \in Steps /\ st.tx.do = "initialize_pool"
    BY StepsGood DEF Simple, Try, Tx
  <1>3. result \in FileSet
    BY KnownAddresses DEF NoFile, FileSet, MSInv, TypeInv, MSTypeOK
  <1>4. steps \in Seq(Steps) /\ Sends(steps) \subseteq {st}
    BY <1>2, SendsOne, SendsEmpty
  <1> HIDE DEF st, steps, result
  <1>5. Proper("deploy", steps, result)
    <2>1. "deploy" \in Scripts /\ "deploy" \notin Reporting \cup Strict
      BY DEF Scripts, Reporting, Strict
    <2>2. Promised("deploy", result) = {}
      BY DEF Promised, Strict
    <2>3. PlanFits("deploy", result, steps)
      BY <1>2, <1>4, <2>1 DEF PlanFits, Looks
    <2>4. QED
      BY <1>2, <1>3, <1>4, <2>1, <2>2, <2>3 DEF Proper
  <1>6. runs' \in 0 .. MaxRuns
    BY <1>1 DEF MSInv, TypeInv, MSTypeOK
  <1>7. QED
    BY <1>1, <1>5, <1>6, StartInv

LEMMA MarketStarts ==
    ASSUME MSInv, setup_devnet_market
    PROVE  MSInv'
  <1> DEFINE m == Generated(1)
             c == Generated(2)
             b == Generated(3)
             o == IF oracles_file = NoAddress THEN LiveFeed ELSE oracles_file
             fields == <<"oracle", "ltv", "threshold", "deposit_limit", "borrow_limit">>
             steps == MarketPlan(m, c, b, o)
             result == MarketFile(m, c, b, o)
             first == Must(InitMarket(m))
             second == Try(InitReserve(b, m))
             last == Try(Register(m, c, b))
             u == Updates(b, o, fields)
  <1>1. Left(3) /\ Start("market", steps, result) /\ Creates
    BY DEF setup_devnet_market
  <1>2. {m, c, b} \subseteq Fresh /\ {m, c, b} \subseteq Addresses /\ {m, c, b, o} \subseteq Known
    <2>1. {m, c, b} \subseteq Fresh
      BY <1>1, GeneratedFresh
    <2>2. o \in Known
      BY KnownAddresses DEF MSInv, TypeInv, MSTypeOK
    <2>3. QED
      BY <2>1, <2>2, KnownAddresses DEF Fresh
  <1> HIDE DEF m, c, b, o
  <1>3. /\ first \in Steps /\ first.tx.do = "init_market"
        /\ second \in Steps /\ second.tx.do = "init_reserve"
        /\ last \in Steps /\ last.tx.do = "register" /\ last.tx.in = m
    BY <1>2, StepsGood, KnownAddresses DEF InitMarket, InitReserve, Register, Must, Try, Tx
  <1>4. /\ u \in Seq(Steps)
        /\ \A st \in Sends(u) : \E x \in FieldSet \ {"name"} : st = Try(Update(b, x, o))
    <2>1. FieldSet \ {"name"} \in SUBSET FieldSet
      OBVIOUS
    <2> HIDE DEF fields
    <2>2. fields \in Seq(FieldSet \ {"name"})
      BY FieldLists DEF fields
    <2>3. QED
      BY <1>2, <2>1, <2>2, UpdatesSend
  <1>5. \A st \in Sends(u) : st.tx.do = "update" /\ st.tx.at = b /\ st.tx.field # "name"
    BY <1>4 DEF Try, Update, Tx
  <1>6. Ordered(u)
    <2>1. DOMAIN fields = 1 .. 5
      OBVIOUS
    <2>2. u = [i \in 1 .. 5 |-> Try(Update(b, fields[i], o))]
      BY <2>1 DEF Updates
    <2>3. SUFFICES ASSUME NEW i \in 1 .. 5, NEW j \in 1 .. 5, i < j
                   PROVE  ~MustPrecede(u[j].tx, u[i].tx)
      BY <2>2 DEF Ordered
    <2>4. /\ u[i].tx.do = "update" /\ u[i].tx.field = fields[i]
          /\ u[j].tx.do = "update" /\ u[j].tx.field = fields[j]
      BY <2>2 DEF Try, Update, Tx
    <2>5. fields[i] = "deposit_limit" => i = 4
      OBVIOUS
    <2>6. j > 4 => fields[j] = "borrow_limit"
      OBVIOUS
    <2>7. QED
      BY <2>3, <2>4, <2>5, <2>6 DEF MustPrecede
  <1>7. steps = (<<first, second>> \o u) \o <<last>>
    BY DEF MarketPlan
  <1>8. /\ result \in FileSet /\ result.market = m /\ result.borrow = b /\ result.collateral = c
    BY <1>2, KnownAddresses DEF MarketFile, FileSet
  <1>9. Promised("market", result) = {InitMarket(m)}
    BY <1>8 DEF Promised, Strict
  <1> HIDE DEF u, second, last, steps, result
  <1>10. /\ steps \in Seq(Steps) /\ Ordered(steps)
         /\ Sends(steps) = {first, second, last} \cup Sends(u)
    <2> DEFINE p == <<first, second>> \o u
               q == <<first, second>>
    <2> HIDE DEF first
    <2>1. q \in Seq(Steps) /\ Sends(q) = {first, second} /\ Ordered(q)
      BY <1>3, NothingPrecedes, SendsTwo
    <2>2. <<last>> \in Seq(Steps) /\ Sends(<<last>>) = {last} /\ Ordered(<<last>>)
      BY <1>3, SendsOne
    <2>3. \A x \in Sends(q), y \in Sends(u) : ~MustPrecede(y.tx, x.tx)
      BY <1>3, <2>1 DEF MustPrecede
    <2>4. p = q \o u /\ steps = p \o <<last>>
      BY <1>7
    <2> HIDE DEF p, q
    <2>5. p \in Seq(Steps) /\ Sends(p) = {first, second} \cup Sends(u) /\ Ordered(p)
      BY <1>4, <1>6, <2>1, <2>3, <2>4, SendsConcat
    <2>6. \A x \in Sends(p), y \in Sends(<<last>>) : ~MustPrecede(y.tx, x.tx)
      BY <1>3, <1>5, <2>2, <2>5 DEF MustPrecede
    <2>7. /\ p \o <<last>> \in Seq(Steps) /\ Ordered(p \o <<last>>)
          /\ Sends(p \o <<last>>) = Sends(p) \cup Sends(<<last>>)
      BY <2>2, <2>5, <2>6, SendsConcat
    <2>8. QED
      BY <2>2, <2>4, <2>5, <2>7
  <1>11. \A st \in Sends(steps) :
            /\ st.tx.do \notin Looks
            /\ st.tx.do = "register" => st.tx.in = m
            /\ st.tx.do = "update" => st.tx.at = b /\ st.tx.field # "name"
    BY <1>3, <1>5, <1>10 DEF Looks
  <1>12. Proper("market", steps, result)
    <2>1. "market" \in Scripts /\ "market" \notin Reporting \cup Strict
      BY DEF Scripts, Reporting, Strict
    <2>2. PlanFits("market", result, steps)
      BY <1>8, <1>11, <2>1 DEF PlanFits
    <2>3. \A t \in Promised("market", result) : Must(t) \in Sends(steps)
      BY <1>9, <1>10
    <2>4. {result.borrow, result.collateral} \subseteq Fresh
      BY <1>2, <1>8
    <2>5. QED
      BY <1>2, <1>8, <1>10, <1>11, <2>1, <2>2, <2>3, <2>4 DEF Proper
  <1>13. runs' \in 0 .. MaxRuns
    BY <1>1, MarketAssumption DEF MarketAssumption, Creates, MSInv, TypeInv, MSTypeOK
  <1>14. QED
    BY <1>1, <1>12, <1>13, StartInv

LEMMA LocalnetStarts ==
    ASSUME MSInv, setup_localnet
    PROVE  MSInv'
  <1> DEFINE p == Generated(1)
             m == Generated(2)
             r == Generated(3)
             steps == LocalnetPlan(p, m, r)
             result == LocalFile(m, r)
             first == Must(InitMarket(m))
             last == Try(Update(r, "oracle", LiveFeed))
  <1>1. Left(3) /\ Start("localnet", steps, result) /\ Creates
    BY DEF setup_localnet
  <1>2. {p, m, r} \subseteq Fresh /\ {p, m, r} \subseteq Addresses
    BY <1>1, GeneratedFresh DEF Fresh
  <1> HIDE DEF p, m, r
  <1>3. \A do \in {"init_local_pool", "list_locally", "mint_locally"} :
            /\ Try(ForLocalPool(do, p)) \in Steps
            /\ Try(ForLocalPool(do, p)).tx.do = do
    BY <1>2, StepsGood DEF ForLocalPool, Try, Tx
  <1>4. /\ first \in Steps /\ first.tx.do = "init_market"
        /\ Try(InitReserve(r, m)) \in Steps /\ Try(InitReserve(r, m)).tx.do = "init_reserve"
    BY <1>2, StepsGood, KnownAddresses DEF InitMarket, InitReserve, Must, Try, Tx
  <1>5. /\ last \in Steps /\ last.tx.do = "update" /\ last.tx.at = r /\ last.tx.field = "oracle"
    BY <1>2, UpdateGood, FieldNames, KnownAddresses DEF Update, Try, Tx
  <1>6. /\ result \in FileSet /\ result.market = m /\ result.borrow = r
        /\ result.collateral = NoAddress
    BY <1>2, KnownAddresses DEF LocalFile, NoFile, FileSet
  <1>7. Promised("localnet", result) = {InitMarket(m)}
    BY <1>6 DEF Promised, Strict
  <1> DEFINE s1 == Try(ForLocalPool("init_local_pool", p))
             s2 == Try(ForLocalPool("list_locally", p))
             s3 == Try(ForLocalPool("mint_locally", p))
             s5 == Try(InitReserve(r, m))
  <1>8. steps = <<s1, s2, s3, first, s5, last>>
    BY DEF LocalnetPlan
  <1>9. /\ s1 \in Steps /\ s1.tx.do = "init_local_pool"
        /\ s2 \in Steps /\ s2.tx.do = "list_locally"
        /\ s3 \in Steps /\ s3.tx.do = "mint_locally"
        /\ s5 \in Steps /\ s5.tx.do = "init_reserve"
    BY <1>3, <1>4
  <1> HIDE DEF s1, s2, s3, s5, last, steps, result
  <1>10. steps \in Seq(Steps) /\ Sends(steps) = {s1, s2, s3, first, s5, last}
    <2> HIDE DEF first
    <2>1. steps \in Seq(Steps) /\ DOMAIN steps = 1 .. 6
      BY <1>4, <1>5, <1>8, <1>9
    <2>2. 1 .. 6 = {1, 2, 3, 4, 5, 6}
      OBVIOUS
    <2>3. /\ steps[1] = s1 /\ steps[2] = s2 /\ steps[3] = s3 /\ steps[4] = first
          /\ steps[5] = s5 /\ steps[6] = last
      BY <1>8
    <2>4. QED
      BY <2>1, <2>2, <2>3 DEF Sends
  <1>11. \A st \in Sends(steps) :
            /\ st.tx.do \notin Looks \cup {"register"}
            /\ st.tx.do = "update" => st.tx.at = r /\ st.tx.field # "name"
    BY <1>4, <1>5, <1>9, <1>10 DEF Looks
  <1>12. Proper("localnet", steps, result)
    <2>1. /\ "localnet" \in Scripts /\ "localnet" \notin Reporting \cup Strict
          /\ "localnet" # "complete" /\ "localnet" # "market"
      BY DEF Scripts, Reporting, Strict
    <2>2. PlanFits("localnet", result, steps)
      BY <1>11, <2>1 DEF PlanFits, Reporting
    <2>3. \A t \in Promised("localnet", result) : Must(t) \in Sends(steps)
      BY <1>7, <1>10
    <2>4. {result.borrow, result.collateral} \subseteq Fresh \cup {NoAddress}
      BY <1>2, <1>6
    <2>5. QED
      BY <1>2, <1>6, <1>10, <1>11, <2>1, <2>2, <2>3, <2>4 DEF Proper
  <1>13. runs' \in 0 .. MaxRuns
    BY <1>1, MarketAssumption DEF MarketAssumption, Creates, MSInv, TypeInv, MSTypeOK
  <1>14. QED
    BY <1>1, <1>12, <1>13, StartInv

LEMMA CompleteStarts ==
    ASSUME MSInv, complete_devnet_setup
    PROVE  MSInv'
  <1> DEFINE result == [market_file EXCEPT !.created = TRUE]
  <1>1. Start("complete", CompletePlan, result) /\ UNCHANGED runs
    BY DEF complete_devnet_setup
  <1>2. /\ result \in FileSet /\ result.market = market_file.market
        /\ {result.borrow, result.collateral} \subseteq Others
    <2>1. market_file \in FileSet
      BY DEF MSInv, TypeInv
    <2>2. QED
      BY <2>1 DEF FileSet, Others
  <1> HIDE DEF result
  <1>3. /\ CompletePlan \in Seq(Steps)
        /\ \A st \in Sends(CompletePlan) : st.tx.do \in Looks \cup {"mint_wrapped"}
    <2>1. \A do \in Looks \cup {"mint_wrapped"} :
             Try(Simple(do)) \in Steps /\ Try(Simple(do)).tx.do = do
      BY StepsGood DEF Try, Simple, Tx
    <2> DEFINE s1 == Try(Simple("look_borrow"))
               s2 == Try(Simple("look_entry"))
               s3 == Try(Simple("mint_wrapped"))
               s4 == Try(Simple("look_collateral"))
               s5 == Try(Simple("look_configure"))
    <2>2. CompletePlan = <<s1, s2, s3, s4, s5>>
      BY DEF CompletePlan, Look
    <2>3. \A st \in {s1, s2, s3, s4, s5} :
             st \in Steps /\ st.tx.do \in Looks \cup {"mint_wrapped"}
      BY <2>1 DEF Looks
    <2> HIDE DEF s1, s2, s3, s4, s5
    <2>4. CompletePlan \in Seq(Steps) /\ DOMAIN CompletePlan = 1 .. 5
      BY <2>2, <2>3
    <2>5. 1 .. 5 = {1, 2, 3, 4, 5}
      OBVIOUS
    <2>6. Sends(CompletePlan) = {s1, s2, s3, s4, s5}
      BY <2>2, <2>4, <2>5 DEF Sends
    <2>7. QED
      BY <2>3, <2>4, <2>6
  <1>4. \A st \in Sends(CompletePlan) : st.tx.do \notin {"update", "register"}
    BY <1>3 DEF Looks
  <1>5. Proper("complete", CompletePlan, result)
    <2>1. "complete" \in Scripts /\ "complete" \notin Reporting \cup Strict
      BY DEF Scripts, Reporting, Strict
    <2>2. PlanFits("complete", result, CompletePlan)
      BY <1>4, <2>1 DEF PlanFits
    <2>3. Promised("complete", result) = {}
      BY DEF Promised, Strict
    <2>4. market_file.market \in accounts \cup {NoAddress}
      BY DEF MSInv, MarketsExist, NamedMarketExists
    <2>5. QED
      BY <1>2, <1>3, <1>4, <2>1, <2>2, <2>3, <2>4 DEF Proper
  <1>6. runs' \in 0 .. MaxRuns
    BY <1>1 DEF MSInv, TypeInv, MSTypeOK
  <1>7. QED
    BY <1>1, <1>5, <1>6, StartInv

-----------------------------------------------------------------------------
(* The invariant always holds *)

LEMMA MSInvInit ==
    ASSUME MSInit
    PROVE  MSInv
  <1>1. /\ accounts = {} /\ priced = {} /\ config = {} /\ feed = {}
        /\ pool = [status |-> "absent", market |-> NoAddress, collateral |-> NoAddress,
                   borrow |-> NoAddress]
        /\ listed = FALSE /\ seeded = FALSE
        /\ oracles_file = NoAddress /\ deployment = NoAddress
        /\ market_file = NoFile /\ local_file = NoFile
        /\ reserve_file = [s \in Reporting |-> NoFile]
        /\ script = "none" /\ plan = <<>> /\ output = NoFile
        /\ adrift = {} /\ faults = 0 /\ runs = 0
    BY DEF MSInit
  <1>2. Sends(plan) = {} /\ Around = {}
    BY <1>1, SendsEmpty DEF Around
  <1>3. TypeInv
    <2>1. MSTypeOK
      <3>1. LedgerType
        BY <1>1, KnownAddresses DEF LedgerType
      <3>2. /\ {oracles_file, deployment} \subseteq Known /\ script \in Scripts \cup {"none"}
            /\ faults \in 0 .. MaxFaults /\ runs \in 0 .. MaxRuns
        BY <1>1, KnownAddresses, MarketAssumption DEF MarketAssumption
      <3>3. QED
        BY <3>1, <3>2 DEF LedgerType, MSTypeOK
    <2>2. QED
      BY <1>1, <2>1, SendsEmpty, NoFileType DEF TypeInv
  <1>4. \A r, x : ~Touched(r, x) /\ ~Mentioned(r, x)
    BY <1>1, <1>2 DEF Touched, Mentioned
  <1>5. Claims \subseteq {<<NoAddress, NoAddress>>}
    BY <1>1 DEF Claims, ClaimsOf, NoFile, Reporting, Strict
  <1>6. Quiet /\ PlanFits(script, output, plan) /\ Own /\ Apart /\ NoNames
    BY <1>1, <1>2, <1>4, <1>5 DEF Quiet, PlanFits, Own, Apart, NoNames, Reporting, Strict
  <1>7. Promises /\ InOrder /\ LimitsToCome
    BY <1>1 DEF Promises, Promised, InOrder, LimitsToCome, Strict
  <1>8. Ready /\ Reported
    BY <1>1, <1>4 DEF Ready, Marks, Reported
  <1>9. MarketsExist
    BY <1>1 DEF MarketsExist, NamedMarketExists, NoFile
  <1>10. QED
    BY <1>3, <1>6, <1>7, <1>8, <1>9 DEF MSInv

LEMMA RunInv ==
    ASSUME MSInv, Run
    PROVE  MSInv'
  <1>1. CASE setup_eusx_market
    BY <1>1, TwoReservesStart DEF setup_eusx_market
  <1>2. CASE setup_fresh_reserves
    BY <1>2, TwoReservesStart DEF setup_fresh_reserves
  <1>3. QED
    BY <1>1, <1>2, OneReserveStarts, OraclesStart, DeployStarts, MarketStarts, CompleteStarts,
       LocalnetStarts, PanelStarts DEF Run

LEMMA StutterInv ==
    ASSUME MSInv, UNCHANGED msVars
    PROVE  MSInv'
  <1>1. UNCHANGED <<ledger, adrift>> /\ UNCHANGED process /\ UNCHANGED files /\ UNCHANGED <<faults, runs>>
    BY DEF msVars, ledger, process, files
  <1>2. script' = script /\ plan' = plan /\ output' = output /\ reserve_file' = reserve_file
    BY <1>1 DEF process, files
  <1>3. Around' = Around
    BY <1>1, <1>2 DEF Around
  <1>4. TypeInv'
    <2>1. LedgerType'
      BY <1>1, LedgerTyped DEF MSInv, ledger, LedgerType
    <2>2. QED
      BY <1>1, <1>2, <2>1, TypeFromLedger DEF MSInv, TypeInv, MSTypeOK
  <1>5. Own' /\ Apart' /\ PlanFits(script, output, plan)' /\ NoNames'
    <2>1. Claims' \subseteq Claims /\ Others' \subseteq Others
      BY <1>1, <1>2, ClaimsStay
    <2>2. QED
      BY <1>1, <1>2, <1>3, <2>1, LedgerKept, NothingAdded DEF MSInv
  <1>6. \A t : Done(t)' <=> Done(t)
    BY <1>1, LedgerKept
  <1>7. Promises' /\ Reported'
    <2>1. Promises'
      BY <1>2, <1>6 DEF MSInv, Promises, Promised, ClaimsOf
    <2>2. Reported'
      BY <1>2, <1>6 DEF MSInv, Reported, Promised, ClaimsOf
    <2>3. QED
      BY <2>1, <2>2
  <1>8. Quiet' /\ InOrder'
    BY <1>2 DEF MSInv, Quiet, InOrder, Ordered
  <1>9. LimitsToCome' /\ Ready'
    BY <1>1, <1>2, <1>3, LedgerKept DEF MSInv, LimitsToCome, Ready
  <1>10. MarketsExist'
    BY <1>1, <1>2 DEF MSInv, MarketsExist, NamedMarketExists, ledger, files
  <1>11. QED
    BY <1>4, <1>5, <1>7, <1>8, <1>9, <1>10 DEF MSInv

LEMMA MSInvNext ==
    ASSUME MSInv, [MSNext]_msVars
    PROVE  MSInv'
  <1>1. CASE Run
    BY <1>1, RunInv
  <1>2. CASE LookAround
    BY <1>2, LookAroundInv
  <1>3. CASE SendNext
    BY <1>3, SendNextInv
  <1>4. CASE Save
    BY <1>4, SaveInv
  <1>5. CASE Abort
    BY <1>5, AbortInv
  <1>6. CASE Settle
    BY <1>6, SettleInv
  <1>7. CASE UNCHANGED msVars
    BY <1>7, StutterInv
  <1>8. QED
    BY <1>1, <1>2, <1>3, <1>4, <1>5, <1>6, <1>7 DEF MSNext, ScriptStep

LEMMA MSInvAlways == MSSpec => []MSInv
  <1>1. MSInit => MSInv
    BY MSInvInit
  <1>2. MSInv /\ [MSNext]_msVars => MSInv'
    BY MSInvNext
  <1>3. QED
    BY <1>1, <1>2, PTL DEF MSSpec

-----------------------------------------------------------------------------
(* Theorems *)

\* What the strict scripts saved, or the panel reported, for the frontends is
\* on the ledger: configured in full and reading oracles with a price, however
\* many scripts have run since, were killed, or had transactions land late.
THEOREM SavedReservesAreReadyCorrect == MSSpec => []SavedReservesAreReady
  <1>1. ASSUME MSInv PROVE SavedReservesAreReady
    <2>1. ASSUME NEW s \in Strict, reserve_file[s] # NoFile,
                 NEW p \in ClaimsOf(reserve_file[s])
          PROVE  /\ {p[1]} \X FieldSet \subseteq config
                 /\ p \in feed /\ p[2] \in priced
      <3>1. \A t \in Promised(s, reserve_file[s]) : Done(t)
        BY <1>1, <2>1 DEF MSInv, Reported, Reporting
      <3>2. Done(WriteOracle(p[2]))
        BY <2>1, <3>1 DEF Promised, Strict
      <3>3. ASSUME NEW x \in FieldSet PROVE Done(Update(p[1], x, p[2]))
        BY <2>1, <3>1 DEF Promised, Strict
      <3>4. p[2] \in priced
        BY <3>2 DEF Done, WriteOracle, Tx
      <3>5. {p[1]} \X FieldSet \subseteq config
        BY <3>3 DEF Done, Update, Tx
      <3>6. <<p[1], p[2]>> \in feed
        <4>1. Done(Update(p[1], "oracle", p[2]))
          BY <3>3, FieldNames
        <4>2. QED
          BY <4>1 DEF Done, Update, Tx
      <3>7. p = <<p[1], p[2]>>
        BY <2>1 DEF ClaimsOf
      <3>8. QED
        BY <3>4, <3>5, <3>6, <3>7
    <2>2. ASSUME reserve_file["panel"] # NoFile
          PROVE  <<reserve_file["panel"].collateral,
                   reserve_file["panel"].collateral_oracle>> \in feed
      <3> DEFINE t == Refresh(reserve_file["panel"].collateral,
                              reserve_file["panel"].collateral_oracle)
      <3>1. t \in Promised("panel", reserve_file["panel"])
        BY DEF Promised, Strict
      <3>2. Done(t)
        BY <1>1, <2>2, <3>1 DEF MSInv, Reported, Reporting
      <3>3. QED
        BY <3>2 DEF Done, Refresh, Tx
    <2>3. QED
      BY <2>1, <2>2 DEF SavedReservesAreReady, ClaimsOf
  <1>2. QED
    BY <1>1, MSInvAlways, PTL

\* A reserve of a strict script opens for deposits only once its oracle has a
\* price and its terms are set, wherever the script was interrupted.
THEOREM LimitsAreLastCorrect == MSSpec => []LimitsAreLast
  <1>1. ASSUME MSInv PROVE LimitsAreLast
    <2>1. MSTypeOK
      BY <1>1 DEF MSInv, TypeInv
    <2>2. ASSUME NEW r \in accounts, {r} \X {"name", "curve", "deposit_limit"} \subseteq config
          PROVE  /\ {r} \X {"oracle", "ltv", "threshold"} \subseteq config
                 /\ \E o \in priced : <<r, o>> \in feed
      <3>1. r \in Addresses /\ \A x \in Marks : Touched(r, x)
        BY <2>1, <2>2 DEF MSTypeOK, Marks, Touched
      <3>2. Valued(r)
        BY <1>1, <3>1 DEF MSInv, Ready
      <3>3. QED
        BY <3>2 DEF Valued
    <2>3. QED
      BY <2>1, <2>2 DEF LimitsAreLast
  <1>2. QED
    BY <1>1, MSInvAlways, PTL

\* A market that the pool registered, once and for all, or that a file names
\* for the frontends, exists.
THEOREM NamedMarketExistsCorrect == MSSpec => []NamedMarketExists
  <1>1. MSInv => NamedMarketExists
    BY DEF MSInv, MarketsExist
  <1>2. QED
    BY <1>1, MSInvAlways, PTL
=============================================================================
