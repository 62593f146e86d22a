-------------------------- MODULE TradeDeskProofs --------------------------
(***************************************************************************)
(* Theorems about the oracle program and its clients, for any operators,   *)
(* feeds, addresses, prices and tabs.                                      *)
(***************************************************************************)
EXTENDS TradeDesk, FiniteSetTheorems, TLAPS

Feeds == [status : {"absent", "Active", "Halted", "raw"}, price : Prices \cup {None},
          time : Nat, layout : {"none", "PriceFeed", "raw"}]
Created == {l \in Labels : feed[l].layout # "none"}
Accounts == [price : Prices, time : Nat]
PanelWrites == [op : {"create", "update"}, at : Raw \cup Labels, price : Prices, time : Nat]

\* The shapes of what the program keeps and of what its clients carry.
ProgramShape ==
    /\ desk \in [exists : BOOLEAN, feed_count : Nat, operator_count : Nat]
    /\ operators \subseteq Operators
    /\ feed \in [Labels -> Feeds]
    /\ raw \in [Raw -> Accounts \cup {None}]

ClientShape ==
    /\ file \in {None} \cup SUBSET Labels
    /\ setup \in [at : {"idle", "desk", "feeds", "operator", "save"},
                  left : SUBSET Labels, saved : SUBSET Labels]
    /\ update.at \in {"idle", "read"}
    /\ update.at = "read" => update.label \in Labels /\ update.price \in Prices
    /\ tab \in [Tabs -> PanelWrites \cup {NoWrite}]
    /\ now \in Nat

Counts ==
    /\ desk.operator_count = Cardinality(operators)
    /\ desk.feed_count = Cardinality(Created)

\* create_desk sets both counters to 0, which is right only of a desk that has
\* nothing yet.
NothingBeforeDesk == ~desk.exists => operators = {} /\ Created = {}

\* What a run of the setup is about to save, and what it saved, exists.
SavedExists ==
    /\ setup.saved \subseteq Created
    /\ file # None => file \subseteq Created

DeskInv == ProgramShape /\ ClientShape /\ Counts /\ NothingBeforeDesk /\ SavedExists

LEMMA DeskInvImplies ==
    DeskInv => CountsAreRight /\ FileNamesFeeds /\ CreatedOracleIsPriced
  <1> SUFFICES ASSUME DeskInv
               PROVE  CountsAreRight /\ FileNamesFeeds /\ CreatedOracleIsPriced
    OBVIOUS
  <1>1. TradeDeskTypeOK
    BY DEF DeskInv, ProgramShape, ClientShape, TradeDeskTypeOK, Feeds
  <1>2. CountsAreRight
    BY <1>1 DEF DeskInv, Counts, CountsAreRight, Created
  <1>3. FileNamesFeeds
    BY DEF DeskInv, SavedExists, FileNamesFeeds, Created
  <1>4. CreatedOracleIsPriced
    <2>1. Unwritten \notin Accounts /\ None # Unwritten
      BY TradeDeskAssumption DEF TradeDeskAssumption, Accounts, Unwritten
    <2>2. QED
      BY <2>1 DEF DeskInv, ProgramShape, CreatedOracleIsPriced
  <1>5. QED
    BY <1>2, <1>3, <1>4

LEMMA DeskInitInv == TradeDeskInit => DeskInv
  <1> SUFFICES ASSUME TradeDeskInit PROVE DeskInv
    OBVIOUS
  <1>1. Created = {} /\ operators = {}
    BY DEF TradeDeskInit, Created, NoFeed
  <1>2. Counts /\ NothingBeforeDesk /\ SavedExists
    BY <1>1, FS_EmptySet DEF TradeDeskInit, Counts, NothingBeforeDesk, SavedExists, Idle
  <1>3. ProgramShape
    BY DEF TradeDeskInit, ProgramShape, Feeds, NoFeed
  <1>4. ClientShape
    BY DEF TradeDeskInit, ClientShape, Idle
  <1>5. QED
    BY <1>2, <1>3, <1>4 DEF DeskInv

-----------------------------------------------------------------------------
(* What an instruction does to the program's accounts *)

\* What every instruction preserves; feeds are never undone.
ProgramInv == ProgramShape /\ Counts /\ NothingBeforeDesk

LEMMA CreatedIsFinite == IsFiniteSet(Created)
  BY FS_Subset, TradeDeskAssumption DEF TradeDeskAssumption, Created

LEMMA OperatorsAreFinite == ProgramShape => IsFiniteSet(operators)
  BY FS_Subset, TradeDeskAssumption DEF TradeDeskAssumption, ProgramShape

LEMMA DeskStepInv ==
    ASSUME ProgramInv, create_desk
    PROVE  ProgramInv' /\ Created' = Created
  <1>1. Created' = Created /\ Created = {} /\ operators' = {}
    BY DEF create_desk, Created, ProgramInv, NothingBeforeDesk
  <1>2. QED
    BY <1>1, FS_EmptySet DEF ProgramInv, ProgramShape, Counts, NothingBeforeDesk, create_desk

LEMMA OperatorStepInv ==
    ASSUME ProgramInv, NEW w \in Operators, add_operator(w) \/ remove_operator(w)
    PROVE  ProgramInv' /\ Created' = Created
  <1>1. Created' = Created /\ UNCHANGED <<feed, raw>>
    BY DEF add_operator, remove_operator, Created
  <1>2. IsFiniteSet(operators)
    BY OperatorsAreFinite DEF ProgramInv
  <1>3. Cardinality(operators) \in Nat
    BY <1>2, FS_CardinalityType
  <1>4. ASSUME add_operator(w) PROVE ProgramInv'
    <2>1. Cardinality(operators') = Cardinality(operators) + 1
      BY <1>2, <1>4, FS_AddElement DEF add_operator
    <2>2. /\ desk' \in [exists : BOOLEAN, feed_count : Nat, operator_count : Nat]
          /\ desk'.exists /\ desk'.feed_count = desk.feed_count
          /\ desk'.operator_count = desk.operator_count + 1
      BY <1>4 DEF add_operator, ProgramInv, ProgramShape
    <2>3. QED
      BY <1>1, <1>4, <2>1, <2>2 DEF add_operator, ProgramInv, ProgramShape, Counts,
         NothingBeforeDesk
  <1>5. ASSUME remove_operator(w) PROVE ProgramInv'
    <2>1. /\ Cardinality(operators') = Cardinality(operators) - 1
          /\ Cardinality(operators) # 0
      BY <1>2, <1>5, FS_RemoveElement, FS_EmptySet DEF remove_operator
    <2>2. /\ desk' \in [exists : BOOLEAN, feed_count : Nat, operator_count : Nat]
          /\ desk'.exists = desk.exists /\ desk'.feed_count = desk.feed_count
          /\ desk'.operator_count = desk.operator_count - 1
      BY <1>3, <1>5, <2>1 DEF remove_operator, ProgramInv, ProgramShape, Counts
    <2>3. desk.exists
      BY <1>5 DEF remove_operator, ProgramInv, NothingBeforeDesk
    <2>4. QED
      BY <1>1, <1>5, <2>1, <2>2, <2>3 DEF remove_operator, ProgramInv, ProgramShape, Counts,
         NothingBeforeDesk
  <1>6. QED
    BY <1>1, <1>4, <1>5

\* A feed that changes without coming or going.
LEMMA FeedChangeInv ==
    ASSUME ProgramInv, NEW l \in Labels, NEW f \in Feeds, feed[l].layout # "none",
           f.layout # "none", feed' = [feed EXCEPT ![l] = f],
           UNCHANGED <<desk, operators, raw>>
    PROVE  ProgramInv' /\ Created' = Created
  <1>1. feed' \in [Labels -> Feeds]
    BY DEF ProgramInv, ProgramShape
  <1>2. Created' = Created
    BY DEF Created, ProgramInv, ProgramShape
  <1>3. QED
    BY <1>1, <1>2 DEF ProgramInv, ProgramShape, Counts, NothingBeforeDesk

LEMMA CreateFeedInv ==
    ASSUME ProgramInv, NEW l \in Labels, NEW signer, NEW acct, NEW p \in Prices, now \in Nat,
           create_feed(l, signer, acct, p)
    PROVE  ProgramInv' /\ Created' = Created \cup {l}
  <1>1. feed' \in [Labels -> Feeds]
    BY DEF create_feed, ProgramInv, ProgramShape, Feeds
  <1>2. Created' = Created \cup {l} /\ l \notin Created
    BY DEF create_feed, Created, ProgramInv, ProgramShape
  <1>3. Cardinality(Created') = Cardinality(Created) + 1
    BY <1>2, CreatedIsFinite, FS_AddElement
  <1>4. /\ desk' \in [exists : BOOLEAN, feed_count : Nat, operator_count : Nat]
        /\ desk'.exists /\ desk'.feed_count = desk.feed_count + 1
        /\ desk'.operator_count = desk.operator_count
    BY DEF create_feed, ProgramInv, ProgramShape
  <1>5. QED
    BY <1>1, <1>2, <1>3, <1>4 DEF create_feed, ProgramInv, ProgramShape, Counts,
       NothingBeforeDesk

LEMMA SetPriceInv ==
    ASSUME ProgramInv, NEW l \in Labels, NEW signer, NEW acct, NEW p \in Prices, now \in Nat,
           set_price(l, signer, acct, p)
    PROVE  ProgramInv' /\ Created' = Created
  <1> DEFINE f == [feed[l] EXCEPT !.price = p, !.time = now]
  <1>1. f \in Feeds /\ f.layout = feed[l].layout /\ feed[l].layout # "none"
    BY DEF set_price, CanSetPrice, ProgramInv, ProgramShape, Feeds
  <1>2. feed' = [feed EXCEPT ![l] = f]
    BY DEF set_price
  <1>3. QED
    BY <1>1, <1>2, FeedChangeInv DEF set_price

LEMMA SetFeedStatusInv ==
    ASSUME ProgramInv, NEW l \in Labels, NEW s \in {"Active", "Halted"},
           set_feed_status(l, s)
    PROVE  ProgramInv' /\ Created' = Created
  <1> DEFINE f == [feed[l] EXCEPT !.status = s]
  <1>1. f \in Feeds /\ f.layout = feed[l].layout /\ feed[l].layout # "none"
    BY DEF set_feed_status, ProgramInv, ProgramShape, Feeds
  <1>2. feed' = [feed EXCEPT ![l] = f]
    BY DEF set_feed_status
  <1>3. QED
    BY <1>1, <1>2, FeedChangeInv DEF set_feed_status

\* An address without account is written by the transaction that creates it.
LEMMA RawChangeInv ==
    ASSUME ProgramInv, NEW a \in Raw, NEW p \in Prices, NEW time \in Nat,
           raw' = [raw EXCEPT ![a] = [price |-> p, time |-> time]],
           UNCHANGED <<desk, operators, feed>>
    PROVE  ProgramInv' /\ Created' = Created
  BY DEF ProgramInv, ProgramShape, Counts, NothingBeforeDesk, Created, Accounts

LEMMA WriteRawInv ==
    ASSUME ProgramInv, NEW a \in Raw \cup Labels, NEW p \in Prices, NEW time \in Nat,
           write_raw(a, p, time)
    PROVE  ProgramInv' /\ Created' = Created
  <1>1. CASE a \in Labels
    <2>1. [status |-> "raw", price |-> p, time |-> time, layout |-> "raw"] \in Feeds
      BY DEF Feeds
    <2>2. QED
      BY <1>1, <2>1, FeedChangeInv DEF write_raw
  <1>2. CASE a \notin Labels
    BY <1>2, RawChangeInv DEF write_raw
  <1>3. QED
    BY <1>1, <1>2

LEMMA ProgramUnchanged ==
    ASSUME ProgramInv, UNCHANGED program
    PROVE  ProgramInv' /\ Created' = Created
  BY DEF ProgramInv, ProgramShape, Counts, NothingBeforeDesk, Created, program

-----------------------------------------------------------------------------
(* The clients *)

LEMMA SetupInv ==
    ASSUME DeskInv,
           \/ setup_start \/ setup_desk \/ setup_feed \/ setup_operator
           \/ setup_save \/ setup_stops
    PROVE  DeskInv'
  <1> USE DEF DeskInv, ProgramInv
  <1>1. ASSUME setup_start \/ setup_stops PROVE DeskInv'
    <2>1. UNCHANGED <<program, file, update, tab, now>>
      BY <1>1 DEF setup_start, setup_stops
    <2>2. /\ setup' \in [at : {"idle", "desk", "feeds", "operator", "save"},
                         left : SUBSET Labels, saved : SUBSET Labels]
          /\ setup'.saved = {}
      BY <1>1 DEF setup_start, setup_stops, Idle
    <2>3. QED
      BY <2>1, <2>2, ProgramUnchanged DEF ClientShape, SavedExists
  <1>2. ASSUME setup_desk PROVE DeskInv'
    <2>1. ProgramInv' /\ Created' = Created
      BY <1>2, DeskStepInv, ProgramUnchanged DEF setup_desk
    <2>2. setup' \in [at : {"idle", "desk", "feeds", "operator", "save"},
                      left : SUBSET Labels, saved : SUBSET Labels]
          /\ setup'.saved = setup.saved
      BY <1>2 DEF setup_desk, ClientShape
    <2>3. QED
      BY <1>2, <2>1, <2>2 DEF setup_desk, ClientShape, SavedExists
  <1>3. ASSUME setup_feed PROVE DeskInv'
    <2>1. PICK l \in setup.left :
             \/ feed[l].layout # "none" /\ Done(l, {l}) /\ UNCHANGED program
             \/ \E p \in Prices : create_feed(l, Admin, None, p) /\ Done(l, {l})
             \/ feed[l].layout = "none" /\ Done(l, {}) /\ UNCHANGED program
      BY <1>3 DEF setup_feed
    <2>2. l \in Labels /\ UNCHANGED <<file, update, tab, now>>
      BY <1>3 DEF setup_feed, ClientShape
    <2>3. /\ ProgramInv' /\ Created \subseteq Created'
          /\ Done(l, {}) \/ (Done(l, {l}) /\ l \in Created')
      <3>1. CASE feed[l].layout # "none" /\ Done(l, {l}) /\ UNCHANGED program
        BY <2>2, <3>1, ProgramUnchanged DEF Created
      <3>2. ASSUME NEW p \in Prices, create_feed(l, Admin, None, p), Done(l, {l})
            PROVE  ProgramInv' /\ Created \subseteq Created' /\ l \in Created'
        BY <2>2, <3>2, CreateFeedInv DEF ClientShape
      <3>3. CASE Done(l, {}) /\ UNCHANGED program
        BY <3>3, ProgramUnchanged
      <3>4. QED
        BY <2>1, <3>1, <3>2, <3>3
    <2>4. /\ setup' \in [at : {"idle", "desk", "feeds", "operator", "save"},
                         left : SUBSET Labels, saved : SUBSET Labels]
          /\ setup'.saved \subseteq setup.saved \cup Created'
      <3>1. ASSUME NEW found \in SUBSET {l}, Done(l, found)
            PROVE  /\ setup' \in [at : {"idle", "desk", "feeds", "operator", "save"},
                                  left : SUBSET Labels, saved : SUBSET Labels]
                   /\ setup'.saved = setup.saved \cup found
        BY <2>2, <3>1 DEF Done, ClientShape
      <3>2. QED
        BY <2>3, <3>1
    <2>5. QED
      BY <2>2, <2>3, <2>4 DEF ClientShape, SavedExists
  <1>4. ASSUME setup_operator PROVE DeskInv'
    <2>1. ProgramInv' /\ Created' = Created
      BY <1>4, OperatorStepInv, ProgramUnchanged, TradeDeskAssumption
         DEF setup_operator, TradeDeskAssumption
    <2>2. setup' \in [at : {"idle", "desk", "feeds", "operator", "save"},
                      left : SUBSET Labels, saved : SUBSET Labels]
          /\ setup'.saved = setup.saved
      BY <1>4 DEF setup_operator, ClientShape
    <2>3. QED
      BY <1>4, <2>1, <2>2 DEF setup_operator, ClientShape, SavedExists
  <1>5. ASSUME setup_save PROVE DeskInv'
    <2>1. UNCHANGED <<program, update, tab, now>> /\ file' = setup.saved
      BY <1>5 DEF setup_save
    <2>2. /\ setup' \in [at : {"idle", "desk", "feeds", "operator", "save"},
                         left : SUBSET Labels, saved : SUBSET Labels]
          /\ setup'.saved = {}
      BY <1>5 DEF setup_save, Idle
    <2>3. QED
      BY <2>1, <2>2, ProgramUnchanged DEF ClientShape, SavedExists
  <1>6. QED
    BY <1>1, <1>2, <1>3, <1>4, <1>5

LEMMA UpdateInv ==
    ASSUME DeskInv, update_reads \/ update_sends
    PROVE  DeskInv'
  <1> USE DEF DeskInv, ProgramInv
  <1>1. ASSUME update_reads PROVE DeskInv'
    <2>1. UNCHANGED <<program, file, setup, tab, now>>
      BY <1>1 DEF update_reads
    <2>2. update'.at = "read" /\ update'.label \in Labels /\ update'.price \in Prices
      BY <1>1 DEF update_reads
    <2>3. QED
      BY <2>1, <2>2, ProgramUnchanged DEF ClientShape, SavedExists
  <1>2. ASSUME update_sends PROVE DeskInv'
    <2>1. /\ update.label \in Labels /\ update.price \in Prices /\ now \in Nat
          /\ UNCHANGED <<file, setup, tab, now>> /\ update'.at = "idle"
      BY <1>2 DEF update_sends, ClientShape
    <2>2. ProgramInv' /\ Created' = Created
      BY <1>2, <2>1, SetPriceInv, ProgramUnchanged DEF update_sends
    <2>3. QED
      BY <2>1, <2>2 DEF ClientShape, SavedExists
  <1>3. QED
    BY <1>1, <1>2

LEMMA TabInv ==
    ASSUME DeskInv, NEW t \in Tabs,
           handleCreateOracle(t) \/ handleUpdatePrice(t) \/ sendTransaction(t)
    PROVE  DeskInv'
  <1> USE DEF DeskInv, ProgramInv
  <1>1. ASSUME handleCreateOracle(t) \/ handleUpdatePrice(t) PROVE DeskInv'
    <2>1. UNCHANGED <<program, file, setup, update, now>>
      BY <1>1 DEF handleCreateOracle, handleUpdatePrice
    <2>2. tab' \in [Tabs -> PanelWrites \cup {NoWrite}]
      BY <1>1 DEF handleCreateOracle, handleUpdatePrice, ClientShape, PanelWrites
    <2>3. QED
      BY <2>1, <2>2, ProgramUnchanged DEF ClientShape, SavedExists
  <1>2. ASSUME sendTransaction(t) PROVE DeskInv'
    <2>1. /\ tab[t] \in PanelWrites /\ tab' \in [Tabs -> PanelWrites \cup {NoWrite}]
          /\ UNCHANGED <<file, setup, update, now>>
      BY <1>2 DEF sendTransaction, ClientShape
    <2>2. /\ tab[t].at \in Raw \cup Labels /\ tab[t].price \in Prices /\ tab[t].time \in Nat
      BY <2>1 DEF PanelWrites
    <2>3. ProgramInv' /\ Created' = Created
      <3>1. CASE /\ raw' = [raw EXCEPT ![tab[t].at] =
                              [price |-> tab[t].price, time |-> tab[t].time]]
                 /\ UNCHANGED <<desk, operators, feed>>
        <4>1. CASE tab[t].at \in Raw
          BY <2>2, <3>1, <4>1, RawChangeInv
        <4>2. CASE tab[t].at \notin Raw
          <5>1. raw' = raw
            BY <3>1, <4>2 DEF ProgramShape
          <5>2. QED
            BY <3>1, <5>1, ProgramUnchanged DEF program
        <4>3. QED
          BY <4>1, <4>2
      <3>2. CASE write_raw(tab[t].at, tab[t].price, tab[t].time)
        BY <2>2, <3>2, WriteRawInv
      <3>3. CASE UNCHANGED program
        BY <3>3, ProgramUnchanged
      <3>4. QED
        BY <1>2, <3>1, <3>2, <3>3 DEF sendTransaction
    <2>4. QED
      BY <2>1, <2>3 DEF ClientShape, SavedExists
  <1>3. QED
    BY <1>1, <1>2

LEMMA OthersInv ==
    ASSUME DeskInv, AdminActs \/ Tick \/ UNCHANGED deskVars
    PROVE  DeskInv'
  <1> USE DEF DeskInv, ProgramInv
  <1>1. UNCHANGED clients /\ now' \in Nat
    BY TradeDeskAssumption DEF TradeDeskAssumption, AdminActs, Tick, deskVars, ClientShape
  <1>2. ProgramInv' /\ Created' = Created
    <2>1. ASSUME AdminActs PROVE ProgramInv' /\ Created' = Created
      BY <2>1, OperatorStepInv, SetFeedStatusInv DEF AdminActs
    <2>2. ASSUME Tick \/ UNCHANGED deskVars PROVE ProgramInv' /\ Created' = Created
      BY <2>2, ProgramUnchanged DEF Tick, deskVars
    <2>3. QED
      BY <2>1, <2>2
  <1>3. QED
    BY <1>1, <1>2 DEF ClientShape, SavedExists, clients

LEMMA DeskNextInv == DeskInv /\ [TradeDeskNext]_deskVars => DeskInv'
  BY SetupInv, UpdateInv, TabInv, OthersInv DEF TradeDeskNext

LEMMA DeskInvCorrect == TradeDeskSpec => []DeskInv
  BY DeskInitInv, DeskNextInv, PTL DEF TradeDeskSpec

\* The desk's two counters are exact for any number of operators and feeds,
\* whoever adds, removes and sets up, and however often runs are interrupted.
THEOREM CountsAreRightCorrect == TradeDeskSpec => []CountsAreRight
  <1>1. DeskInv => CountsAreRight
    BY DeskInvImplies
  <1>2. QED
    BY DeskInvCorrect, <1>1, PTL

\* tradedesk.json never names a feed that does not exist.
THEOREM FileNamesFeedsCorrect == TradeDeskSpec => []FileNamesFeeds
  <1>1. DeskInv => FileNamesFeeds
    BY DeskInvImplies
  <1>2. QED
    BY DeskInvCorrect, <1>1, PTL

\* No oracle of the panel is there without a price.
THEOREM CreatedOracleIsPricedCorrect == TradeDeskSpec => []CreatedOracleIsPriced
  <1>1. DeskInv => CreatedOracleIsPriced
    BY DeskInvImplies
  <1>2. QED
    BY DeskInvCorrect, <1>1, PTL

=============================================================================
