----------------------------- MODULE TradeDesk -----------------------------
(***************************************************************************)
(* The mock-oracle program: a desk with an administrator and operators,    *)
(* its feeds, and raw accounts that hold a price in klend's format.  Its   *)
(* clients: setup-tradedesk.ts, which may be interrupted and run again,    *)
(* update-tradedesk-price.ts, which first reads who it is, and the         *)
(* console's OraclePanel, open in several tabs.  Anyone may write a raw    *)
(* account, and every account of the program can be written as one.        *)
(***************************************************************************)
EXTENDS Naturals, FiniteSets

CONSTANTS Admin, Operators,  \* the desk's administrator; wallets it may add
          Listed,            \* the operator setup-tradedesk.ts adds
          Labels, Raw,       \* feeds to create; addresses for raw accounts
          Prices, None,
          Tabs,
          MaxTime, MaxFaults, MaxRuns, MaxWrites   \* bounds

ASSUME TradeDeskAssumption ==
    /\ Admin \notin Operators /\ Listed \in Operators /\ IsFiniteSet(Operators)
    /\ None \notin Prices /\ Prices # {} /\ IsFiniteSet(Labels)
    /\ None # [price |-> None, time |-> 0]   \* no account is not an empty one
    /\ {MaxTime, MaxFaults, MaxRuns, MaxWrites} \subseteq Nat

VARIABLES
    desk,       \* whether it exists, feed_count and operator_count
    operators,  \* wallets with an operator entry
    feed,       \* label -> status, price, time of the last update, and layout
    raw,        \* address -> price and time; without account, or not written
    file,       \* tradedesk.json: None, or the labels it lists
    setup,      \* the run of setup-tradedesk.ts
    update,     \* the run of update-tradedesk-price.ts
    tab,        \* OraclePanel: what each tab is about to send
    now, faults, runs, writes

program == <<desk, operators, feed, raw>>
clients == <<file, setup, update, tab>>
deskVars == <<program, clients, now, faults, runs, writes>>

Signers == Operators \cup {Admin}
NoFeed == [status |-> "absent", price |-> None, time |-> 0, layout |-> "none"]
Unwritten == [price |-> None, time |-> 0]
Idle == [at |-> "idle", left |-> {}, saved |-> {}]

TradeDeskTypeOK ==
    /\ desk.exists \in BOOLEAN /\ desk.feed_count \in Nat /\ desk.operator_count \in Nat
    /\ operators \subseteq Operators
    /\ \A l \in Labels : feed[l].layout \in {"none", "PriceFeed", "raw"}
    /\ file \in {None} \cup SUBSET Labels
    /\ setup.at \in {"idle", "desk", "feeds", "operator", "save"}
    /\ update.at \in {"idle", "read"}

-----------------------------------------------------------------------------
(* The program *)

is_desk_authorized(signer, entry) ==
    \/ signer = Admin
    \/ entry = signer /\ signer \in operators

create_desk ==
    /\ ~desk.exists
    /\ desk' = [exists |-> TRUE, feed_count |-> 0, operator_count |-> 0]
    /\ UNCHANGED <<operators, feed, raw>>

Mutant_add_operator_Again(w) ==
    /\ desk.exists
    /\ operators' = operators \cup {w}
    /\ desk' = [desk EXCEPT !.operator_count = @ + 1]
    /\ UNCHANGED <<feed, raw>>

\* init: refused when the operator has an entry.
add_operator(w) ==
    /\ desk.exists /\ w \notin operators
    /\ operators' = operators \cup {w}
    /\ desk' = [desk EXCEPT !.operator_count = @ + 1]
    /\ UNCHANGED <<feed, raw>>

remove_operator(w) ==
    /\ w \in operators
    /\ operators' = operators \ {w}
    /\ desk' = [desk EXCEPT !.operator_count = IF @ = 0 THEN 0 ELSE @ - 1]
    /\ UNCHANGED <<feed, raw>>

create_feed(l, signer, entry, price) ==
    /\ desk.exists /\ feed[l].layout = "none"
    /\ is_desk_authorized(signer, entry)
    /\ feed' = [feed EXCEPT ![l] = [status |-> "Active", price |-> price, time |-> now,
                                    layout |-> "PriceFeed"]]
    /\ desk' = [desk EXCEPT !.feed_count = @ + 1]
    /\ UNCHANGED <<operators, raw>>

\* An operator's entry that is named must be there, whoever signs.
CanSetPrice(l, signer, entry) ==
    /\ entry \in operators \cup {None}
    /\ feed[l].layout = "PriceFeed" /\ feed[l].status = "Active"
    /\ is_desk_authorized(signer, entry)

set_price(l, signer, entry, price) ==
    /\ CanSetPrice(l, signer, entry)
    /\ feed' = [feed EXCEPT ![l].price = price, ![l].time = now]
    /\ UNCHANGED <<desk, operators, raw>>

set_feed_status(l, s) ==
    /\ feed[l].layout = "PriceFeed" /\ feed[l].status # s
    /\ feed' = [feed EXCEPT ![l].status = s]
    /\ UNCHANGED <<desk, operators, raw>>

\* Overwrites the head of an account, the kind of account included: a feed
\* written so is a feed no more.
write_raw(a, price, time) ==
    IF a \in Labels
    THEN /\ feed[a].layout # "none"
         /\ feed' = [feed EXCEPT ![a] = [status |-> "raw", price |-> price, time |-> time,
                                         layout |-> "raw"]]
         /\ UNCHANGED <<desk, operators, raw>>
    ELSE /\ raw[a] # None
         /\ raw' = [raw EXCEPT ![a] = [price |-> price, time |-> time]]
         /\ UNCHANGED <<desk, operators, feed>>

-----------------------------------------------------------------------------
(* setup-tradedesk.ts *)

Fault == faults < MaxFaults /\ faults' = faults + 1

setup_start ==
    /\ setup.at = "idle" /\ runs < MaxRuns /\ runs' = runs + 1
    /\ setup' = [at |-> "desk", left |-> Labels, saved |-> {}]
    /\ UNCHANGED <<program, file, update, tab, now, faults, writes>>

setup_desk ==
    /\ setup.at = "desk"
    /\ IF desk.exists THEN UNCHANGED program ELSE create_desk
    /\ setup' = [setup EXCEPT !.at = "feeds"]
    /\ UNCHANGED <<file, update, tab, now, faults, runs, writes>>

Done(l, saved) ==
    setup' = [setup EXCEPT !.left = @ \ {l}, !.saved = @ \cup saved,
                           !.at = IF setup.left = {l} THEN "operator" ELSE @]

Mutant_setup_feed_SavedAnyway ==
    /\ setup.at = "feeds"
    /\ \E l \in setup.left :
          \/ feed[l].layout # "none" /\ Done(l, {l}) /\ UNCHANGED <<program, faults>>
          \/ \E p \in Prices : create_feed(l, Admin, None, p) /\ Done(l, {l}) /\ UNCHANGED faults
          \/ feed[l].layout = "none" /\ Fault /\ Done(l, {l}) /\ UNCHANGED program
    /\ UNCHANGED <<file, update, tab, now, runs, writes>>

\* A feed that is there is taken over as it is; one that cannot be created is
\* left out, and the run goes on.
setup_feed ==
    /\ setup.at = "feeds"
    /\ \E l \in setup.left :
          \/ feed[l].layout # "none" /\ Done(l, {l}) /\ UNCHANGED <<program, faults>>
          \/ \E p \in Prices : create_feed(l, Admin, None, p) /\ Done(l, {l}) /\ UNCHANGED faults
          \/ feed[l].layout = "none" /\ Fault /\ Done(l, {}) /\ UNCHANGED program
    /\ UNCHANGED <<file, update, tab, now, runs, writes>>

setup_operator ==
    /\ setup.at = "operator" /\ setup' = [setup EXCEPT !.at = "save"]
    /\ \/ Listed \in operators /\ UNCHANGED <<program, faults>>
       \/ add_operator(Listed) /\ UNCHANGED faults
       \/ Fault /\ UNCHANGED program
    /\ UNCHANGED <<file, update, tab, now, runs, writes>>

\* The file is replaced, not extended.
setup_save ==
    /\ setup.at = "save" /\ setup' = Idle /\ file' = setup.saved
    /\ UNCHANGED <<program, update, tab, now, faults, runs, writes>>

\* Interrupted, or the desk could not be created.
setup_stops ==
    /\ setup.at # "idle" /\ Fault /\ setup' = Idle
    /\ UNCHANGED <<program, file, update, tab, now, runs, writes>>

-----------------------------------------------------------------------------
(* update-tradedesk-price.ts *)

Write == writes < MaxWrites /\ writes' = writes + 1

\* It needs the file for the desk; the feed is derived from what is typed.
update_reads ==
    /\ update.at = "idle" /\ file # None /\ Write
    /\ \E w \in Signers, l \in Labels, p \in Prices :
          update' = [at |-> "read", signer |-> w, label |-> l, price |-> p,
                     entry |-> IF w \in operators THEN w ELSE None]
    /\ UNCHANGED <<program, file, setup, tab, now, faults, runs>>

update_sends ==
    /\ update.at = "read" /\ update' = [at |-> "idle"]
    /\ \/ set_price(update.label, update.signer, update.entry, update.price)
       \/ ~CanSetPrice(update.label, update.signer, update.entry) /\ UNCHANGED program
    /\ UNCHANGED <<file, setup, tab, now, faults, runs, writes>>

-----------------------------------------------------------------------------
(* OraclePanel *)

NoWrite == [op |-> "none", at |-> None, price |-> None, time |-> 0]

\* A new key pair is made before anything is sent.
handleCreateOracle(t) ==
    /\ tab[t] = NoWrite /\ Write
    /\ \E a \in Raw, p \in Prices :
          /\ raw[a] = None /\ \A u \in Tabs : tab[u].at # a
          /\ tab' = [tab EXCEPT ![t] = [op |-> "create", at |-> a, price |-> p, time |-> now]]
    /\ UNCHANGED <<program, file, setup, update, now, faults, runs>>

\* The address is typed; nothing says what kind of account it is.
handleUpdatePrice(t) ==
    /\ tab[t] = NoWrite /\ Write
    /\ \E a \in Raw \cup Labels, p \in Prices :
          tab' = [tab EXCEPT ![t] = [op |-> "update", at |-> a, price |-> p, time |-> now]]
    /\ UNCHANGED <<program, file, setup, update, now, faults, runs>>

Mutant_sendTransaction_CreateAlone(t) ==
    /\ tab[t] # NoWrite
    /\ \/ /\ tab[t].op = "create"
          /\ raw' = [raw EXCEPT ![tab[t].at] = Unwritten]
          /\ UNCHANGED <<desk, operators, feed>>
       \/ tab[t].op = "update" /\ write_raw(tab[t].at, tab[t].price, tab[t].time)
       \/ UNCHANGED program
    /\ tab' = [tab EXCEPT ![t] = IF tab[t].op = "create" THEN [@ EXCEPT !.op = "update"]
                                 ELSE NoWrite]
    /\ UNCHANGED <<file, setup, update, now, faults, runs, writes>>

\* An account is created and written by one transaction, or neither happens.
sendTransaction(t) ==
    /\ tab[t] # NoWrite
    /\ \/ /\ tab[t].op = "create"
          /\ raw' = [raw EXCEPT ![tab[t].at] = [price |-> tab[t].price, time |-> tab[t].time]]
          /\ UNCHANGED <<desk, operators, feed>>
       \/ tab[t].op = "update" /\ write_raw(tab[t].at, tab[t].price, tab[t].time)
       \/ UNCHANGED program
    /\ tab' = [tab EXCEPT ![t] = NoWrite]
    /\ UNCHANGED <<file, setup, update, now, faults, runs, writes>>

-----------------------------------------------------------------------------
(* The administrator, and time *)

AdminActs ==
    /\ Write
    /\ \/ \E w \in Operators : add_operator(w) \/ remove_operator(w)
       \/ \E l \in Labels, s \in {"Active", "Halted"} : set_feed_status(l, s)
    /\ UNCHANGED <<clients, now, faults, runs>>

Tick ==
    /\ now < MaxTime /\ now' = now + 1
    /\ UNCHANGED <<program, clients, faults, runs, writes>>

TradeDeskInit ==
    /\ desk = [exists |-> FALSE, feed_count |-> 0, operator_count |-> 0]
    /\ operators = {} /\ feed = [l \in Labels |-> NoFeed] /\ raw = [a \in Raw |-> None]
    /\ file = None /\ setup = Idle /\ update = [at |-> "idle"]
    /\ tab = [t \in Tabs |-> NoWrite]
    /\ now = 0 /\ faults = 0 /\ runs = 0 /\ writes = 0

TradeDeskNext ==
    \/ setup_start \/ setup_desk \/ setup_feed \/ setup_operator \/ setup_save \/ setup_stops
    \/ update_reads \/ update_sends
    \/ \E t \in Tabs : handleCreateOracle(t) \/ handleUpdatePrice(t) \/ sendTransaction(t)
    \/ AdminActs \/ Tick

TradeDeskSpec == TradeDeskInit /\ [][TradeDeskNext]_deskVars

-----------------------------------------------------------------------------
(* Properties *)

\* The state is well typed, and the desk counts its operators and its feeds,
\* whoever adds, removes and runs the setup again; saturating_sub never has
\* anything to hide.
CountsAreRight ==
    /\ TradeDeskTypeOK
    /\ desk.operator_count = Cardinality(operators)
    /\ desk.feed_count = Cardinality({l \in Labels : feed[l].layout # "none"})

\* tradedesk.json names only feeds that were created, though runs skip what
\* fails and are interrupted.
FileNamesFeeds ==
    file # None => \A l \in file : feed[l].layout # "none"

\* klend never meets an oracle of the panel that has no price yet.
CreatedOracleIsPriced == \A a \in Raw : raw[a] # Unwritten

=============================================================================
